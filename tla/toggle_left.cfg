SPECIFICATION Spec
CONSTANTS
    None = None
    Phone = {p1}
    Token = {k1}
    QueueCapacity = 1
    RelayMax = 1
    MaxAlerts = 0
    Sender = {"loop"}
    Slot = {1}
    Fault = {"leave"}
INVARIANT OffMeansSilent
