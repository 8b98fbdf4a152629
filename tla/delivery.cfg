SPECIFICATION Spec
CONSTANTS
    None = None
    Phone = {p1}
    Token = {k1, k2, k3}
    QueueCapacity = 1
    RelayMax = 2
    MaxAlerts = 2
    Sender = {"loop", "test"}
    Slot = {1}
    Fault = {"database", "relay", "restart", "rotate"}
INVARIANTS TypeOK AlertsAtMostOnce
PROPERTIES LiveTokensKept
