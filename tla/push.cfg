SPECIFICATION Spec
CONSTANTS
    None = None
    Phone = {p1}
    Token = {k1, k2}
    QueueCapacity = 1
    RelayMax = 2
    MaxAlerts = 0
    Sender = {"loop", "test"}
    Slot = {1, 2}
    Fault = {"network", "late", "leave", "kill", "rotate"}
INVARIANTS ToggleTruthful
