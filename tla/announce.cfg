SPECIFICATION Spec
CONSTANTS
    m1 = m1
    v1 = v1
    t1 = t1
    None = None
    Mac = {m1}
    Ip = {i1}
    Vendor = {}
    DeviceType = {}
    Name = {n1}
    Owner = {}
    Oui <- NoOui
    LocallyAdministered = {}
    TypeOf <- Untyped
    AbsenceThreshold = 2
    Scanner = {"arp", "mdns"}
    Client = {c1, c2}
    DedupWindow = 1
    RetentionWindow = 1
    ScanAge = 0
    JobTime = 1
    QueueCapacity = 1
    MaxBatch = 1
    MaxClock = 2
    MaxDeletions = 2
    MaxChanges = 2
    Fault = {"read", "store", "record", "check", "api"}
    ApiOp = {"delete"}
INVARIANTS NewDevicesNotified
