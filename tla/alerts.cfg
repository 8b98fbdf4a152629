SPECIFICATION Spec
CONSTANTS
    m1 = m1
    v1 = v1
    t1 = t1
    None = None
    Mac = {m1}
    Ip = {i1}
    Vendor = {}
    DeviceType = {}
    Name = {}
    Owner = {}
    Oui <- NoOui
    LocallyAdministered = {}
    TypeOf <- Untyped
    AbsenceThreshold = 2
    Scanner = {"arp", "ssdp"}
    Client = {c1}
    DedupWindow = 1
    RetentionWindow = 1
    ScanAge = 1
    JobTime = 1
    QueueCapacity = 1
    MaxBatch = 1
    MaxClock = 2
    MaxDeletions = 1
    MaxChanges = 3
    Fault = {"read", "store", "record", "crash"}
    ApiOp = {"delete"}
INVARIANTS TypeOK EventsSpaced OneAlertPerAbsence AnnouncedOncePerLifetime
