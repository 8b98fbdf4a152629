SPECIFICATION FairSpec
CONSTANTS
    m1 = m1
    v1 = v1
    t1 = t1
    None = None
    Mac = {m1, m2}
    Ip = {i1}
    Vendor = {v1}
    DeviceType = {}
    Name = {}
    Owner = {}
    Oui <- AllOui
    LocallyAdministered = {}
    TypeOf <- Untyped
    AbsenceThreshold = 1
    Scanner = {"arp"}
    Client = {}
    DedupWindow = 0
    RetentionWindow = 0
    ScanAge = 0
    JobTime = 0
    QueueCapacity = 1
    MaxBatch = 2
    MaxClock = 1
    MaxDeletions = 0
    MaxChanges = 3
    Fault = {"store", "notify", "purge", "crash"}
    ApiOp = {}
INVARIANTS AlertsConserved
PROPERTIES RaisedChangesSettle
