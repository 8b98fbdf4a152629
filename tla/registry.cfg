SPECIFICATION Spec
CONSTANTS
    m1 = m1
    v1 = v1
    t1 = t1
    None = None
    Mac = {m1}
    Ip = {i1}
    Vendor = {v1}
    DeviceType = {t1, t2}
    Name = {n1}
    Owner = {}
    Oui <- NoOui
    LocallyAdministered = {m1}
    TypeOf <- Typed
    AbsenceThreshold = 1
    Scanner = {"dhcp", "ssdp"}
    Client = {c1}
    DedupWindow = 0
    RetentionWindow = 0
    ScanAge = 0
    JobTime = 0
    QueueCapacity = 1
    MaxBatch = 1
    MaxClock = 0
    MaxDeletions = 1
    MaxChanges = 2
    Fault = {"read"}
    ApiOp = {"register", "update", "unregister", "delete"}
PROPERTIES ScannersNeverRegister DeviceTypeKept SightingsNeverErase
