SPECIFICATION Spec
CONSTANTS
    None = None
    MacRecord <- MCMacRecord
    ServiceRecord <- MCServiceRecord
    TypeRecord <- MCTypeRecord
    Display <- MCDisplay
    RecentWindow = 1
    Like <- MCLike
    Microsecond = 2
    SummaryListLimit = 3
    MacOctets <- MCMacOctets
    IpOctets <- MCIpOctets
    Vendor = {"Cisco", "Apple"}
    DeviceType = {"phone"}
    Chunk <- MCChunk
    Row <- MCRow
    SsdpHeader <- MCSsdpHeader
    MdnsRecord <- MCMdnsRecord
    Interface <- MCInterface
    DeviceRow <- MCDeviceRow
    EventRow <- MCEventRow
    MaxLength = 3
    MaxKnown = 2
    MaxFew = 1
    MaxInstant = 2
    MaxRows = 3
    MaxListed = 5
CHECK_DEADLOCK FALSE
INVARIANTS
    WholeOptionsOnly
    SnmpSettles
    ResolvedMacIsTheSenders
    ReportsFit
    AcceptedIsFollowed
    CountsTheLastHour
    TellsTheScanUnderWay
    PagesPartition
    EventsReadBack
    NothingPrivate
    SummaryAccountsForAll
