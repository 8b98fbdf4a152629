SPECIFICATION FairSpec
CONSTANTS
    Passive = {"mdns", "dhcp"}
    Connection = {"c1"}
    PacketsPerYield = 2
    QueueCapacity = 1
    MaxAlerts = 2
    Enabled = {{"arp", "mdns"}, {"snmp"}, {"dhcp"}}
    Fault = {"settings", "database", "interface", "target", "socket", "bind", "receive"}
INVARIANTS TypeOK OneLateScan StatusTruthful
PROPERTIES DroppedOnlyAtCapacity ShutdownCompletes ChannelDrains
CHECK_DEADLOCK FALSE
