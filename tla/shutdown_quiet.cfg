SPECIFICATION QuietSpec
CONSTANTS
    Passive = {}
    Connection = {}
    PacketsPerYield = 2
    QueueCapacity = 1
    MaxAlerts = 0
    Enabled = {{"arp"}}
    Fault = {}
PROPERTIES ProbeAbandoned
CHECK_DEADLOCK FALSE
