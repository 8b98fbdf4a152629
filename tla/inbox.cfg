SPECIFICATION FairSpec
CONSTANTS
    None = None
    MaxId = 3
    OnRecord = 2
    PageSize = 2
    MaxInFlight = 2
    MaxChanges = 3
INVARIANTS
    TypeOK
    SettledShowsFilter
    NewestFirst
PROPERTIES
    ListConverges
