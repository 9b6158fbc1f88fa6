SPECIFICATION BroadcastSpec
CONSTANTS
    MaxRecords = 2
    Conns = {"c1", "c2"}
    User <- MCUser
    Targets <- MCTargets
    All = All
    MaxDeaths = 0
    PageSize = 2
INVARIANTS
    EveryActiveConnectionServed
CHECK_DEADLOCK FALSE
