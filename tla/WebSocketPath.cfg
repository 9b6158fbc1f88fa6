SPECIFICATION FairPathSpec
CONSTANTS
    MaxEvents = 3
    MaxStarts = 2
    MaxOffsetsPerTrigger = 2
    ToleranceNum = 0
    ToleranceDen = 1
    Alerts = {1, 2}
    QueueMax = 1
    MaxRecords = 2
    Conns = {"c1", "c2"}
    User <- MCUser
    Targets <- MCTargets
    All = All
    MaxDeaths = 2
    PageSize = 2
INVARIANTS
    AlertsAccountedFor
    TargetedOnly
    ConnectedClientsServed
PROPERTIES
    BroadcastDrains
CHECK_DEADLOCK FALSE
