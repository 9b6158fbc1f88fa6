SPECIFICATION OpenSearchSpec
CONSTANTS
    MaxEvents = 4
    MaxStarts = 3
    MaxOffsetsPerTrigger = 2
    ToleranceNum = 0
    ToleranceDen = 1
    Op <- MCOp
    Lsn <- MCLsn
    OrderDay <- MCOrderDay
INVARIANTS
    SearchableAtLeastOnce
    DocsArePlanned
PROPERTIES
    ReplayInvisible
    ImplementsDelivery
CHECK_DEADLOCK FALSE
