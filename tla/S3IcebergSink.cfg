SPECIFICATION IcebergSpec
CONSTANTS
    MaxEvents = 5
    MaxStarts = 3
    MaxOffsetsPerTrigger = 2
    ToleranceNum = 0
    ToleranceDen = 1
    Op <- MCOp
    Lsn <- MCLsn
INVARIANTS
    ArchivedAtLeastOnce
    BatchAtomic
    CopiesBoundedByStarts
PROPERTIES
    ImplementsDelivery
CHECK_DEADLOCK FALSE
