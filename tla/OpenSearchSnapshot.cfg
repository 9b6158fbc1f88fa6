SPECIFICATION OpenSearchSpec
CONSTANTS
    MaxEvents = 3
    MaxStarts = 3
    MaxOffsetsPerTrigger = 2
    ToleranceNum = 0
    ToleranceDen = 1
    Op <- MCSnapshotOp
    Lsn <- MCSnapshotLsn
    OrderDay <- MCSnapshotOrderDay
CHECK_DEADLOCK FALSE
INVARIANTS
    SearchableAtLeastOnce
