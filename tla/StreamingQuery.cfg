SPECIFICATION FairSpec
CONSTANTS
    MaxEvents = 4
    MaxStarts = 3
    MaxOffsetsPerTrigger = 2
    ToleranceNum = 0
    ToleranceDen = 1
INVARIANTS
    TypeOK
    LogsAgree
    DriverFollowsCheckpoint
    BatchesBounded
PROPERTIES
    CheckpointNeverRevised
    DataLossHalts
    Drains
CHECK_DEADLOCK FALSE
