SPECIFICATION RedisSpec
CONSTANTS
    MaxEvents = 3
    MaxStarts = 2
    MaxOffsetsPerTrigger = 2
    ToleranceNum = 0
    ToleranceDen = 1
    Op <- MCOp
    Lsn <- MCLsn
    OrderId <- MCOrderId
    Fields <- MCFields
INVARIANTS
    HotStateIsLatest
    NoImmortalKeys
PROPERTIES
    ImplementsHotDelivery
CHECK_DEADLOCK FALSE
