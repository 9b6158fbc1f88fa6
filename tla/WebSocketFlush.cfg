SPECIFICATION SinkSpec
CONSTANTS
    MaxEvents = 3
    MaxStarts = 2
    MaxOffsetsPerTrigger = 2
    ToleranceNum = 0
    ToleranceDen = 1
    Alerts = {1, 2}
    QueueMax = 1
INVARIANTS
    AlertsBroadcastAtLeastOnce
CHECK_DEADLOCK FALSE
