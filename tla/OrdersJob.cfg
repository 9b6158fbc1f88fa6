SPECIFICATION FairSpec
CONSTANTS
    SinkSeq <- MCSinkSeq
    Stalled = {"redis"}
    MaxEvents = 2
    MaxStarts = 2
    MaxCatalog = 2
    MaxOffsetsPerTrigger = 1
INVARIANTS
    FanOutAtLeastOnce
PROPERTIES
    CommittedRowsAreFinal
    ImplementsQueries
    AnyFailureStopsAll
    SlowSinkDoesNotBlock
CHECK_DEADLOCK FALSE
