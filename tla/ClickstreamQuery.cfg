SPECIFICATION ClickSpec
CONSTANTS
    MaxEvents = 3
    MaxStarts = 2
    MaxOffsetsPerTrigger = 2
    ToleranceNum = 0
    ToleranceDen = 1
    Users = {u1}
    ClickTimes <- MCClickTimes
    Duration = 2
    Gap = 2
    Delay = 2
CHECK_DEADLOCK FALSE
INVARIANTS
    WindowCountsWithinPromise
    SessionsCountOnce
    SessionsApart
PROPERTIES
    ClosedWindowsFinal
    ClosedSessionsReported
