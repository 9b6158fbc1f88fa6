SPECIFICATION DedupSpec

CONSTANTS
    Txns = {x1, x2}
    Times = {0, 1, 2}
    Watermarks = {0, 1, 2, 3}
    Window = 1
    MaxElements = 3
    MaxRestarts = 1

CHECK_DEADLOCK FALSE

INVARIANTS
    SeenHasTimer
    NothingDropped
    RepeatsOnlyAfterWindow
    CopiesOnlyAtBoundary
