CONSTANTS
    Jobs = {"snapshot", "screening", "marking"}
    Snapshot = "snapshot"
    FireTime <- MCFireTime
    CATCH_UP_WINDOW = 2
    CATCH_UP_MAX_JOBS = 2
    MAX_ATTEMPTS = 1
    HistoryMayFail = TRUE
    ClockMayStepBack = FALSE
    Polling = FALSE
    ManualRuns = FALSE
    MaxTime = 3
    MaxStarts = 2
    MaxRuns = 3
SPECIFICATION JobsSpec
CHECK_DEADLOCK FALSE
INVARIANTS CatchUpInOrder
