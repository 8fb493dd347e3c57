CONSTANTS
    Jobs = {"snapshot"}
    Snapshot = "snapshot"
    FireTime <- MCFireTime
    CATCH_UP_WINDOW = 1
    CATCH_UP_MAX_JOBS = 2
    MAX_ATTEMPTS = 2
    HistoryMayFail = FALSE
    ClockMayStepBack = FALSE
    Polling = TRUE
    ManualRuns = TRUE
    MaxTime = 1
    MaxStarts = 2
    MaxRuns = 3
SPECIFICATION FairSpec
CHECK_DEADLOCK FALSE
INVARIANTS SingleFlight
PROPERTIES LiveRunsStay StaleRowsEnd
