CONSTANTS
    PoolList <- MCPool
    ReportList <- MCReports
    Items <- MCItems
    a = a
    b = b
    Limit = 1
    MAX_SYMBOLS = 1
    DAILY_MAX = 2
    Callers <- MCCallers
    MaxSessions = 3
    MaxCalls = 3
    MaxMishaps = 2
SYMMETRY Sym
SPECIFICATION BatchesSpec
CHECK_DEADLOCK FALSE
INVARIANTS QueuedIsWorkedOn
PROPERTIES AnalysedOnce
