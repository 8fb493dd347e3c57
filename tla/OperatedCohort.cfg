CONSTANTS
    s1 = s1
    s2 = s2
    e1 = e1
    e2 = e2
    early = early
    late = late
    Sessions = {s1, s2}
    Writes = {"run_cohort"}
    RunCohort = "run_cohort"
    TOKEN_TTL_SECONDS = 1
    MaxClock = 1
    MaxPreviews = 2
    MaxMessages = 2
    NStocks = 2
    Costs = {2}
    DEFAULT_ESTIMATE = 1
    RunBudget = 3
    DailyBudget = 4
    UNKNOWN_LIMIT = 1
    Times = {early, late}
    Editors = {e1, e2}
    StoreMayFail = TRUE
    LastDay = 2
    MaxBatches = 2
    MaxMoves = 3
SPECIFICATION Spec
CHECK_DEADLOCK FALSE
INVARIANTS
    ConfirmedOnce
    BudgetsBind
    DayIsTold
    TriggerFollowsSettings
SYMMETRY Symmetry
