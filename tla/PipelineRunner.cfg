CONSTANTS
    a1 = a1
    Analyses = {a1}
    StoreMayFail = TRUE
    StartMayFail = TRUE
SPECIFICATION Spec
CHECK_DEADLOCK FALSE
INVARIANTS
    JournalTellsOutcome
PROPERTIES
    Implements
    ThreadsEnd
