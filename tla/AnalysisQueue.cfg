CONSTANTS
    a1 = a1
    a2 = a2
    a3 = a3
    Analyses = {a1, a2, a3}
    StoreMayFail = TRUE
    StartMayFail = TRUE
    Limits = {1, 2}
SPECIFICATION Spec
CHECK_DEADLOCK FALSE
INVARIANTS
    FirstComeFirstServed
    NoIdlePlaces
    EntryTellsOutcome
SYMMETRY Symmetry
