CONSTANTS
    Drafts <- MCDrafts
    NoDraft = NoDraft
    CheckerMayFail = TRUE
    Plans <- MCPlans
    Declared = {"no", "unknown"}
SPECIFICATION FairSpec
CHECK_DEADLOCK FALSE
INVARIANTS FinalDecisionIsExecutable MissingIsTold OnlyJudgedDecisionsLeave
PROPERTIES SessionsEnd
