CONSTANTS
    Clients = {c1}
    SUBSCRIBER_QUEUE_MAX = 1
    JournalMayFail = TRUE
    MaxRuns = 2
    MaxTokens = 2
SPECIFICATION StreamSpec
CHECK_DEADLOCK FALSE
INVARIANTS
    NoHoles
    TerminalClosesItsRun
    StreamsEndWithTheirRun
