SPECIFICATION Spec
CONSTANTS
    MaxIterations = 2
    MaxRetries = 2
    MaxEmpty = 0
    ChainLength = 2
    MaxChunks = 1
    MaxCalls = 1
    MaxRuns = 2
    MaxMishaps = 2
INVARIANTS  OneReplyPerTurn NeverLeftRunning
PROPERTIES TerminalIsSaved
