CONSTANTS
    Symbols = {1, 2}
    Decisions = {1, 2}
    SignalIds <- MCSignalIds
    MarketRows <- MCMarketRows
    LOT_SIZE = 1
    MIN_COMMISSION = 0
    COMMISSION_DIV = 100
    STAMP_DIV = 100
    SlippageTiers = {0}
    MAX_SLIPPAGE = 0
    MAX_SINGLE_POSITION = 40
    MAX_TOTAL_POSITION = 60
    InitialCash = 10
    MaxDay = 4
    WINDOW = 2
    Actions = {"buy", "hold"}
    Snapshots <- RoughSnapshots
    Multipliers = {100}
SPECIFICATION DaySpec
CHECK_DEADLOCK FALSE
INVARIANTS
    OneOrderPerSignal
    OrdersAreAuthorised
    FlatMarketFlatCurve
PROPERTIES
    EntriesRespectProjectedCap
    
