CONSTANTS
    Symbols = {s1}
    SignalIds = {g1, g2}
    Decisions = {d1}
    MarketRows <- MCMarketRows
    LOT_SIZE = 2
    MIN_COMMISSION = 1
    COMMISSION_DIV = 10
    STAMP_DIV = 10
    SlippageTiers = {0, 1}
    MAX_SLIPPAGE = 1
    MAX_SINGLE_POSITION = 20
    MAX_TOTAL_POSITION = 80
    InitialCash = 10
    MaxDay = 2
    Quantities = {2, 3}
    PENDING_EXPIRE_DAYS = 3
    MaxOrders = 2
    MaxCancels = 2
SPECIFICATION Spec
SYMMETRY SignalSymmetry
CHECK_DEADLOCK FALSE
INVARIANTS
    ConservedUntilCanceled
    ExpiresOnTime
PROPERTIES
    OnlyCancelsReopen
