CONSTANTS
    Symbols = {"s1"}
    Opinions <- MCOpinions
    MaxViews = 3
    LastDay = 3
    LastViewDay = 2
    TradingDays <- MCTradingDays
    Horizon = 1
    StaleDays = 2
    MaxFaults = 1
SPECIFICATION Spec
CHECK_DEADLOCK FALSE
INVARIANTS
    OneJudgedPerDay
    DuplicatesAreReplaced
PROPERTIES
    SettledOnce
    ChangesAreReadFirst
    DueViewsEnd
