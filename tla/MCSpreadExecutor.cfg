SPECIFICATION MCSpec
CONSTANTS
    t1 = t1
    t2 = t2
    v1 = v1
    v2 = v2
    a1 = a1
    a2 = a2
    Tokens = {t1, t2}
    Venues = {v1, v2}
    Accounts = {a1, a2}
    AllowedBuy <- BuyVenues
    AllowedSell <- SellVenues
    InitialAdmin = a1
    InitialPauser = a2
    Amounts <- SmallAmounts
    MaxBalance = 3
    Q = 16
    MaxUint = 4095
    FeeUnit = 10
    WordSize = 4
    MaxTick = 8
    Spacing = 2
    SqrtAtTick <- MCSqrtAtTick
    Positions <- MCPositions
    QuoteAmounts = {1, 3, 10, 29, 80}
    Fees = {0, 1, 3}
    TimeWrap = 14
    SumWrap = 56
    ReadBatch = 2
    Windows = {2, 5}
    Gaps = {2, 3}
    TickSteps <- MCTickSteps
    FirstTime = 11
    FirstSum = 53
    RingSizes = {2, 3}
    MaxWrites = 4
    HeadsRegress = FALSE
    LateKinds = {"mint"}
    BlockLogs = 2
    MaxHeight = 3
    MaxLogs = 3
    BufferLimit = 3
    MaxLosses = 2
    MaxRepeats = 1
SYMMETRY Symmetry
INVARIANTS TypeOK NoAllowanceLeft ProfitHonoured
    LiquidityFollows StepsComplete RoundsForPool FeeHistoryExact RetainedExact
PROPERTY KeepsOwn
CHECK_DEADLOCK FALSE
