SPECIFICATION MCSpec
CONSTANTS
    WETH = "W"
    MAX_HOPS = 4
    Pools <- MCPools
    MIN_TICK <- MCMinTick
    MAX_TICK = 9
    TICK_SPACING = 2
    WORD = 2
    SUBTICKS = 2
    FEE = 1
    SCALE = 4
    Positions <- MCPositions
    Amounts = {0, 3, 9, 60}
    Tokens = {"W", "A", "B", "C", "D", "X"}
    Sound = {"W", "A", "B", "C", "X"}
    WETH_ADDRESS = "W"
    BLACKLIST = {"X"}
    PAGES = 2
    PAGE = 2
    SyncedPools <- MCSyncedPools
    AMOUNT = 100
    AccessList <- MCAccessList
    BalanceSlot <- MCBalanceSlot
    known_slots <- MCKnownSlots
    IMPLEMENTATION_SLOT = 0
    Asset = "W"
    MarketPools = {"u", "b", "p", "s", "v", "w", "x"}
    PoolOf <- MCPoolOf
    InitialReserves <- MCInitialReserves
    LastPosition = 190
    PREMIUM = 500
    Arbs <- MCArbs
    TradedAmount = 60
    UNIT = 100
    ROUNDS = 8
    StablePools <- MCStablePools
    AeroAmounts = {1, 10, 100, 250}
    Nobody = Nobody
INVARIANTS SwapTypeOK LiquidityActive OutIsDue CyclesExact CyclesUsable
INVARIANTS ListsAgree KeptAreDeep DeepAreKept
INVARIANTS ExecutesAsQuoted PaysToTheCurve
PROPERTY Finishes
CHECK_DEADLOCK FALSE
