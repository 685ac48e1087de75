SPECIFICATION MCSpec
CONSTANTS
    RESERVE = 2
    STAMP = 2
    PRICE = 2
    TICK = 3
    INDEX = 1
    LIQUIDITY = 2
    BITS = 2
    PairStates <- MCPairStates
    Slot0States <- MCSlot0States
    Liquidities = {0, 3}
    Ticks <- MCTicks
    TickStates <- MCTickStates
    Observations = {9}
    SPACING = 3
    Pools = {p}
    Tokens = {t}
    SyncedSlots = {reserves}
    OtherSlots = {other}
    TokenSlots = {balance, allowance}
    BalanceSlot = balance
    Values = {zero, v1, v2}
    Zero = zero
    Granted = granted
    AllowanceSlot = allowance
    Approved = approved
    Absent = absent
    InitialStates <- MCInitialStates
    Fresh = v1
    Stale = v2
    MaxBlock = 3
    Batches <- MCBatches
    MayMiss = {}
    p = p
    t = t
    reserves = reserves
    other = other
    balance = balance
    allowance = allowance
    approved = approved
    zero = zero
    v1 = v1
    v2 = v2
    granted = granted
    absent = absent
INVARIANTS AllChangesApplied
CHECK_DEADLOCK FALSE
