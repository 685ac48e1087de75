\* The smallest feed that tears a calculation: one block announced, one written late.
SPECIFICATION Spec
CONSTANTS
    SyncedAt = 1
    FeedBlocks <- MCFeedBlocks
    p1 = p1
    p2 = p2
    Pools = {p1, p2}
    Paths <- MCPaths
    Dirs = {"out", "back"}
    Amounts = {0, 1, 2}
    AMOUNT = 1
    MinProfit = 2
    Output <- MCOutput
    NoEntry = NoEntry
    NoArb = NoArb
INVARIANT OneSnapshot
CHECK_DEADLOCK FALSE
