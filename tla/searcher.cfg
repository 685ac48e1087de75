\* Three blocks, each written by the catch-up or live.
SPECIFICATION FairSpec
CONSTANTS
    SyncedAt = 1
    FeedBlocks <- MCFeedBlocks
    p1 = p1
    p2 = p2
    Pools = {p1, p2}
    Paths <- MCPaths
    Dirs = {"out", "back"}
    Amounts = {0, 1, 2}
    AMOUNT = 1
    MinProfit = 2
    Output <- MCOutput
    NoEntry = NoEntry
    NoArb = NoArb
INVARIANTS TypeOK CacheCoherent RatesCoherent ArbsFresh
PROPERTY Settles
\* the feed may stop at the last block
CHECK_DEADLOCK FALSE
