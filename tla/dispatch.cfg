\* Up to three live blocks, so up to three transactions.
SPECIFICATION FairSpec
CONSTANTS
    SyncedAt = 1
    FeedBlocks <- MCFeedBlocks
    a = a
    b = b
    Paths = {a, b}
    AMOUNT = 4
    STEP = 2
    MAXSTEPS = 2
    CAP = 20
    Quote <- MCQuote
    Reverts = Reverts
    Nothing = Nothing
INVARIANTS TypeOK NoncesInOrder OnlyQuoted
PROPERTIES ShutsDown PathsDecided
\* everything may have ended
CHECK_DEADLOCK FALSE
