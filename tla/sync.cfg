SPECIFICATION MCSpec
CONSTANTS
    SyncedAt = 1
    MaxBlock = 4
    Capacity = 2
    MaxReorgs = 1
    MayFail = {"rpc", "ipc"}
    MaxLag = 5
    RequestsFail = TRUE
INVARIANTS TypeOK NeverReprocessed SyncInv RaceTypeOK
PROPERTIES CaughtUpToHead RaceRefined FeedRefined SentBlocksReflected FeeFollowsHead StartsUp
