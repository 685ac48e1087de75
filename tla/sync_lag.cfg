SPECIFICATION FairSpec
CONSTANTS
    SyncedAt = 1
    MaxBlock = 5
    Capacity = 2
    MaxReorgs = 0
    MayFail = {}
PROPERTIES NoBlockMissed
