SPECIFICATION FairSpec
CONSTANTS
    SyncedAt = 1
    MaxBlock = 3
    Capacity = 4
    MaxReorgs = 1
    MayFail = {}
PROPERTIES ReorgsReflected
