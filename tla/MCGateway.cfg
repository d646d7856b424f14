SPECIFICATION FairSpec
CONSTANTS
    Id = {1, 2, 3}
    Keeper = {k}
    MAX_SCAN = 2
    MAX_BATCH = 2
    Forged <- Strangers
    MaxChanges = 4
INVARIANT ReachedInTime
PROPERTIES EventuallyReached
