SPECIFICATION Spec
CONSTANTS
    Thread = {t1}
    Gid <- Ids
    RankList <- Lists
    Foreign <- ForeignLists
    Pair <- P2PLists
    HashOf <- Hash
    Block = {b1, b2}
    MaxHandles = 3
    MaxEpoch = 3
    MaxOps = 4
INVARIANTS
    EpochsLaunched
CHECK_DEADLOCK FALSE
