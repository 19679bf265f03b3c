SPECIFICATION Spec
CONSTANTS
    Thread = {t1}
    Gid <- Ids
    RankList <- Lists
    Foreign <- ForeignLists
    Pair <- P2PLists
    HashOf <- Hash
    Block = {b1, b2}
    MaxHandles = 3
    MaxEpoch = 2
    MaxOps = 4
SYMMETRY BlockSymmetry
INVARIANTS
    TypeOK
    TokensUnique
    LiveIffRegistered
    ShutdownDropsLists
    KernelsReadTheirRanks
CHECK_DEADLOCK FALSE
