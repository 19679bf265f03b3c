SPECIFICATION FairSpec
CONSTANTS
    Rank <- TwoRanks
    Group <- TwoGroups
    Members <- TwoRankMembers
    Schedules <- TwoRankSchedules
    Timeout = TRUE
INVARIANTS
    TypeOK
    BarrierSync
    RoundsAgree
    NoLostSignal
    PairSkew
    OnlyCompletable
PROPERTIES
    ReuseAfterConsume
    ImplementsGroupBarrier
    NoSilentHang
CHECK_DEADLOCK FALSE
