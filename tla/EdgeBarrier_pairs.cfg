SPECIFICATION FairSpec
CONSTANTS
    Rank <- ThreeRanks
    Group <- PairGroups
    Members <- PairMembers
    Schedules <- PairAndGlobalSchedules
    Timeout = FALSE
PROPERTIES
    Completes
    ImplementsFairGroupBarrier
CHECK_DEADLOCK FALSE
