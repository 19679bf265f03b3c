SPECIFICATION FairSpec
CONSTANTS
    Rank <- ThreeRanks
    Group <- PairGroups
    Members <- PairMembers
    Schedules <- CyclicSchedules
    Timeout = FALSE
PROPERTIES
    PairOrderSuffices
CHECK_DEADLOCK FALSE
