SPECIFICATION FairSpec
CONSTANTS
    Rank <- ThreeRanks
    Group <- AllGroups
    GroupRanks <- Ordered
    Workloads <- GlobalWorkloads
    CommSize = 4
PROPERTIES
    ImplementsExchange
    EveryCallReturns
CHECK_DEADLOCK FALSE
