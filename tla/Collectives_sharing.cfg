SPECIFICATION Spec
CONSTANTS
    Rank <- ThreeRanks
    Group <- AllGroups
    GroupRanks <- Ordered
    Workloads <- SharingWorkloads
    CommSize = 4
INVARIANTS
    TypeOK
    NoRace
PROPERTIES
    ImplementsExchange
CHECK_DEADLOCK FALSE
