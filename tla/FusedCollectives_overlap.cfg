SPECIFICATION FairSpec
CONSTANTS
    Rank <- ThreeRanks
    Group <- Groups
    GroupRanks <- Ordered
    Workloads <- OverlapAndWatched
    CommSize = 4
    Channels = 1
    Sms = {1, 2}
    Width = 5
    Armed <- WatchedWorkloads
    StepBase <- Bases
INVARIANTS
    TypeOK
    StagedBeforePull
PROPERTIES
    ImplementsExchange
    AcceptedCallsReturn
    NoKernelHangs
CHECK_DEADLOCK FALSE
