SPECIFICATION Spec
CONSTANTS
    Rank <- TwoRanks
    Group <- PairGroup
    GroupRanks <- PairOrdered
    Workloads <- ChannelWorkloads
    CommSize = 4
    Channels = 2
    Sms = {4}
    Width = 5
    Armed = {}
    StepBase <- Bases
INVARIANTS
    StagedBeforePull
PROPERTIES
    ImplementsExchange
