SPECIFICATION Spec
CONSTANTS
    Rank <- TwoRanks
    ConfigSet <- Configs
    TableSet <- Tables
    CallsSet <- CallPairs
    Address <- Addresses
INVARIANTS
    NothingHalfIssued
    NoLateChannelError
    BarriersPairUp
