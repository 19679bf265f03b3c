SPECIFICATION SSpec
CONSTANTS
    Rank <- ThreeRanks
    Group <- MixedGroups
    Members <- MixedMembers
    Schedules <- MixedSchedules
    Timeout = TRUE
INVARIANTS
    BarrierSync
    NoLostSignal
    CleanAfterShutdown
    BuffersUnusedWhenClosed
PROPERTIES
    ImplementsGroupBarrier
    QuietAfterDrain
CHECK_DEADLOCK FALSE
