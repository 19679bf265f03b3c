SPECIFICATION Spec
CONSTANTS
    CallSet <- SmallCalls
    Align = 16
    BlockBytes = 16
    MinChunk = 8
    FusedChunk = 16
INVARIANTS
    AccessesLegal
    StoredOnce
    AllStored
