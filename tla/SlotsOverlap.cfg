SPECIFICATION Spec
CONSTANTS
    SignBit = 4096
    Types <- MCTypes
    StackBytes = 400
    DataTypes <- MCDataTypes
    EntryTypes <- NoParameters
    YieldTypes <- MCYieldTypes
    FrameTypes <- MCFrameTypes
    AllocaAnywhere = TRUE
    MaxWork = 3
    MaxValues = 6
INVARIANTS
    MemoryHolds
CHECK_DEADLOCK FALSE
