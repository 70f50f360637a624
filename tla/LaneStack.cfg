SPECIFICATION Spec
CONSTANTS
    SignBit = 4096
    Types <- MCTypes
    StackBytes = 160
    DataTypes <- MCDataTypes
    EntryTypes <- MCYieldTypes
    YieldTypes <- MCYieldTypes
    FrameTypes <- MCFrameTypes
    AllocaAnywhere = FALSE
    MaxWork = 3
    MaxValues = 6
INVARIANTS
    ValuesSurvive
    MemoryHolds
    ReturnRestoresCaller
CHECK_DEADLOCK FALSE
