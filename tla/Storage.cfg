SPECIFICATION MCSpec
CONSTANTS
  Keys = {1, 2, 3}
  Values = {11, 12}
  None = None
  Hash <- MCHash
  init_size = 3
  MaxSize = 6
  Wrap = 20
  alloc_size = 6
  Align = 2
  InitBlocks = 2
  Sizes <- MCSizes
  MaxAllocs = 4
  Texts = {"x", "xy"}
  Remainder <- MCRemainder
  StringSize <- MCStringSize
  NodeSize = 4
  PointerSize = 3
  Structural = {"RecordType", "Cast"}
  Nominal = {"Param"}
  Folding = {"Cast"}
  MaxStrings = 3
  MaxNodes = 2
  MaxLists = 3
  MaxCount = 2
INVARIANTS CountIsExact ScanEndsAtCleanBucket IterationIsExact
           InterningExact Disjoint InsideBlock BlocksInTable
PROPERTIES ImplementsMap
CHECK_DEADLOCK FALSE
