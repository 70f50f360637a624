SPECIFICATION MCSpec
CONSTANTS
  Keys = {}
  Values = {}
  None = None
  Hash <- MCHash
  init_size = 3
  MaxSize = 3
  Wrap = 20
  alloc_size = 6
  Align = 2
  InitBlocks = 2
  Sizes = {}
  MaxAllocs = 4
  Texts = {"x", "xy"}
  Remainder <- MCRemainder
  StringSize <- MCStringSize
  NodeSize = 4
  PointerSize = 3
  Structural = {"RecordType"}
  Nominal = {"Param"}
  Folding = {}
  MaxStrings = 3
  MaxNodes = 1
  MaxLists = 1
  MaxCount = 1
INVARIANT StringsShared
CHECK_DEADLOCK FALSE
