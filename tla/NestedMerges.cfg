SPECIFICATION MCSpec
CONSTANTS
  NoBlock = NoBlock
  BucketsReused = {FALSE}
  MaxSilent = 60
  MaxBlocks = 1
  MaxScopedBlocks = 1
  MaxConstructs = 2
  Anywhere = TRUE
  Naked <- NoFunctions
  Flat <- NoFunctions
  Scoped <- NoFunctions
  Structured <- StructuredFunctions
  Word = 2
  Lanes = {0, 1, 2, 3}
  Palettes = {}
  Depth = 2
  AddressDepth = 3
CHECK_DEADLOCK FALSE
INVARIANT SameExecution
