SPECIFICATION MCSpec
CONSTANTS
  NoBlock = NoBlock
  BucketsReused = {TRUE, FALSE}
  MaxSilent = 60
  MaxBlocks = 1
  MaxScopedBlocks = 1
  MaxConstructs = 1
  Anywhere = FALSE
  Naked <- NoFunctions
  Flat <- TestFunctions
  Scoped <- NoFunctions
  Structured <- NoFunctions
  Word = 2
  Lanes = {0, 1, 2, 3}
  Palettes = {}
  Depth = 2
  AddressDepth = 3
CHECK_DEADLOCK FALSE
INVARIANT SameExecution
