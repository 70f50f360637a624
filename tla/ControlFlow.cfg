SPECIFICATION MCSpec
CONSTANTS
  NoBlock = NoBlock
  BucketsReused = {TRUE, FALSE}
  MaxSilent = 60
  MaxBlocks = 4
  MaxScopedBlocks = 4
  MaxConstructs = 2
  Anywhere = FALSE
  Naked <- NakedFunctions
  Flat <- FlatFunctions
  Scoped <- ScopedFunctions
  Structured <- StructuredFunctions
  Word = 2
  Lanes = {0, 1, 2, 3}
  Palettes = {1, 3}
  Depth = 2
  AddressDepth = 3
CHECK_DEADLOCK FALSE
INVARIANTS SameExecution AnalysesExact HeuristicsSuffice LanesReconverge
           FoldExact UniformSound LoweringExact SpirvExact CExact
