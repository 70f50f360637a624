SPECIFICATION MCSpec
CONSTANTS
  Word = 8
  Lanes = {0}
  f1 = f1
  f2 = f2
  f3 = f3
  Fn = {f1, f2, f3}
  Pointer = Pointer
  Nr = {1, 2}
  InitCapacity = 32
  Marks = {"captured", "indirect"}
  MaxFacts = 6
  MaxCalls = 3
  Inputs <- MCInputs
  Modules <- MCModules
  LeafSources <- MCLeafSources
  InlineSources <- MCInlineSources
SYMMETRY Symmetry
INVARIANTS
  CallGraphExact
  LeavesCallLeaves
  LeavesReachNoObstacle
  NoDanglingCall
  NoRecursiveInlining
  SlimAccepts
  SlimExact
CHECK_DEADLOCK FALSE
