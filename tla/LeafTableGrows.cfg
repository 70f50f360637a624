SPECIFICATION Spec
CONSTANTS
  ChainLength = 21
  Fn <- MCFn
  InitCapacity = 32
  Inputs <- MCInputs
INVARIANTS
  LeavesCallLeaves
CHECK_DEADLOCK FALSE
