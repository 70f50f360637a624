SPECIFICATION Spec
CONSTANTS
  N = 4
  Callees <- OneCallee
  Tails <- MCTails
  TailOf <- MCTailOf
  Limits <- NoLimit
  MaxWork = 5
  MaxFrames = 3
INVARIANTS AssumedUniform
