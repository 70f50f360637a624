SPECIFICATION FairSpec
CONSTANTS
  N = 3
  Callees <- TwoCallees
  Tails <- MCTails
  TailOf <- MCTailOf
  Limits <- MCLimits
  MaxWork = 4
  MaxFrames = 3
INVARIANTS
  TypeOK
  LaneOwnsBranch
  SchedulerNeverIdles
  AssumedUniform
  ScheduledBranchIsLeaf
  TokensNest
PROPERTIES
  ExitTogether
  LanesRunSequentially
  Termination
