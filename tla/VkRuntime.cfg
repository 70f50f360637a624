SPECIFICATION Spec
CONSTANTS
  Cmd = {c1, c2, c3}
  Value = {"one", "two"}
  MaxCalls = 5
  MaxFailures = 1
  MaxTimeouts = 1
SYMMETRY CommandsAlike
INVARIANTS
  ReleasedExactly
  NothingReleasedInUse
  KernelSeesItsConstants
  ReadsBack
