SPECIFICATION Spec
CONSTANTS
  Units = {u1, u2}
  Header = Header
  Stores = {s1, s2}
  Idle = Idle
  RootIsCwd = FALSE
  RetryCount = 3
  MaxErrors = 2
  MaxRuns = 2
  MaxTime = 1
  MaxEdits = 0
INVARIANTS
  HappensAfterOrFail
SYMMETRY Symmetry
CHECK_DEADLOCK FALSE
