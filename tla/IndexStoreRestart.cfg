SPECIFICATION Spec
CONSTANTS
  Units = {u1, u2}
  Header = Header
  Stores = {s1, s2}
  Idle = Idle
  RootIsCwd = FALSE
  RetryCount = 3
  MaxErrors = 0
  MaxRuns = 2
  MaxTime = 1
  MaxEdits = 0
INVARIANTS
  ConsistentView
SYMMETRY Symmetry
CHECK_DEADLOCK FALSE
