SPECIFICATION MCSpec
CONSTANTS
  Units = {u1, u2}
  Header = Header
  Stores = {s1, s2}
  Idle = Idle
  RootIsCwd = FALSE
  RetryCount = 3
  MaxErrors = 1
  MaxRuns = 2
  MaxTime = 2
  MaxEdits = 2
INVARIANTS
  TypeOK
  HappensAfterOrFail
  CleanRunIsComplete
  IdsInUseDiffer
  UpToDateIsCurrent
PROPERTIES
  PathsNeverOverwritten
SYMMETRY Symmetry
CHECK_DEADLOCK FALSE
