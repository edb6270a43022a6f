SPECIFICATION FairSpec
CONSTANTS
  NumRuns = 3
INVARIANTS
  TypeOK
  NotOutlived
  StartsOnCompleteData
PROPERTIES
  RunSettles
CHECK_DEADLOCK FALSE
