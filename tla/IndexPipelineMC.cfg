SPECIFICATION MCSpec
CONSTANTS
  Producers = {p1, p2}
  Consumers = {s1, s2, x1}
  ExtraStores = {x1}
  CanFail = {p1, p2, s2, x1}
  N = 3
  Batches <- MCBatches
  BatchSize <- MCBatchSize
  WaitThreshold = 2
  ExitThreshold = 1
  WakeEvery = 2
  LargeBacklog = 2
  SmallBacklog = 2
  Nothing = Nothing
  NoMore = NoMore
INVARIANTS
  PipelineTypeOK
  EachUnitOnce
  StoresOutliveParsing
  StoredAtExit
PROPERTIES
  Finishes
