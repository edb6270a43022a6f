SPECIFICATION MCSpec
CONSTANTS
  Producers = {p1, p2}
  Consumers = {s1, s2}
  ExtraStores = {}
  CanFail = {p1, p2, s1, s2}
  N = 2
  Batches <- MCBatches
  BatchSize <- MCBatchSize
  WaitThreshold = 2
  ExitThreshold = 1
  WakeEvery = 2
  LargeBacklog = 3
  SmallBacklog = 2
  Nothing = Nothing
  NoMore = NoMore
PROPERTIES
  Finishes
CHECK_DEADLOCK FALSE
