SPECIFICATION MCSpec
CONSTANTS
  Producers = {p1, p2}
  Consumers = {c1, c2}
  b1 = b1
  b2 = b2
  Batches <- MCBatches
  BatchSize <- MCBatchSize
  WaitThreshold = 3
  ExitThreshold = 2
  WakeEvery = 2
  MaxBacklog = 4
  Nothing = Nothing
  NoMore = NoMore
INVARIANTS
  TypeOK
  NoConsumerWakeupLost
  NoProducerWakeupLost
  BacklogBounded
  NobodySleepsAfterStop
  CounterAgrees
PROPERTIES
  ImplementsChannel
  StopReleasesEveryone
  ProducersResume
