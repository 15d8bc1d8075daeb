SPECIFICATION FairSpec
CONSTANTS
  c1 = c1
  c2 = c2
  c3 = c3
  Consumer <- MCConsumer
  Producer = producer
  Capacity = 3
  MaxMessages = 7
INVARIANTS
  TypeOK
  NobodySleepsOnWork
  RingHoldsBacklog
PROPERTIES
  EveryMessageRuns
  ImplementsTaskQueue
