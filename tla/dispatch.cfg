SPECIFICATION FairSpec
CONSTANTS
  MaxThreads = 2
  ItemsPerAlloc = 2
  PipeSize = 2
  MaxConns = 3
  MaxReloads = 2
CHECK_DEADLOCK FALSE
INVARIANTS
  TypeOK
  NoneStranded
  OnePlace
  ServedAsDispatched
  NoneForgotten
  CrashNeedsReload
PROPERTIES
  EveryConnServed
  GatewayStarts
  ImplementsHandover
