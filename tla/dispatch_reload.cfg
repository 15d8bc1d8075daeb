SPECIFICATION Spec
CONSTANTS
  MaxThreads = 2
  ItemsPerAlloc = 2
  PipeSize = 1
  MaxConns = 2
  MaxReloads = 1
CHECK_DEADLOCK FALSE
INVARIANTS
  ReloadIsHarmless
