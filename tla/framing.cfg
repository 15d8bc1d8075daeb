SPECIFICATION Spec
CONSTANTS
  BufSize = 6
  MaxMessages = 4
CHECK_DEADLOCK FALSE
INVARIANTS
  TypeOK
  HandedOverOnce
  AlwaysRoom
