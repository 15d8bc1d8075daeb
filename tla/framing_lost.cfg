SPECIFICATION Spec
CONSTANTS
  BufSize = 6
  MaxMessages = 3
CHECK_DEADLOCK FALSE
INVARIANTS
  NoMessageLost
