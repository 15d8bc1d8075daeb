SPECIFICATION Spec
CONSTANTS
  o1 = o1
  Obj <- MCObj
  NoObj = NoObj
  TokenLength = 2
  BufSize = 6
  MaxRead = 4
  Streams <- MCStreams
  Nuls <- MCNuls
  Sizes <- MCSizes
  MaxConns = 2
  MaxBytes = 8
CHECK_DEADLOCK FALSE
INVARIANTS
  TypeOK
  OnlyOwnFirstLine
  EachLineOneCall
  FirstLineHandled
