SPECIFICATION FairSpec
CONSTANTS
  f1 = f1
  f2 = f2
  f3 = f3
  f4 = f4
  f5 = f5
  Fd = {f1, f2, f3, f4, f5}
  NoFd = NoFd
  MaxOthers = 2
CHECK_DEADLOCK FALSE
INVARIANTS
  TypeOK
  LinkIsNamed
  NoSocketLeft
PROPERTIES
  LinkComesBack
