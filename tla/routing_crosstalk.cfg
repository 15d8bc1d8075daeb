SPECIFICATION Spec
CONSTANTS
  Fd <- MCOneFd
  IdMax = 65535
  Pieces = 2
  MaxClients = 2
  MaxRestarts = 0
INVARIANTS
  NoCrossTalk
