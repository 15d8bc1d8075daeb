SPECIFICATION Spec
CONSTANTS
  Fd <- MCTwoFds
  IdMax = 0
  Pieces = 2
  MaxClients = 3
  MaxRestarts = 1
INVARIANTS
  TypeOK
  MisdeliveredOnlyAfterClose
  DroppedOnlyIfDead
PROPERTIES
  MatchFindsOwner
  ImplementsReplyService
