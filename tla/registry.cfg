SPECIFICATION Spec
CONSTANTS
  Fd = {1, 2}
  Instance <- MCInstance
  NameOf <- MCNameOf
  Pieces = 2
  MaxConns = 3
  MaxRestarts = 1
INVARIANTS EntryIsRegistered AstrayOnlyAfterClose AloneIsRoutable
PROPERTIES ImplementsDirectory
CHECK_DEADLOCK FALSE
