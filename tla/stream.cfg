SPECIFICATION Spec
CONSTANTS
  Writer = {w1, w2, w3}
  Nobody = Nobody
  Units = 3
  MaxMessages = 4
CHECK_DEADLOCK FALSE
INVARIANTS
  TypeOK
  OneLineEach
  DamageHasReason
  DamageEndsWithNext
  OpenLineIsShort
