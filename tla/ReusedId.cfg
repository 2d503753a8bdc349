SPECIFICATION Spec
CONSTANTS
  Ids = {0, 1}
  MaxLines = 4
INVARIANT NoIdReused
CHECK_DEADLOCK FALSE
