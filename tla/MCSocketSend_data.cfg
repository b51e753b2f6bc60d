SPECIFICATION Spec
CONSTANTS
  len = 5
  MaxBlocked = 3
INVARIANTS
  NoByteSkipped
  SuccessSendsAll
CHECK_DEADLOCK FALSE
