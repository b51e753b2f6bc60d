SPECIFICATION Spec
CONSTANTS
  len = 3
  MaxBlocked = 1
INVARIANTS
  SendsThePrefix
