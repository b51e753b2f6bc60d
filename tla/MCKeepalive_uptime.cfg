SPECIFICATION Spec
CONSTANTS
  TickTypes = 32
  Timeout = 5
  Round = 2
  MaxUptime = 24
INVARIANTS
  KeepaliveInTime
PROPERTIES
  KeepaliveNotTooSoon
CHECK_DEADLOCK FALSE
