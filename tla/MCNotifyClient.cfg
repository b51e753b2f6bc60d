SPECIFICATION FairSpec
CONSTANTS
  MaxCalls = 2
  Sockets = 1
  Capacity = 2
INVARIANTS
  UsesLiveBuffer
  KeptBufferHasReader
  SocketsAreHeld
  BitIsTrue
PROPERTIES
  KeptBufferDrains
CHECK_DEADLOCK FALSE
