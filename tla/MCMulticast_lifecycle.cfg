SPECIFICATION FairSpec
CONSTANTS
  Sockets = 2
  Capacity = 2
  MaxFailures = 3
  ChecksStop = TRUE
INVARIANTS
  TaskLeavesNothing
PROPERTIES
  TaskStops
  FullBufferDrains
  SenderComesBack
  KeepsPromise
