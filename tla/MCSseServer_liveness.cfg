SPECIFICATION FairSpec
CONSTANTS
  Peers = {p1, p2}
  p1 = p1
  p2 = p2
  MaxClients = 1
  Sockets = 3
  NumSlots = 1
  Capacity = 1
  MaxFailures = 3
  ChecksStop = TRUE
  RunsAgain = FALSE
  NULL = NULL
PROPERTIES
  TaskStops
  GoneClientsAreReclaimed
  FullBufferDrains
  ServerComesBack
  SignalledChangeRestarts
  FreeEntriesAreTaken
  KeepsPromise
