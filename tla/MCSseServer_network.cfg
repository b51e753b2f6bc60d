SPECIFICATION FairSpec
CONSTANTS
  Peers = {p1}
  p1 = p1
  MaxClients = 1
  Sockets = 2
  NumSlots = 1
  Capacity = 1
  MaxFailures = 0
  ChecksStop = TRUE
  RunsAgain = FALSE
  NULL = NULL
PROPERTIES
  NetworkChangeRestarts
