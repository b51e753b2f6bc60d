SPECIFICATION Spec
CONSTANTS
  Peers = {p1, p2}
  p1 = p1
  p2 = p2
  MaxClients = 2
  Sockets = 3
  NumSlots = 1
  Capacity = 1
  MaxFailures = 1
  ChecksStop = FALSE
  RunsAgain = TRUE
  NULL = NULL
SYMMETRY Symmetry
INVARIANTS
  NothingLeftBehind
  
  
