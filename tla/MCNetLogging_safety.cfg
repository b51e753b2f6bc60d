SPECIFICATION Spec
CONSTANTS
  Loggers = {l1, l2}
  Buffers = {b1, b2, b3}
  Messages = {m1, m2}
  l1 = l1
  l2 = l2
  b1 = b1
  b2 = b2
  b3 = b3
  m1 = m1
  m2 = m2
  LongMessages = {}
  NumSlots = 2
  Capacity = 1
  UseRingbuffer = FALSE
  QuiescentDeinit = TRUE
  NULL = NULL
SYMMETRY Symmetry
INVARIANTS
  TypeOK
  ListedBuffersExist
  TableIsExact
  MutualExclusion
  SameOrder
PROPERTIES
  ImplementsBroadcast
