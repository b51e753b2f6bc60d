SPECIFICATION FairSpec
CONSTANTS
  Loggers = {l1, l2}
  Buffers = {b1}
  Messages = {m1, m2}
  l1 = l1
  l2 = l2
  b1 = b1
  m1 = m1
  m2 = m2
  LongMessages = {m2}
  NumSlots = 1
  Capacity = 1
  UseRingbuffer = FALSE
  QuiescentDeinit = FALSE
  NULL = NULL
PROPERTIES
  LineReachesStdout
