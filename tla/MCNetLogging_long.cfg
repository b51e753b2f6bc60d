SPECIFICATION FairSpec
CONSTANTS
  Loggers = {l1}
  Buffers = {b1}
  Messages = {m1, m2}
  l1 = l1
  b1 = b1
  m1 = m1
  m2 = m2
  LongMessages = {m1}
  NumSlots = 1
  Capacity = 1
  UseRingbuffer = FALSE
  QuiescentDeinit = TRUE
  NULL = NULL
PROPERTIES
  HeadIsReceived
