SPECIFICATION FairSpec
CONSTANTS
  BuffersOf <- MCBuffersOf
  NumSlots = 2
INVARIANTS
  CoreOutlivesSenders
  DeinitFindsNoBuffer
  HookHasMutex
PROPERTIES
  UsesSenders
  HookIsGivenBack
CHECK_DEADLOCK FALSE
