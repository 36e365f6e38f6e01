CONSTANTS
  t1 = t1
  t2 = t2
  t3 = t3
  Threads = {t1, t2}
  INVALID = INVALID
  SENTINEL = SENTINEL
  NONE = NONE
  HashBits = 3
  Keys <- Keys3
  Values <- Keys3
  Hash <- Hash3
  FIdx <- OneIdx
  SIdx <- AllSecond
  NumSlot = 2
  Probe = 1
  InitDepth = 1
  Scenarios <- TwoWindows
SPECIFICATION FairSpec
CHECK_DEADLOCK FALSE
PROPERTY AllReturn
PROPERTY ImplementsMap
