CONSTANTS
  t1 = t1
  t2 = t2
  t3 = t3
  Threads = {t1, t2, t3}
  INVALID = INVALID
  SENTINEL = SENTINEL
  NONE = NONE
  HashBits = 3
  Keys <- Keys3
  Values <- Keys3
  Hash <- Hash3
  FIdx <- OneIdx
  SIdx <- OneIdx
  NumSlot = 1
  Probe = 1
  InitDepth = 1
  Scenarios <- Concurrent
SPECIFICATION Spec
CHECK_DEADLOCK FALSE
INVARIANT SplitAlone
INVARIANT ClosedHasOwner
INVARIANT NoLostKeyWithoutRaces
INVARIANT GetSound
INVARIANT DirectoryShape
