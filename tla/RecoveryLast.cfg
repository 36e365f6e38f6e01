CONSTANTS
  t1 = t1
  t2 = t2
  Threads = {t1}
  Keys <- LastBits
  INVALID = INVALID
  SENTINEL = SENTINEL
  HashBits = 4
  Hash <- HashOf
  NumSlot = 1
  InitDepth = 2
  Workloads <- Last
SPECIFICATION Spec
CHECK_DEADLOCK FALSE
INVARIANT AckedSurvive
