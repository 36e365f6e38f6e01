CONSTANTS
  t1 = t1
  t2 = t2
  t3 = t3
  Threads = {t1, t2, t3}
  INVALID = INVALID
  SENTINEL = SENTINEL
  NONE = NONE
  HashBits = 4
  Keys <- Keys9
  Values <- Keys9
  Hash <- Hash9
  NumSlot = 2
  InitDepth = 0
  Programs <- MCPrograms
SPECIFICATION Spec
CHECK_DEADLOCK FALSE
INVARIANT InBounds
INVARIANT AckedStay
INVARIANT DirectoryShape
INVARIANT GetSound
