CONSTANTS
  t0 = t0
  t1 = t1
  t2 = t2
  t3 = t3
  Threads = {t0, t1, t2, t3}
  loader = t0
  INVALID = INVALID
  SENTINEL = SENTINEL
  JUNK = JUNK
  NONE = NONE
  Keys <- SomeKeys
  F <- FirstHash
  S <- SecondHash
  LockSize = 2
  reserved_levels = 2
  ASSOC_NUM = 1
  kCuckooThreshold = 4
  kMaxGrows = 3
  Scenarios <- Tables
SPECIFICATION Spec
INVARIANT NothingLost
INVARIANT GetFinds
