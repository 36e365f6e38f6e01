CONSTANTS
  t0 = t0
  t1 = t1
  t2 = t2
  t3 = t3
  Threads = {t0, t1, t2, t3}
  loader = t0
  Keys <- SomeKeys
  cardinality = 4
  Programs <- Growing
  NONE = NONE
SPECIFICATION FairSpec
INVARIANT WellFormed
INVARIANT NoMiss
INVARIANT RangeComplete
PROPERTY AllReturn
PROPERTY ImplementsMap
