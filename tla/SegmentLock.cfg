CONSTANTS
  t1 = t1
  t2 = t2
  t3 = t3
  Threads <- ThreeThreads
SPECIFICATION FairSpec
INVARIANT TypeOK
INVARIANT SplitExclusive
PROPERTY SuspendReturns
PROPERTY ImplementsGate
