CONSTANTS
  W = 2
  N = 2
  Batch = 1
  PreRead = 0
  HelperMod = TRUE
  Modulus = 3
  Ops <- ReadThenInserts
  StaleIds <- Ids
  StaleThresholds <- Thresholds
SPECIFICATION FairSpec
INVARIANT ExactlyOnce
INVARIANT CountersExact
INVARIANT TouchInRange
INVARIANT FreedLast
PROPERTY TestReturns
