CONSTANTS
  Keys <- FourKeys
  cardinality = 4
  InLine = 2
  HdrSlots = 1
  Kinds <- AllKinds
  OwnFirst <- Right
  Reloads = TRUE
  MaxOps = 5
SPECIFICATION Spec
CHECK_DEADLOCK FALSE
INVARIANT PageAtRest
INVARIANT NoWrongValue
INVARIANT NoMiss
INVARIANT RouteSoundUnlessEntered
