\* Concurrent calls, failures and stops of the process.
SPECIFICATION Spec
CONSTANTS
  w1 = w1
  w2 = w2
  w3 = w3
  o1 = o1
  o2 = o2
  NoObject = NoObject
  Workers <- MCWorkers
  Objects <- MCObjects
  MaxCalls = 5
  MaxCrashes = 1
SYMMETRY MCSymmetry
INVARIANTS
  TypeOK
  NoPartialObject
  TempIsInFlight
PROPERTIES
  StoreSpec
\* The callers may make no further call.
CHECK_DEADLOCK FALSE
