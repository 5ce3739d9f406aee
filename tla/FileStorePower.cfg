\* A Put that is done, and the power lost before its data is on the disk.
SPECIFICATION PowerSpec
CONSTANTS
  w1 = w1
  o1 = o1
  NoObject = NoObject
  Workers <- MCWorkers
  Objects <- MCObjects
  MaxCalls = 2
  MaxCrashes = 0
  MaxPowerLosses = 1
INVARIANTS
  NoPartialObject
CHECK_DEADLOCK FALSE
