SPECIFICATION Spec
CONSTANTS
  MaxSequence = 1
  Lease = 2
  DriftTolerance = 1
  StartTime = 2
  MaxTime = 8
  MaxStepBack = 2
  MaxStepsBack = 1
  MaxIDs = 5
  MaxCrashes = 0
  Faults = {"io"}
INVARIANTS
  NoPairRepeated
CHECK_DEADLOCK FALSE
