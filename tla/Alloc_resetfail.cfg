SPECIFICATION Spec
CONSTANTS
  p1 = p1
  p2 = p2
  Procs = {p1, p2}
  NoProc = NoProc
  SegmentSize = 2
  Threshold = 1
  MaxIter = 100
  StartMark = 0
  BatchSizes = {1, 3}
  ResetTargets = {1}
  Forces = {FALSE}
  MaxCalls = 4
  MaxCrashes = 1
  MaxOtherFlushes = 1
  Faults = {"resetsync"}
INVARIANTS
  NoReissue
SYMMETRY ProcSymmetry
CHECK_DEADLOCK FALSE
