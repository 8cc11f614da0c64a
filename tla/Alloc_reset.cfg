SPECIFICATION FairSpec
CONSTANTS
  p1 = p1
  p2 = p2
  Procs = {p1, p2}
  NoProc = NoProc
  SegmentSize = 2
  Threshold = 1
  MaxIter = 100
  StartMark = 0
  BatchSizes = {1, 3}
  ResetTargets = {4}
  Forces = {TRUE, FALSE}
  MaxCalls = 4
  MaxCrashes = 1
  MaxOtherFlushes = 1
  Faults = {"io", "dirsync"}
INVARIANTS
  IndInv
PROPERTIES
  WindowMovesInPlace
  CounterSpec
  CallsReturn
CHECK_DEADLOCK FALSE
