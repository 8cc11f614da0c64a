SPECIFICATION Spec
CONSTANTS
  p1 = p1
  p2 = p2
  Procs = {p1, p2}
  NoProc = NoProc
  SegmentSize = 2
  Threshold = 1
  MaxIter = 3
  StartMark = 0
  BatchSizes = {1, 3}
  ResetTargets = {}
  Forces = {FALSE}
  MaxCalls = 4
  MaxCrashes = 0
  MaxOtherFlushes = 0
  Faults = {}
INVARIANTS
  WithinLimit
SYMMETRY ProcSymmetry
CHECK_DEADLOCK FALSE
