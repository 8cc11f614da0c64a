SPECIFICATION Spec
CONSTANTS
  p1 = p1
  p2 = p2
  Procs = {p1, p2}
  NoProc = NoProc
  SegmentSize = 2
  Threshold = 1
  MaxIter = 100
  StartMark = 0
  BatchSizes = {1}
  ResetTargets = {}
  Forces = {FALSE}
  MaxCalls = 4
  MaxCrashes = 1
  MaxOtherFlushes = 0
  Faults = {}
PROPERTIES
  CrashForfeitsOneSegment
SYMMETRY ProcSymmetry
CHECK_DEADLOCK FALSE
