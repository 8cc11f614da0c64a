SPECIFICATION ServiceSpec
CONSTANTS
  p1 = p1
  p2 = p2
  p3 = p3
  Procs = {p1, p2, p3}
  NoProc = NoProc
  SegmentSize = 2
  Threshold = 1
  MaxIter = 4
  StartMark = 0
  BatchSizes = {1, 3}
  ResetTargets = {}
  Forces = {FALSE}
  MaxCalls = 4
  MaxCrashes = 2
  MaxOtherFlushes = 1
  Faults = {"io", "dirsync"}
  MaxReads = 1
INVARIANTS
  TypeOK
  NoReissue
  DurableAboveIssued
  ReservationIsDurable
  WindowIsOwned
  NoGapWithinRun
  ForfeitBounded
  OvershootBounded
PROPERTIES
  AnswersAreTrue
  StopCompletes
SYMMETRY ProcSymmetry
CHECK_DEADLOCK FALSE
