SPECIFICATION Spec
CONSTANTS
  MaxInt64 = 31
  Clusters = {1}
  SegmentSize = 2
  Threshold = 1
  BatchSizes = {1, 3}
  StartMarks = {0, 7, 8, 9, 10, 11, 12, 13, 14, 15, 28, 29, 30}
  MaxCalls = 4
  MaxRestarts = 1
INVARIANTS
  NoReissueAtEdge
CHECK_DEADLOCK FALSE
