SPECIFICATION Spec
CONSTANTS
  a = a
  b = b
  Entities = {a, b}
  p1 = p1
  p2 = p2
  Procs = {p1, p2}
  Types = {"numeric", "uuid", "snowflake"}
  Starts = {2}
  SegmentSize = 2
  MaxCalls = 4
  MaxCrashes = 2
  Faults = {"io", "dirsync"}
INVARIANTS
  TypeOK
  DurableBinding
  OneTypePerName
  StartHonoured
  MarksAboveHanded
SYMMETRY NameSymmetry
CHECK_DEADLOCK FALSE
