SPECIFICATION FairSpec
CONSTANTS
  MaxSequence = 1
  Lease = 2
  DriftTolerance = 1
  StartTime = 2
  MaxTime = 7
  MaxStepBack = 2
  MaxStepsBack = 2
  MaxIDs = 4
  MaxCrashes = 1
  Faults = {"io", "dirsync"}
  Epoch = 3
  TimestampSpan = 4
  ShardSpan = 2
  SequenceSpan = 2
INVARIANTS
  TypeOK
  NoPairRepeatedUnlessRewound
  LeaseAboveMinted
  IDsTellApart
  IDsReadBack
PROPERTIES
  MintedInOrder
  GenerationEnds
CHECK_DEADLOCK FALSE
