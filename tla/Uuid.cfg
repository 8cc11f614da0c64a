SPECIFICATION FairSpec
CONSTANTS
  Keys = {0, 1, 2}
  RoundOut <- MCRoundOut
  PadOut <- MCPadOut
  HalfXor <- MCXor
  Rounds = 3
  Base = 3
  Lengths = {2, 5}
  ShortLength = 2
  ShortHalf = 4
  LongHalf = 8
  Power <- MCPower
INVARIANTS
  TypeOK
  RoundTrip
  OnlyIssuedAccepted
PROPERTIES
  CallsEnd
CHECK_DEADLOCK FALSE
