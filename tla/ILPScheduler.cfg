SPECIFICATION FairSpec
CONSTANTS
  Reg = {1, 2}
  NoReg = NoReg
  Latency = 3
  Width = 2
  MinLen = 3
  Programs <- MCPrograms
  MaxLen = 4
  MaxSrcs = 2
INVARIANTS
  LatencyKept
  JustifiedOvertaking
  StallBounded
PROPERTIES
  EachOnce
  Terminates
CHECK_DEADLOCK FALSE
