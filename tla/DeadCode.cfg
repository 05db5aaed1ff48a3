SPECIFICATION P1Spec
CONSTANTS
  Reg = {0, 1, 2, 9}
  NoReg = NoReg
  None = None
  RZ = 9
  Lookahead = 3
  MaxBody = 2
  MaxRegs = 2
  MinAllocate = 5
  IssueWidth = 2
  Latency = 4
  LoadLatency = 8
  MaxMoved = 2
  MaxLen = 1
  Programs <- MCPrograms
INVARIANT OnlyUnreachableCut
CHECK_DEADLOCK FALSE
