SPECIFICATION Spec
CONSTANTS
  Reg = {1, 2}
  NoReg = NoReg
  FmaLatency = 4
  LoadLatency = 6
  Programs <- MCPrograms
  MaxLen = 4
INVARIANTS
  ReachingDefs
  OrderKept
  BarsPlaced
CHECK_DEADLOCK FALSE
