SPECIFICATION Spec
CONSTANTS
  Archs = {"sm_61", "rdna4", "x86_64"}
  Reg = {1, 2}
  NoReg = NoReg
  Programs <- MCPrograms
  MaxLen = 3
  MaxCalls = 2
  IntMax = 16383
  Dims = {0, 224, 225, 4096, 16383}
INVARIANTS
  ScheduledOnce
  OvertakingJustified
  EstimateBlind
  PlanCovers
CHECK_DEADLOCK FALSE
