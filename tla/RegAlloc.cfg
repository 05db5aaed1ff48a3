SPECIFICATION Spec
CONSTANTS
  Reg <- MCReg
  RZ = 9
  MaxRegs = 2
  MinLen = 2
  Programs <- MCPrograms
  MaxLen = 4
  Width = 2
  Names = {0, 1, 2, 3}
INVARIANTS
  FlowPreserved
  SpillIffPressure
CHECK_DEADLOCK FALSE
