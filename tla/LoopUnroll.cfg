SPECIFICATION UnrollSpec
CONSTANTS
  MaxBody = 2
  Factor = 2
  UnrollPrograms <- AllPrograms
  MaxLen = 6
INVARIANTS
  CopiedOnce
  CopiesAreBlocks
PROPERTY AlwaysShrinks
CHECK_DEADLOCK FALSE
