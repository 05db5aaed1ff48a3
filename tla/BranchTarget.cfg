SPECIFICATION EncodeSpec
CONSTANTS
  Group = 2
  Lookahead = 4
  Weight = {0, 1}
  Programs <- MCPrograms
  MaxLen = 2
INVARIANT BranchLands
CHECK_DEADLOCK FALSE
