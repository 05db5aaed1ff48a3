SPECIFICATION MCSpec
CONSTANTS
  LongMax = 32767
  NaN = NaN
  UnwrittenBase = {0, 63}
  UnwrittenOffset = {0, 300}
  Word <- MCWord
  Directive = {"endfunc"}
  Sources <- MCSources
  MaxLines = 3
  Group = 2
  Lookahead = 4
  Programs <- MCPrograms
  MaxLen = 3
  Weight = {0, 1}
INVARIANTS
  TokensInOrder
  LabelsExact
  InstsFollowTokens
  SourceBranchLands
  WordsTile
  RoundTrip
  FusedShown
CHECK_DEADLOCK FALSE
