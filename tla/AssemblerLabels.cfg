SPECIFICATION Spec
CONSTANTS
  LongMax = 32767
  NaN = NaN
  UnwrittenBase = {0, 63}
  UnwrittenOffset = {0, 300}
  Word <- MCWord
  Directive = {"endfunc"}
  Sources <- MCSources
  MaxLines = 2
  Group = 2
  Lookahead = 4
  Programs = {}
  MaxLen = 0
  Weight = {0, 1}
INVARIANT LabelDefined
CHECK_DEADLOCK FALSE
