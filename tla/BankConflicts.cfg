SPECIFICATION BankSpec
CONSTANTS
  Window = 4
  BankPrograms <- MCPrograms
  MaxLen = 5
INVARIANTS
  AccessesInOrder
PROPERTIES
  NeverWorse
  PrefixFixed
CHECK_DEADLOCK FALSE
