SPECIFICATION Spec
CONSTANTS
  Cases <- MCCases
  EOBRUN_MAX = 7
  MAX_CORR_BITS = 66
  LossLengths = {1, 2, 3, 5, 8, 13, 21}
INVARIANTS
  Restored
  ErrorConfined
  EverySymbolCoded
CHECK_DEADLOCK FALSE
