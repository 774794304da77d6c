SPECIFICATION RoundTripSpec
CONSTANTS
  Texts <- NearCut
  Documents = {}
  StackLen = 4
  AllocFails = FALSE
INVARIANTS
  ReportsUnterminated
