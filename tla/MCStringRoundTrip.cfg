SPECIFICATION RoundTripSpec
CONSTANTS
  Texts <- Strings
  Documents <- Decoded
  StackLen = 4
  AllocFails = TRUE
INVARIANTS
  FitsReserve
  Escapes
  RefusesOverlong
  StaysInside
  BufferFreed
  DecodesExactly
  RejectsMalformed
  ReadsBack
