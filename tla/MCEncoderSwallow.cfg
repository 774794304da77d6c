SPECIFICATION Spec
CONSTANTS
  RecursionMax = 1
  BufferSize = 128
  Indent = 0
  ItemSeparator = 1
  KeySeparator = 1
  HasDefault = FALSE
  AllocFails = FALSE
  IterFails = TRUE
  StringFails = FALSE
  DoubleFails = FALSE
  OptionFails = FALSE
  Lengths = {1}
  ScalarLengths = {1}
  MaxItems = 2
  Doublings = 8
INVARIANTS
  ExceptionsSurface
