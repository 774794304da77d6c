SPECIFICATION RoundTripSpec
CONSTANTS
  RecursionMax = 1
  MaxDepth = 1
  BufferSize = 8
  Indent = 0
  ItemSeparator = 1
  KeySeparator = 1
  HasDefault = TRUE
  AllocFails = TRUE
  IterFails = FALSE
  StringFails = TRUE
  DoubleFails = TRUE
  OptionFails = TRUE
  Lengths = {1}
  ScalarLengths = {1}
  MaxItems = 2
  Doublings = 8
INVARIANTS
  EncodesJson
  ToldSurface
  ReadInFull
PROPERTIES
  WritesJson
