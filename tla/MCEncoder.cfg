SPECIFICATION FairSpec
CONSTANTS
  RecursionMax = 1
  BufferSize = 134
  Indent = 2
  ItemSeparator = 1
  KeySeparator = 1
  HasDefault = TRUE
  AllocFails = TRUE
  IterFails = TRUE
  StringFails = TRUE
  DoubleFails = TRUE
  OptionFails = TRUE
  Lengths = {0, 1}
  ScalarLengths = {1, 128}
  MaxItems = 2
  Doublings = 8
INVARIANTS
  TypeOK
  LevelMatches
  AppendsFit
  NothingLeaked
  NullHasReason
PROPERTIES
  ErrorStopsEncoding
  Terminates
