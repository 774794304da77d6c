SPECIFICATION FairSpec
CONSTANTS
  MaxDepth = 2
  MaxLen = 8
  Known <- Texts
INVARIANTS
  TypeOK
  Ownership
  DepthBounded
  StopsAtTerminator
  NullHasReason
  DecodesJson
PROPERTIES
  FirstErrorWins
  ReadsJson
  Terminates
