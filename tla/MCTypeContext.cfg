SPECIFICATION FairSpec
CONSTANTS
  HasDefault = TRUE
  IterFails = TRUE
  StringFails = TRUE
  DoubleFails = TRUE
  Kinds <- AllKinds
  DefaultKinds <- AllKinds
  KeyKinds <- AllKeys
  SortKeys = {FALSE, TRUE}
  Raises = TRUE
  MaxItems = 2
INVARIANTS
  Ownership
  OthersDelivered
PROPERTIES
  KeepsContract
  Terminates
