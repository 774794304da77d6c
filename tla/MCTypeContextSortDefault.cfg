SPECIFICATION Spec
CONSTANTS
  HasDefault = TRUE
  IterFails = TRUE
  StringFails = TRUE
  DoubleFails = TRUE
  Kinds = {"other"}
  DefaultKinds = {"dict"}
  KeyKinds = {"str"}
  SortKeys = {TRUE}
  Raises = FALSE
  MaxItems = 1
INVARIANTS
  AllDelivered
