SPECIFICATION StateSpec
CONSTANTS
  Interpreters = {"main", "sub", "other"}
  Decimals = {"main", "sub"}
  ImportMayFail = TRUE
INVARIANT
  ClassAlive
PROPERTY
  DecimalsRecognised
