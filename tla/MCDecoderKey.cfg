SPECIFICATION Spec
CONSTANTS
  MaxDepth = 2
  MaxLen = 7
  Known <- Open
INVARIANT KeyNameIsString
