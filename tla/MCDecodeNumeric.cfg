SPECIFICATION Spec
CONSTANTS
  HalfInt = 8
  HalfLong = 128
  MaxDigits = 4
INVARIANTS
  TypeOK
  OverflowDetected
  DecodesExactly
