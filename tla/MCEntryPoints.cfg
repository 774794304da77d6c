SPECIFICATION Spec
CONSTANTS
  Functions = {"dumps", "dump", "loads", "load"}
  MemoryFails = TRUE
INVARIANTS
  NullHasException
  OnlyTextLeft
  UsesOnlyHeld
