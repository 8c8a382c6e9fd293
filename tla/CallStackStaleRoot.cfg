SPECIFICATION Spec
CONSTANTS
  Value = {a, b}
  Object = obj
  Nil = nil
  StackSize = 12
  MaxFrames = 3
  Callees <- CallKindsOnly
  MainLocals = 2
  SyncTails = FALSE
  SyncConstructors = FALSE
  Collecting = TRUE
INVARIANTS
  RootsAllocated
CHECK_DEADLOCK FALSE
