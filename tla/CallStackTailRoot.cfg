SPECIFICATION Spec
CONSTANTS
  Value = {a, b}
  Object = obj
  Nil = nil
  StackSize = 8
  MaxFrames = 3
  Callees <- OneFunction
  MainLocals = 4
  SyncTails = FALSE
  SyncConstructors = FALSE
  Collecting = TRUE
INVARIANTS
  RootsAllocated
CHECK_DEADLOCK FALSE
