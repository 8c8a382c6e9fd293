SPECIFICATION Spec
CONSTANTS
  Value = {a}
  Object = obj
  Nil = nil
  StackSize = 12
  MaxFrames = 3
  Callees <- CallKindsOnly
  MainLocals = 2
  SyncTails = TRUE
  SyncConstructors = FALSE
  Collecting = FALSE
INVARIANTS
  CallerStillThere
CHECK_DEADLOCK FALSE
