SPECIFICATION Spec
CONSTANTS
  Value = {a}
  Object = obj
  Nil = nil
  StackSize = 12
  MaxFrames = 3
  Callees <- CallKindsOnly
  MainLocals = 2
  SyncTails = FALSE
  SyncConstructors = TRUE
  Collecting = FALSE
PROPERTY
  RegistersArePrivate
CHECK_DEADLOCK FALSE
