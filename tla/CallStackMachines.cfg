SPECIFICATION MCSpec
CONSTANTS
  Value = {a}
  Object = obj
  Nil = nil
  StackSize = 11
  MaxFrames = 3
  Callees <- CallKindsOnly
  MainLocals = 2
  SyncTails = FALSE
  SyncConstructors = FALSE
  Collecting = FALSE
INVARIANTS
  TypeOK
  FrameWindows
  NestedRunsAboveCaller
  RootsAllocated
PROPERTY
  RegistersArePrivate
CHECK_DEADLOCK FALSE
