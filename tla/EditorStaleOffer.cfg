SPECIFICATION Spec
CONSTANTS
  Text = {t1, t2, t3}
  Garbled = garbled
  NoText = none
  MaxStrokes = 2
  MaxPresses = 1
  MaxDisturbances = 1
  Disturbances = {"throw"}
  Actions = {"run"}
  MaxRequests = 1
INVARIANTS
  OfferedIsFile
CHECK_DEADLOCK FALSE
