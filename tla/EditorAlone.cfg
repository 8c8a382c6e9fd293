SPECIFICATION FairSpec
CONSTANTS
  Text = {t1, t2, t3}
  Garbled = garbled
  NoText = none
  MaxStrokes = 2
  MaxPresses = 0
  MaxDisturbances = 2
  Disturbances = {"loss", "show", "click"}
  Actions = {}
  MaxRequests = 2
INVARIANTS
  AloneAgrees
PROPERTY
  DraftReachesFile
CHECK_DEADLOCK FALSE
