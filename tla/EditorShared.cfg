SPECIFICATION Spec
CONSTANTS
  Text = {t1, t2, t3}
  Garbled = garbled
  NoText = none
  MaxStrokes = 2
  MaxPresses = 1
  MaxDisturbances = 2
  Disturbances = {"external", "refuse", "throw", "loss", "reload"}
  Actions = {"run"}
  MaxRequests = 1
SYMMETRY Interchangeable
INVARIANTS
  TypeOK
  VersionsAgree
  ActionsSeeDraft
PROPERTY
  KeepsPromises
CHECK_DEADLOCK FALSE
