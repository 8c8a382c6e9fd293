SPECIFICATION MCSpec
CONSTANTS
  t1 = t1
  t2 = t2
  t3 = t3
  Text = {t1, t2, t3}
  NoText = none
  FormatOf <- Formatted
  Mixes <- NoService
  Slot = {1, 2}
  MaxId = 3
  MaxVersion = 2
  MaxTasks = 3
  MaxClicks = 3
  TabSize = 4
  MaxShown = 2
INVARIANT
  ChangesKeepPairs
CHECK_DEADLOCK FALSE
