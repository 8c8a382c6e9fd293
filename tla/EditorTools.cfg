SPECIFICATION MCSpec
CONSTANTS
  t1 = t1
  t2 = t2
  t3 = t3
  Text = {t1, t2, t3}
  NoText = none
  FormatOf <- Formatted
  Mixes <- OneByOne
  Slot = {1, 2}
  MaxId = 3
  MaxVersion = 2
  MaxTasks = 3
  MaxClicks = 3
  TabSize = 4
  MaxShown = 2
INVARIANTS
  TypesAgree
  Cancellable
  ButtonAgrees
  OutlineIsNesting
  FormatIsLayout
  ColoursFit
  PlacesComeBack
  DiagnosticsHaveAPlace
  DecorationsInOrder
  ChangesApply
PROPERTIES
  AnswersAreCurrent
  FormatKeepsTyping
  RequestsEnd
  Coloured
  StopEndsProgram
  CloseEndsLaunch
CHECK_DEADLOCK FALSE
