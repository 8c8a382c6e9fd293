SPECIFICATION MCSpec
CONSTANTS
  A = pa
  B = pb
  C = pc
  Path = {pa, pb, pc}
  Missing = missing
  Invalid = invalid
  Source <- Sources
  Programs <- Mains
  MaxFrames = 3
  MaxRuns = 2
  MaxSaves = 2
  ModulePath = {pa, pb}
  Limits <- Machines
  MaxEntries = 1
  None = none
  Empty = none
  Key = {k1, k2, k3, k4}
  Value = {1, 2}
  HashCode = {0, 7}
  MinCapacity = 4
  LoadPercent = 70
  LimbBits = 2
  Radix = 3
  Greatest = 30
  MaxPower = 4
  Spaces <- Widths
  IndentSize = 4
  TabWidth = 8
  MaxIndent = 3
  MaxLines = 5
INVARIANTS
  TypeOK
  ExecutingIsOnStack
  NamesAreCached
  NothingLost
  Tricolour
  ArithmeticAgrees
  DivisionAgrees
  BitsAgree
  BlocksAgree
PROPERTIES
  ImportedOnce
  CollectedExactly
  IsMap
CHECK_DEADLOCK FALSE
