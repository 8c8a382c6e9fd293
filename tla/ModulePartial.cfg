SPECIFICATION Spec
CONSTANTS
  A = pa
  B = pb
  C = pc
  Path = {pa, pb, pc}
  Missing = missing
  Invalid = invalid
  Source <- CycleSources
  Programs <- Mains
  MaxFrames = 3
  MaxRuns = 2
  MaxSaves = 1
INVARIANTS
  NoPartialSurvives
CHECK_DEADLOCK FALSE
