SPECIFICATION Spec
CONSTANTS
  b1 = b1
  b2 = b2
  v1 = v1
  v2 = v2
  all = all
  Brun = {b1, b2}
  Volume = {v1}
  Target <- SameTarget
  Scan <- WholeCell
  ErrorLimit = 1
  MaxAdmin = 0
  MaxDeaths = 0
  MaxOld = 0
INVARIANTS
  NoParallelRuns
