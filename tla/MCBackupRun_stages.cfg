SPECIFICATION FairSpec
CONSTANTS
  b1 = b1
  b2 = b2
  v1 = v1
  v2 = v2
  all = all
  Brun = {b1}
  Volume = {v1, v2}
  Target <- SameTarget
  Scan <- WholeCell
  ErrorLimit = 2
  MaxAdmin = 1
  MaxDeaths = 1
  MaxOld = 1
INVARIANTS
  TypeOK
  DoneIsReported
  StagesInOrder
PROPERTIES
  RunsEnd
  CruftGoes
