SPECIFICATION FairSpec
CONSTANTS
  q1 = q1
  q2 = q2
  d1 = d1
  Req = {q1}
  Dump = {d1}
  DumpOf <- SameDump
  Old = {d1}
  ErrorLimit = 1
  MaxAdmin = 2
  MaxDeaths = 1
  MaxTrims = 1
CHECK_DEADLOCK FALSE
INVARIANTS
  TypeOK
  OneWriter
  StagedIsKept
  DoneIsClean
  RequestsHaveDumps
PROPERTIES
  EndStays
  RequestEnds
