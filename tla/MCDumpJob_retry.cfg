SPECIFICATION FairSpec
CONSTANTS
  j1 = j1
  j2 = j2
  j3 = j3
  r1 = r1
  r2 = r2
  p1 = p1
  p2 = p2
  s1 = s1
  Job = {j1}
  Run = {r1}
  Partition = {p1}
  Server = {s1}
  RunOf <- OneRun
  PartOf <- OnePart
  ServerOf <- OneServer
  GroupRank <- RankByName
  TotalQuota = 2
  ServerQuota = 2
  PartQuota = 2
  ErrorLimit = 3
  AbortOnBadLinks = FALSE
  Injected = {j1}
CHECK_DEADLOCK FALSE
INVARIANTS
  TypeOK
  OneOwner
  DumpedIsStored
  ErrorsBounded
PROPERTIES
  RunEnds
  ImplementsPool
  EndIsFinal
