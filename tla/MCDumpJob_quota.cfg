SPECIFICATION FairSpec
CONSTANTS
  j1 = j1
  j2 = j2
  j3 = j3
  r1 = r1
  r2 = r2
  p1 = p1
  p2 = p2
  s1 = s1
  Job = {j1, j2}
  Run = {r1}
  Partition = {p1, p2}
  Server = {s1}
  RunOf <- OneRun
  PartOf <- TwoParts
  ServerOf <- OneServer
  GroupRank <- RankByName
  TotalQuota = 2
  ServerQuota = 1
  PartQuota = 1
  ErrorLimit = 1
  AbortOnBadLinks = FALSE
  Injected = {j1}
CHECK_DEADLOCK FALSE
INVARIANTS
  RunningIffActive
  QuotaRespected
  CountHolds
  StageBarrier
  ReportedIsTrue
PROPERTIES
  RunEnds
