SPECIFICATION Spec
CONSTANTS
  j1 = j1
  j2 = j2
  j3 = j3
  r1 = r1
  r2 = r2
  p1 = p1
  p2 = p2
  s1 = s1
  Job = {j1, j3}
  Run = {r1, r2}
  Partition = {p1}
  Server = {s1}
  RunOf <- TwoRuns
  PartOf <- OnePart
  ServerOf <- OneServer
  GroupRank <- RankByName
  TotalQuota = 1
  ServerQuota = 1
  PartQuota = 1
  ErrorLimit = 1
  AbortOnBadLinks = TRUE
  Injected = {}
CHECK_DEADLOCK FALSE
INVARIANTS
  ServerQuotaRespected
