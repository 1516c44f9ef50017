SPECIFICATION Spec
CONSTANTS
  root = root
  v = v
  w = w
  j0 = j0
  j1 = j1
  j2 = j2
  j3 = j3
  j4 = j4
  s1 = s1
  s2 = s2
  Store = {s1, s2}
  Job = {j0, j1, j2, j3, j4}
  Volume = {root, v, w}
  VolOf <- Volumes
  Capacity <- Capacities
  BufSize = 2
  NoStore = NoStore
  Date = {2}
  MaxFound = {0, 2, 3}
  UserPath <- Paths
  LinksOf <- Links
  Cell = {"cell", ".cell"}
  Root = root
  MaxSymlinks = 3
  Injected = {j4}
  Estimate <- Estimates
  Size <- Sizes
  Early <- Earlier
  Home = s1
  FudgeTime = 2
  MaxAge = 1
  MaxFaults = 1
  MaxTime = 3
  MaxWrites = 1
  Crews <- Scenes
CHECK_DEADLOCK FALSE
INVARIANTS
  TypeOK
  RoomIsKept
  SkippedIsDumped
  OneIsOnDisk
  SearchFindsAll
  PathFound
