SPECIFICATION FairSpec
CONSTANTS
  Program <- Programs
  ParseStart <- FirstState
  ParseLines <- Feed
  ParseEnd <- AtEnd
  ParseResult <- Result
  BufSize = 2
  PipeSize = 3
  Reserved = 3
  MayStick = TRUE
CHECK_DEADLOCK FALSE
INVARIANTS
  TypeOK
  ResultIsWhole
  ResultIsListing
  DumpIsWhole
  NoOrphan
PROPERTIES
  CallEnds
