SPECIFICATION ServicesSpec
CONSTANTS
  s1 = s1
  s2 = s2
  s3 = s3
  r1 = r1
  b1 = b1
  b2 = b2
  origin = origin
  Cli = Cli
  Null = Null
  JobServer <- TwoServers
  Source <- OneSource
  MaxJobs = 2
  MaxBadWrites = 1
  Keep = 1
  d1 = d1
  d2 = d2
  d3 = d3
  u1 = u1
  Dog = Dog
  None = None
  Nil = Nil
  Slot <- Slots
  User <- Alone
  Thresholds <- Twice
  Default = 2
  Broken <- Last
  Cap = 2
  Server <- Servers
  Request <- OneRequest
  Body <- TwoBodies
  BreakStale <- Either
  MaxFaults = 2
INVARIANTS RequestInv ResultIsReused JobsSound DeploymentsSound
PROPERTIES LeftoverIsFinal QueuedGetsTurn MovesRecorded FailingIsLeft
CHECK_DEADLOCK FALSE
