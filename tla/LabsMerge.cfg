SPECIFICATION LabsSpec
CONSTANTS
  MaxChain = 5
  MaxPlugins = 3
  NoTrial = NoTrial
  p1 = p1
  p2 = p2
  p3 = p3
  here = here
  l1 = l1
  Home = Home
  Nobody = Nobody
  Runner <- Two
  Labs <- OneLab
  MaxKills = 1
  x = x
  y = y
  None = None
  Nothing = Nothing
  MaxMerges = 2
  MaxEdits = 1
  Content <- Bytes
  MaxSnaps = 3
  MaxGcs = 1
  MaxDay = 2
  Recent = 1
  Daily = 1
  NoFile = NoFile
  NoProc = NoProc
  Proc <- Local
  HostOf <- Together
  CallOptions <- AllOptions
  Generations = 1
INVARIANTS UndoneWhole
CHECK_DEADLOCK FALSE
