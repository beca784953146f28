SPECIFICATION LabsSpec
CONSTANTS
  MaxChain = 5
  MaxPlugins = 3
  NoTrial = NoTrial
  p1 = p1
  p2 = p2
  p3 = p3
  here = here
  l1 = l1
  Home = Home
  Nobody = Nobody
  Runner <- Two
  Labs <- OneLab
  MaxKills = 1
  x = x
  y = y
  None = None
  Nothing = Nothing
  MaxMerges = 1
  MaxEdits = 0
  Content <- Bytes
  MaxSnaps = 1
  MaxGcs = 0
  MaxDay = 1
  Recent = 1
  Daily = 1
  NoFile = NoFile
  NoProc = NoProc
  Proc <- Two
  HostOf <- Together
  CallOptions <- EscapeOptions
  Generations = 1
PROPERTIES CorruptLockEscape
CHECK_DEADLOCK FALSE
