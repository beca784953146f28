SPECIFICATION ToolsSpec
CONSTANTS
  c1 = c1
  c2 = c2
  n1 = n1
  x1 = x1
  x2 = x2
  d1 = d1
  d2 = d2
  d3 = d3
  a = a
  b = b
  c = c
  core = core
  extra = extra
  Child = Child
  Clean = Clean
  Secret = Secret
  Given = Given
  None = None
  Cmds = {c1, c2}
  Snaps = {n1}
  MaxEdits = 1
  MaxKeys = 2
  MaxLosses = 1
  Rescues = {r1}
  Rows = {x1, x2}
  Bundle = bb
  MaxStops = 2
  MaxPatchEdits = 1
  Absent = Absent
  Servers = {x1, x2}
  Hours = {1, 2}
  MaxTime = 3
  MaxSourceEdits = 1
  MaxChecks = 2
  Unset = Unset
  MaxRuns = 2
  MaxChanges = 1
  MaxKills = 1
  Samples = 2
  Windows = 1
  Kept = 1
  Missing = Missing
INVARIANTS SecretsSound    
PROPERTIES ChecksApart
CHECK_DEADLOCK FALSE
