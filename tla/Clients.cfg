SPECIFICATION ClientsSpec
CONSTANTS
  v1 = v1
  v2 = v2
  v3 = v3
  owner = owner
  other = other
  Visits <- ThreeVisits
  Users <- TwoUsers
  MaxSessions = 2
  MaxPending = 2
  MaxCallbacks = 1
  MaxRestarts = 1
  MaxAuthz = 2
  s1 = s1
  s2 = s2
  j1 = j1
  k1 = k1
  None = None
  Unreadable = Unreadable
INVARIANTS GateHonest 
CHECK_DEADLOCK FALSE
