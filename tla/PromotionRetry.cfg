SPECIFICATION FilesSpec
CONSTANTS
  f1 = f1
  f2 = f2
  old = old
  new = new
  t1 = t1
  t2 = t2
  A = A
  B = B
  C = C
  X = X
  Absent = Absent
  NoRecord = NoRecord
  NoDir = NoDir
  NoGoal = NoGoal
  Mixed = Mixed
  Bare = Bare
  None = None
  Txn <- Attempts
  Version <- Versions
  First = A
  Source <- Sources
  Candidate <- Candidates
  Installed <- Strange
  Edits = {}
  UserSnapshots = 3
  MaxSnapshots = 4
  MaxFailures = 2
  File <- Pair
  Content <- Bytes
  Targets <- Requests
  Editing = TRUE
  Faulty = TRUE
PROPERTIES UnsettledIsSettled
CHECK_DEADLOCK FALSE
