SPECIFICATION Spec
CONSTANTS
  None = None
  j1 = j1
  j2 = j2
  j3 = j3
  r1 = r1
  r2 = r2
  Repos = {r1}
  Jobs = {j1, j2}
  LiveJobs = {j1, j2}
  ResultJobs = {}
  CompleteScope = {j1}
  Requested <- OneRepository
  Workers = {w1, w2}
  MaxAttempts = 1
  MaxClock = 3
INVARIANT SnapshotOrder
CHECK_DEADLOCK FALSE
