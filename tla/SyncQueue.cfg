SPECIFICATION FairSpec
CONSTANTS
  None = None
  j1 = j1
  j2 = j2
  j3 = j3
  r1 = r1
  r2 = r2
  Repos = {r1, r2}
  Jobs = {j1, j3}
  LiveJobs = {j1}
  ResultJobs = {j3}
  CompleteScope = {}
  Requested <- TwoRepositories
  Workers = {w1, w2}
  MaxAttempts = 2
  MaxClock = 1
INVARIANTS FinishedIffComplete
PROPERTIES WritesUnderLease EndedStaysEnded EveryJobEnds
CHECK_DEADLOCK FALSE
