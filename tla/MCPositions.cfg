SPECIFICATION MCSpec
CONSTANTS
  None = None
  Tabs = {A, B}
  Bins = {1, 2}
  Holdings = {{1, 2}}
  Capacity = 1
  MaxCandidate = 2
  Finality = 2
  MaxLag = 2
  MaxMoves = 1
  MaxFaults = 1
  Nobody = Nobody
  Queries = {q1, q2}
  Owners = {o1}
  Heads = {"a", "A", "b"}
  Number <- NumberMC
  MaxActive = 1
  MaxQueued = 1
  MaxCached = 2
  Attempts = 2
INVARIANTS OneAtATime PlanCovers OrdinalsExact PermitsExact
PROPERTIES EnumeratesOneBlock AnswersMatchHead ResumedExitCompletes
CHECK_DEADLOCK FALSE
