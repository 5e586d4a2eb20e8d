SPECIFICATION FairSpec
CONSTANTS
  None = None
  PageSize = 2
  Retention = 3
  Confirmations = 0
  Pools = FALSE
  MaxHeight = 5
  MaxForks = 2
  MaxFaults = 1
INVARIANTS SourceConsistent PagesAccepted
PROPERTIES CatchesUp
CHECK_DEADLOCK TRUE
