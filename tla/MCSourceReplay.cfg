\* Pools: the first block read after a resumed start carries their snapshots.
SPECIFICATION Spec
CONSTANTS
  None = None
  PageSize = 2
  Retention = 2
  Confirmations = 0
  Pools = TRUE
  MaxHeight = 4
  MaxForks = 2
  MaxFaults = 2
INVARIANTS PagesAccepted
CHECK_DEADLOCK TRUE
