SPECIFICATION PoolSpec
CONSTANTS
  MaxId = 3
  Radius = 1
  MaxReads = 3
  MaxPending = 2
  Reset = Reset
  MaxEvents = 3
  PoolReorgs = 0
  MaxFaults = 0
INVARIANTS ShownComplete
CHECK_DEADLOCK TRUE
