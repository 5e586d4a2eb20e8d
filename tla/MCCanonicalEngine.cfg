SPECIFICATION MCSpec
CONSTANTS
  g = g
  a1 = a1
  a2 = a2
  a3 = a3
  a4 = a4
  b1 = b1
  b2 = b2
  b3 = b3
  c2 = c2
  c3 = c3
  d3 = d3
  deposit = deposit
  withdraw = withdraw
  swap = swap
  none = none
  Blocks <- MCBlocks
  Start <- MCStart
  Parent <- MCParent
  Number <- MCNumber
  Time <- MCTime
  Events <- MCEvents
  Requires <- MCRequires
  Seconds <- MCSeconds
  Source <- MCSource
  Offset <- MCOffset
  MaxReorgs = 10
  MaxId = 3
  Radius = 1
  MaxReads = 3
  MaxPending = 2
  Reset = Reset
  MaxEvents = 3
  PoolReorgs = 1
  MaxFaults = 1
INVARIANTS ChainConsistent ViewsMatchBlocks RedeliveryAccepted RestoreFaithful CandlesFollowed WindowExact BrowserFollows
CHECK_DEADLOCK TRUE
