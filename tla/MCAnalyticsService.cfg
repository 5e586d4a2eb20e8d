SPECIFICATION MCSpec
CONSTANTS
  g = g
  a1 = a1
  a2 = a2
  b1 = b1
  deposit = deposit
  withdraw = withdraw
  swap = swap
  p1 = p1
  p2 = p2
  none = none
  Reset = Reset
  None = None
  k1 = k1
  Blocks <- MCBlocks
  Start <- MCStart
  Parent <- MCParent
  Number <- MCNumber
  Time <- MCTime
  Events <- MCEvents
  Requires <- MCRequires
  Pairs = {p1, p2}
  PairsOf <- MCPairsOf
  DurableLog = TRUE
  MaxFaults = 2
  MaxReorgs = 1
  Browsers = {k1}
INVARIANTS ServiceConsistent ReadersSeeDurable AlwaysRestorable RetryIdempotent FollowersCurrent
PROPERTIES FeedSpec BrowsersCatchUp
CHECK_DEADLOCK TRUE
