SPECIFICATION ServiceSpec
CONSTANTS
  g = g
  a1 = a1
  a2 = a2
  b1 = b1
  deposit = deposit
  withdraw = withdraw
  swap = swap
  p1 = p1
  p2 = p2
  none = none
  Reset = Reset
  None = None
  k1 = k1
  Blocks <- MCBlocks
  Start <- MCStart
  Parent <- MCParent
  Number <- MCNumber
  Time <- MCTime
  Events <- PoisonEvents
  Requires <- MCRequires
  Pairs = {p1, p2}
  PairsOf <- MCPairsOf
  DurableLog = TRUE
  MaxFaults = 1
  MaxReorgs = 1
  Browsers = {}
INVARIANTS AlwaysRestorable
CHECK_DEADLOCK TRUE
