\* Blocks are mined between the head and the lookups of an observation.
SPECIFICATION Spec
CONSTANTS
  t1 = t1
  t2 = t2
  i1 = i1
  i2 = i2
  None = None
  Tabs = {t1}
  Intents = {i1}
  Key <- SameKey
  Removals = {}
  Replacements = {"cancel"}
  Confirmations = 2
  MonitorConfirmations = 3
  ReorgDepth = 1
  HeadMoves = TRUE
  LookupsFail = FALSE
  MaxBlocks = 3
  MaxReorgs = 0
  MaxRevision = 3
  MaxRevisions = 3
INVARIANTS NothingLostOnReload
