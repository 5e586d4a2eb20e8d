\* One tab and one intent, whose transaction the wallet may replace;
\* lookups fail, and a reorganisation is shallower than the confirmations.
SPECIFICATION Spec
CONSTANTS
  t1 = t1
  t2 = t2
  i1 = i1
  i2 = i2
  None = None
  Tabs = {t1}
  Intents = {i1}
  Key <- KeyOfOwn
  Removals = {}
  Replacements = {"cancel", "speedup"}
  Confirmations = 2
  MonitorConfirmations = 3
  ReorgDepth = 1
  HeadMoves = FALSE
  LookupsFail = TRUE
  MaxBlocks = 4
  MaxReorgs = 1
  MaxRevision = 3
  MaxRevisions = 3
INVARIANTS NothingLostOnReload JournalConsistent
