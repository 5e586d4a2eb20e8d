\* Two tabs and two intents of one retry key: leases expire, tabs close,
\* memories are stale and answers late; or two removals of one pool.
SPECIFICATION MCSpec
CONSTANTS
  t1 = t1
  t2 = t2
  t3 = t3
  i1 = i1
  i2 = i2
  None = None
  Tabs = {t1, t2}
  Intents = {i1, i2}
  Key <- SameKey
  Removals = {}
  Replacements = {}
  Confirmations = 1
  MonitorConfirmations = 2
  ReorgDepth = 0
  HeadMoves = FALSE
  LookupsFail = FALSE
  MaxBlocks = 2
  MaxReorgs = 0
  MaxRevision = 2
  MaxRevisions = 3
SYMMETRY TabIntentSymmetry
PROPERTIES NoDuplicate ReturnedHashRecorded CanonicalStays DeepRemovalsExclude DeepCanonicalOnEvidence
