SPECIFICATION FairSpec
CONSTANTS
  None = None
  Processes = {p, q}
  Grace = 2
  MaxVersion = 1
  MaxFaults = 2
INVARIANTS ReadyIsWriter FencedHolderCurrent CloseReleases
PROPERTIES EventuallyServes OutageIsFatal
CHECK_DEADLOCK TRUE
