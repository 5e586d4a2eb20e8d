\* One browser, two topics, a window of three events with two per topic,
\* replays of one frame, six events: every trimming stage, restarts,
\* refusals and reconnects interleave.
SPECIFICATION Spec
CONSTANTS
  Topics = {t1, t2}
  Reset = reset
  Clients = {k1}
  ReplaySize = 2
  GlobalReplaySize = 3
  MaxReplayFrames = 1
  MaxSubscribers = 1
  MaxBatch = 2
  MaxEvents = 6
SYMMETRY Symmetry
INVARIANTS NoSilentGap ReplayExact ReplayAccounting
PROPERTIES RestartResumesLog
CHECK_DEADLOCK TRUE
