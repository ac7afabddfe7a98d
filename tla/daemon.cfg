SPECIFICATION DaemonFairSpec
CONSTANTS
  Tasks <- TwoTasks
  NoTask = 0
  Faults = {}
  MaxProcs = 2
  MaxUnloads = 2
INVARIANTS DaemonTypeOK NoWorkBehindTheMarker
PROPERTIES Contract UnloadSparesWorker
CHECK_DEADLOCK FALSE
