SPECIFICATION FairSpec
CONSTANTS
  Work = {1, 2, 3, 4}
  KindOf <- LightTrainGenEval
  VersionOf <- NoVersions4
  NoVersion = 0
  InitStatus <- FirstTwo4
  MaxPrio = 0
  LightSettings = {FALSE}
  Readers = {1}
  AutoEval = TRUE
  MaxUnloads = 1
  MaxCrashes = 0
  Threads = {1}
  ApiOps = {"unload", "enqueue", "hold"}
PROPERTIES
  Admission
  LightStartsAlone
  PendingIsServed
  RunningEnds
