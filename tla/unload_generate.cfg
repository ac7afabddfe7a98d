SPECIFICATION Spec
CONSTANTS
  Work = {1, 2}
  KindOf <- GenGen
  VersionOf <- NoVersions2
  NoVersion = 0
  InitStatus <- AllPending2
  MaxPrio = 0
  LightSettings = {TRUE}
  Readers = {1}
  AutoEval = FALSE
  MaxUnloads = 1
  MaxCrashes = 0
  Threads = {1}
  ApiOps = {"unload"}
PROPERTIES
  UnloadDoesNotFailGenerate
