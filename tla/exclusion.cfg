SPECIFICATION Spec
CONSTANTS
  Work = {1, 2, 3}
  KindOf <- GenTrainEval
  VersionOf <- NoVersions3
  NoVersion = 0
  InitStatus <- OneScheduled3
  MaxPrio = 0
  LightSettings = {TRUE}
  Readers = {1}
  AutoEval = FALSE
  MaxUnloads = 2
  MaxCrashes = 1
  Threads = {1}
  ApiOps = {"cancel", "unload", "clear_eval"}
INVARIANTS
  TypeOK
  ExclusiveMutex
  OneOnGpu
  LeaseRevoked
  NoLostRunning
  BooksAgree
PROPERTIES
  DoneStays
  CanceledIsNotRequeued
