SPECIFICATION Spec
CONSTANTS
  Work = {1, 2}
  KindOf <- TrainTrain
  VersionOf <- OneVersion2
  NoVersion = 0
  InitStatus <- FirstScheduled2
  MaxPrio = 1
  LightSettings = {TRUE}
  Readers = {1}
  AutoEval = FALSE
  MaxUnloads = 0
  MaxCrashes = 0
  Threads = {1}
  ApiOps = {"start_now", "pause", "resume", "cancel", "delete", "retry", "reorder"}
INVARIANTS
  PausedHasResumePoint
PROPERTIES
  BackupStaysKnown
  QueuedTrainIsRunnable
