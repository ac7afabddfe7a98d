SPECIFICATION TrainingSpec
CONSTANTS
  Settings <- SomeSettings
  MaxRuns = 4
  MaxNaNs = 2
INVARIANTS TrainingTypeOK EveryBatchOnce RecoveryPointsExact PauseCostsOneEpoch BackupIsAPair FinishedIsWhole DisplayIsExact
PROPERTIES BackupContinues
CHECK_DEADLOCK FALSE
