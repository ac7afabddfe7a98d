SPECIFICATION FairSpec
CONSTANTS
  k1 = k1
  k2 = k2
  Keys = {k1, k2}
  SizesOf <- OneOrTwo
  Files = {f1, f2, f3}
  MaxCount = 2
  MaxBytes = 2
  Requests = {r1}
  MaxConn = 2
  Timers = {t1, t2}
  NoTimer = NoTimer
  MaxDrift = 1
INVARIANTS
  CacheTypeOK
  WithinBytes
  HeldTimerIsAlone
PROPERTIES
  OnlyLostReadsDrift
  NothingLeftBehind
  DepartureFlushes
