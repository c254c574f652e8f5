SPECIFICATION Spec
CONSTANTS
  Users = {u1}
  Threads = {t1, t2}
  FailedThreshold = 2
  FailedWindow = 2
  BulkThreshold = 2
  BulkWindow = 1
  BurstThreshold = 2
  BurstWindow = 1
  VolumeThreshold = 3
  VolumeWindow = 2
  Sizes = {1, 3}
  Cooldown = 2
  MinSamples = 1
  HourFraction = 2
  MinDecrypts = 2
  RateFactor = 1
  BytesFactor = 1
  LockFailed = 0
  LockBulk = 2
  LockTime = 0
  MaxClock = 6
  WorkStart <- MCOff
  WorkEnd <- MCOff
  MaxCalls = 4
  MaxRestarts = 1
  Ladder <- MCLadder
INVARIANTS
  TypeOK
  AlarmLocks
  AlarmNotMissed
PROPERTIES
  LockNeverShortened
  RestartKeepsLocks
SYMMETRY Symmetry
CHECK_DEADLOCK FALSE
