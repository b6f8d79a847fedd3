CONSTANTS
  a = a
  b = b
  None = None
  Jobs = {a, b}
  MaxAttempts <- MCMaxAttempts
  WriteMayFail = TRUE
  SyncMayFail = TRUE
  MaxFrames = 6
  MaxCrashes = 3
  MaxFaults = 2
  ConfigMayChange = TRUE
SPECIFICATION Spec
INVARIANTS
  TypeOK
  LogIsLegal
  MemoryIsReplay
  RefusedOnlyForHeader
  RefusedIsLast
PROPERTIES
  AcknowledgedKept
  RecoveryReconciles
