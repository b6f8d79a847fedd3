CONSTANTS
  a = a
  b = b
  None = None
  Jobs = {a, b}
  MaxAttempts <- MCMaxAttempts
  WriteMayFail = TRUE
  SyncMayFail = FALSE
  MaxFrames = 4
  MaxCrashes = 1
  MaxFaults = 1
  ConfigMayChange = FALSE
SPECIFICATION Spec
PROPERTIES
  AcknowledgedStays
