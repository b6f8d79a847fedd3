CONSTANTS
  a = a
  b = b
  None = None
  Jobs = {a, b}
  MaxAttempts <- MCMaxAttempts
  WriteMayFail = FALSE
  SyncMayFail = TRUE
  MaxFrames = 4
  MaxCrashes = 0
  MaxFaults = 1
  ConfigMayChange = FALSE
SPECIFICATION Spec
INVARIANTS
  SequencesIncrement
