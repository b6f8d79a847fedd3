CONSTANTS
  Delays <- MCDelays
  MaxExponent = 1
  MaxDuration = 5000000
  MaxNanos = 1300000
  Samples <- MCSamples
  MaxAttempts = 4
  Pauses <- MCPauses
  MaxTime = 4000000
  WallTimes <- MCWallTimes
  MaxCrashes = 2
SPECIFICATION Spec
INVARIANTS
  DelayIsBackoff
  NeverEarly
  NotLate
CHECK_DEADLOCK FALSE
