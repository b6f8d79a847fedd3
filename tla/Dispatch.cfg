CONSTANTS
  a = a
  b = b
  c = c
  None = None
  Jobs = {a, b, c}
  MaxAttempts <- MCMaxAttempts
  NumQueues = 2
  QueueOf <- MCQueueOf
  Capacity <- MCCapacity1
  Workers = {w1, w2}
  ChannelCapacity = 1
  Oversized = {}
  PersistMayFail = FALSE
  Recovered = {}
  FirstEpoch = 1
  HandlerOutcomes = {"Success", "Retryable"}
  Cancels = {a}
  MayShutdown = FALSE
SPECIFICATION Spec
SYMMETRY WorkerSymmetry
INVARIANTS
  TypeOK
  LeaseDiscipline
  ReadyIsQueued
  RetryHasTimer
  CapacityIsLiveJobs
  RunningHasOneHolder
  WorkConserving
PROPERTIES
  CompletedByLatestLease
  NoQueueStarves
CHECK_DEADLOCK FALSE
