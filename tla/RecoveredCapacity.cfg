CONSTANTS
  a = a
  b = b
  c = c
  None = None
  Jobs = {a, b}
  MaxAttempts <- MCMaxAttempts
  NumQueues = 1
  QueueOf <- MCQueueOf
  Capacity <- MCCapacity2
  Workers = {w1}
  ChannelCapacity = 2
  Oversized = {}
  PersistMayFail = FALSE
  Recovered = {a}
  FirstEpoch = 2
  HandlerOutcomes = {"Success", "Retryable"}
  Cancels = {}
  MayShutdown = FALSE
SPECIFICATION Spec
SYMMETRY WorkerSymmetry
INVARIANTS
  CapacityIsLiveJobs
CHECK_DEADLOCK FALSE
