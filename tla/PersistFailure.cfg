CONSTANTS
  a = a
  b = b
  c = c
  None = None
  Jobs = {a}
  MaxAttempts <- MCMaxAttempts
  NumQueues = 1
  QueueOf <- MCQueueOf
  Capacity <- MCCapacity2
  Workers = {w1}
  ChannelCapacity = 2
  Oversized = {}
  PersistMayFail = TRUE
  Recovered = {}
  FirstEpoch = 1
  HandlerOutcomes = {"Success", "Retryable"}
  Cancels = {}
  MayShutdown = FALSE
SPECIFICATION Spec
SYMMETRY WorkerSymmetry
PROPERTIES
  LeaseDroppedDurably
CHECK_DEADLOCK FALSE
