CONSTANTS
  a = a
  b = b
  c = c
  None = None
  Jobs = {a}
  MaxAttempts <- MCMaxAttempts
  NumQueues = 1
  QueueOf <- MCQueueOf
  Capacity <- MCCapacity2
  Workers = {w1}
  ChannelCapacity = 2
  Oversized = {}
  PersistMayFail = FALSE
  Recovered = {}
  FirstEpoch = 1
  HandlerOutcomes = {"Success"}
  Cancels = {}
  MayShutdown = TRUE
SPECIFICATION Spec
SYMMETRY WorkerSymmetry
INVARIANTS
  ShutdownWaitsForHandlers
