CONSTANTS
  a = a
  b = b
  c = c
  None = None
  Jobs = {a, b}
  MaxAttempts <- MCMaxAttempts
  NumQueues = 1
  QueueOf <- MCQueueOf
  Capacity <- MCCapacity
  Workers = {w1}
  ChannelCapacity = 1
  Oversized = {}
  PersistMayFail = FALSE
  Recovered = {}
  FirstEpoch = 1
  HandlerOutcomes = {"Success", "Retryable"}
  Cancels = {}
  MayShutdown = TRUE
  MaxLives = 2
SPECIFICATION FairQueueSpec
PROPERTIES
  JobsSettle
  LeaseReclaimed
  ShutdownEnds
