CONSTANTS
  a = a
  b = b
  c = c
  None = None
  Jobs = {a, b, c}
  MaxAttempts <- MCMaxAttempts
  NumQueues = 2
  QueueOf <- MCQueueOf
  Capacity <- MCCapacity1
  Workers = {w1}
  ChannelCapacity = 2
  Oversized = {c}
  PersistMayFail = TRUE
  Recovered = {}
  FirstEpoch = 1
  HandlerOutcomes = {"Success", "Retryable"}
  Cancels = {a}
  MayShutdown = TRUE
SPECIFICATION Spec
SYMMETRY WorkerSymmetry
INVARIANTS
  MemoryMatchesLog
  CapacityIsLiveJobs
  StatsMatchStore
  AnswersAreDurable
PROPERTIES
  TerminalIsFinal
  ImplementsJobLog
  QuietAfterShutdown
