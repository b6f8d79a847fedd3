CONSTANTS
  a = a
  b = b
  c = c
  None = None
  Jobs = {a, b, c}
  MaxAttempts <- MCMaxAttempts
  NumQueues = 1
  QueueOf <- MCQueueOf
  Capacity <- MCCapacity
  Workers = {w1}
  ChannelCapacity = 1
  Oversized = {}
  PersistMayFail = FALSE
  Recovered = {}
  FirstEpoch = 1
  HandlerOutcomes = {"Success", "Panic"}
  Cancels = {a}
  MayShutdown = TRUE
  MaxLives = 2
SPECIFICATION QueueSpec
SYMMETRY JobSymmetry
INVARIANTS
  AlwaysRestartable
  NeverOverCapacity
  RunningHasOneHolder
  ExecutionsBounded
PROPERTIES
  RestartsAreInitial
  FirstRunsInOrder
  TerminalIsFinal
