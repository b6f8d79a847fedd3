--------------------------- MODULE MCQueueRuntime ---------------------------
(* Small instances of QueueRuntime. *)
EXTENDS QueueRuntime, TLC

CONSTANTS a, b, c

\* With two queues, b has a queue of its own.
MCQueueOf == [j \in Jobs |-> IF j = b /\ NumQueues = 2 THEN 1 ELSE 0]
MCCapacity1 == [q \in Queues |-> 1]
MCCapacity2 == [q \in Queues |-> 2]
\* a may be retried once, the others not at all.
MCMaxAttempts == [j \in Jobs |-> IF j = a THEN 2 ELSE 1]

WorkerSymmetry == Permutations(Workers)
=============================================================================
