--------------------------- MODULE MCDurableQueue ---------------------------
(* Small instances of DurableQueue. *)
EXTENDS DurableQueue, TLC

CONSTANTS a, b, c

MCQueueOf == [j \in Jobs |-> 0]
MCCapacity == [q \in Queues |-> 2]
\* a may be retried once, the others not at all.
MCMaxAttempts == [j \in Jobs |-> IF j = a THEN 2 ELSE 1]

\* b and c are alike.
JobSymmetry == Permutations({b, c})
=============================================================================
