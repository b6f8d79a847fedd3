----------------------------- MODULE MCRecovery -----------------------------
(* Small instances of Recovery. *)
EXTENDS Recovery

CONSTANTS a, b

\* a may be retried once, b not at all.
MCMaxAttempts == [j \in Jobs |-> IF j = a THEN 2 ELSE 1]
=============================================================================
