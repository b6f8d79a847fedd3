----------------------------- MODULE MCDataDir -----------------------------
(* A small instance of DataDir. *)
EXTENDS DataDir

CONSTANTS r, h, w, t

\* One user of each kind.
MCKind == [u \in Users |-> CASE u = r -> "runtime"
                             [] u = h -> "handle"
                             [] u = w -> "writer"
                             [] u = t -> "tool"]
=============================================================================
