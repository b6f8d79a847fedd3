----------------------------- MODULE FrameScan -----------------------------
(***************************************************************************)
(* What scan_frames of src/src/wal/scanner.rs makes of a log, said of its  *)
(* frames: each of them has a sequence number, seq, and is whole or torn.  *)
(* Recovery uses it as the scan; DataDir shows that the scan of the bytes  *)
(* does this.                                                              *)
(***************************************************************************)
EXTENDS Integers, Sequences

\* The frames accepted from the front: whole, and numbered 1, 2, 3, ...
GoodPrefix(s) ==
    CHOOSE k \in 0 .. Len(s) :
        /\ \A i \in 1 .. k : s[i].whole /\ s[i].seq = i
        /\ k < Len(s) => ~s[k + 1].whole \/ s[k + 1].seq # k + 1

\* The scan may stop at a truncated tail: the next frame claims more bytes than
\* are left.  A torn frame that has others behind it may, if these are short.
TruncatedTail(s) ==
    GoodPrefix(s) < Len(s) /\ ~s[GoodPrefix(s) + 1].whole

\* Mutant of ScanFails: a truncated tail is corruption.
TruncationFails(s) == GoodPrefix(s) < Len(s)

\* The scan may fail: a sequence number out of turn, or a torn frame whose
\* missing bytes are those of the frames behind it.
ScanFails(s) ==
    /\ GoodPrefix(s) < Len(s)
    /\ s[GoodPrefix(s) + 1].whole \/ GoodPrefix(s) + 1 < Len(s)
=============================================================================
