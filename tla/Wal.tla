-------------------------------- MODULE Wal --------------------------------
(***************************************************************************)
(* wal.log: the writer thread of src/src/wal/writer.rs, the scanner and    *)
(* repair of src/src/wal/scanner.rs, and what a crash leaves of the file.  *)
(* A frame is whole, or torn: only some of its first bytes are there.      *)
(* Bytes, lengths and checksums are reduced to that: decode accepts the    *)
(* whole frames and nothing else.  DataDir has the bytes.                  *)
(***************************************************************************)
EXTENDS JobStore, FrameScan

CONSTANTS
    WriteMayFail,    \* whether write_all may fail, having written some bytes, and
                     \* set_len, having cut nothing
    SyncMayFail      \* whether sync_data and sync_all may fail

ASSUME WalAssumption == WriteMayFail \in BOOLEAN /\ SyncMayFail \in BOOLEAN

VARIABLES
    header,          \* "none" (no file, or an empty one), "torn", "written" (not
                     \* synced) or "synced"
    file,            \* the frames in the file, as a read would find them
    synced,          \* how many of them are known to be on the disk
    nextSeq          \* WriterThread::next_seq

fileVars == <<header, file, synced>>

\* acked is history: somebody was told that the frame's record is durable.
Frame == [seq : Nat, record : WalRecord, whole : BOOLEAN, acked : BOOLEAN]

WalFrame(seq, r) ==
    [seq |-> seq, record |-> r, whole |-> TRUE, acked |-> FALSE]

Torn(f) == [f EXCEPT !.whole = FALSE]

Acked(s) == [i \in DOMAIN s |-> [s[i] EXCEPT !.acked = TRUE]]

-----------------------------------------------------------------------------
\* write_all.
WriteFrame(r) == file' = Append(file, WalFrame(nextSeq, r))

\* write_all fails, or encode before it: no bytes or some of them are there.
WriteFails(r) ==
    /\ WriteMayFail
    /\ file' \in {file, Append(file, Torn(WalFrame(nextSeq, r)))}

\* sync_data: all that was written is on the disk.
Sync(s) ==
    /\ file' = s
    /\ synced' = Len(s)
    /\ header' = "synced"

-----------------------------------------------------------------------------
\* ScanResult::max_lease_epoch.
MaxLeaseEpoch(s) ==
    LET epochs == {0} \cup {s[i].record.lease :
                               i \in {k \in DOMAIN s : s[k].record.type = "JobLeased"}}
    IN CHOOSE e \in epochs : \A f \in epochs : f <= e

-----------------------------------------------------------------------------
\* What is in the file after a crash: at least the synced frames, then a prefix
\* of what was written, cut anywhere.
Surviving ==
    {SubSeq(file, 1, n) : n \in synced .. Len(file)}
    \cup {Append(SubSeq(file, 1, n), Torn(file[n + 1])) :
             n \in synced .. Len(file) - 1}

SurvivingHeader ==
    CASE header = "written" -> {"none", "torn", "written"}
      [] header = "torn" -> {"none", "torn"}
      [] OTHER -> {header}
=============================================================================
