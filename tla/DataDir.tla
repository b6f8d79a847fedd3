------------------------------ MODULE DataDir ------------------------------
(***************************************************************************)
(* A data directory and the programs that open it: wal.log byte by byte    *)
(* and the LOCK file.  A user is a Runtime, a queue started with start()   *)
(* and kept by a QueueHandle, a WalWriter opened directly, or a command    *)
(* line tool that reads the log (rdq inspect, rdq verify).  What the       *)
(* records say is left out: a frame has a number and a size.               *)
(***************************************************************************)
EXTENDS FrameScan

CONSTANTS
    Users,
    Kind,          \* [Users -> {"runtime", "handle", "writer", "tool"}]
    LenField,      \* bytes of payload_len, 4 in the code
    FrameOverhead, \* bytes of a frame with no payload, 18 in the code
    Sizes,         \* the sizes of the frames that are written
    MaxFrames,     \* bound: no frame is written beyond this many
    MaxFaults,     \* bound on kills, power losses and I/O errors
    None

ASSUME DataDirAssumption ==
    /\ Kind \in [Users -> {"runtime", "handle", "writer", "tool"}]
    /\ LenField \in Nat
    /\ FrameOverhead \in Nat
    /\ LenField <= FrameOverhead
    /\ Sizes \subseteq Nat
    /\ \A n \in Sizes : FrameOverhead <= n /\ 0 < n
    /\ MaxFrames \in Nat
    /\ MaxFaults \in Nat
    /\ None \notin Users

VARIABLES
    header,    \* "missing", "empty", "torn", "written" (not synced) or "synced"
    file,      \* what was written behind the header, a chunk for each frame
    synced,    \* how many of its bytes are known to be on the disk
    lock,      \* who holds LOCK, or None
    st,        \* what each user is doing
    caller,    \* whether its owner is "in" a call or holds it, or is "out"
    closing,   \* whether its writer's channel is closed
    seen,      \* the content a scan has read,
    pos,       \*   the frames it has accepted,
    outcome,   \*   and how it ended
    nextSeq,   \* the number of the next frame
    spoiled,   \* history: a frame was put where no scan will accept it
    faults

fileVars == <<header, file, synced>>
scanVars == <<seen, pos, outcome>>
vars == <<fileVars, lock, st, caller, closing, scanVars, nextSeq, spoiled,
          faults>>

Recovers(u) == Kind[u] \in {"runtime", "handle"}

-----------------------------------------------------------------------------
\* A chunk: the bytes that are there of a frame of the given size.  acked is
\* history: somebody was told that the frame is durable.
Chunk == [start : Nat, stop : Nat, size : Sizes, seq : Nat, acked : BOOLEAN]

Bytes(s) == IF s = <<>> THEN 0 ELSE s[Len(s)].stop

Whole(f) == f.stop - f.start = f.size

\* The log as FrameScan sees it.
Frames(s) == [i \in DOMAIN s |-> [whole |-> Whole(s[i]), seq |-> s[i].seq]]

\* The last frame is torn, or its number will be used again.
WrongPlace(n) ==
    \/ file # <<>> /\ ~Whole(file[Len(file)])
    \/ n # Len(file) + 1

\* The first k bytes of a frame of size n are in the file.
WriteBytes(seq, n, k) ==
    file' = Append(file, [start |-> Bytes(file), stop |-> Bytes(file) + k,
                          size |-> n, seq |-> seq, acked |-> FALSE])

Completed(f) == [f EXCEPT !.stop = f.start + f.size]

AckedFrame(f) == [f EXCEPT !.acked = TRUE]

\* sync_data and sync_all: all that was written is on the disk.
Sync(s) ==
    /\ file' = s
    /\ synced' = Bytes(s)
    /\ header' = "synced"

Enter(u, s) == st' = [st EXCEPT ![u] = s]

\* The scan's result is dropped.
ForgetScan(u) ==
    /\ seen' = [seen EXCEPT ![u] = <<>>]
    /\ pos' = [pos EXCEPT ![u] = 0]
    /\ outcome' = [outcome EXCEPT ![u] = "none"]

\* Nothing of the user is left, and its owner knows.
Gone(u) ==
    /\ Enter(u, "idle")
    /\ caller' = [caller EXCEPT ![u] = "out"]
    /\ closing' = [closing EXCEPT ![u] = FALSE]
    /\ nextSeq' = [nextSeq EXCEPT ![u] = 1]
    /\ ForgetScan(u)

\* The descriptors are closed, and LOCK with them.
Release(u) == lock' = None /\ Gone(u)

Fault == faults < MaxFaults /\ faults' = faults + 1

-----------------------------------------------------------------------------
\* try_lock_exclusive succeeds.  Where it fails the call ends with StoreLocked,
\* or the tool exits, and nothing has changed.
LockFree == lock = None

\* The tools look for wal.log first.
TryLock(u) ==
    /\ st[u] = "idle"
    /\ Kind[u] = "tool" => header # "missing"
    /\ LockFree
    /\ lock' = u
    /\ Enter(u, "locked")
    /\ caller' = [caller EXCEPT ![u] = "in"]
    /\ UNCHANGED <<fileVars, closing, scanVars, nextSeq, spoiled, faults>>

NewLog(u) == Kind[u] # "tool" /\ header \in {"missing", "empty"}

\* A missing or empty log: it is created, and a header will be written.
OpenNew(u) ==
    /\ st[u] = "locked"
    /\ NewLog(u)
    /\ header' = "empty"
    /\ Enter(u, "creating")
    /\ UNCHANGED <<file, synced, lock, caller, closing, scanVars, nextSeq, spoiled,
                   faults>>

CreateHeader(u) ==
    /\ st[u] = "creating"
    /\ Sync(file)
    /\ nextSeq' = [nextSeq EXCEPT ![u] = 1]
    /\ Enter(u, "open")
    /\ UNCHANGED <<lock, caller, closing, scanVars, spoiled, faults>>

\* scan_wal and open_wal_file read everything behind the header.
ReadLog(u) ==
    /\ st[u] = "locked"
    /\ ~NewLog(u)
    /\ header # "torn"
    /\ seen' = [seen EXCEPT ![u] = file]
    /\ pos' = [pos EXCEPT ![u] = 0]
    /\ outcome' = [outcome EXCEPT ![u] = "none"]
    /\ nextSeq' = [nextSeq EXCEPT ![u] = 1]
    /\ Enter(u, "scanning")
    /\ UNCHANGED <<fileVars, lock, caller, closing, spoiled, faults>>

\* InvalidWalHeader.
BadHeader(u) ==
    /\ st[u] = "locked"
    /\ header = "torn"
    /\ Release(u)
    /\ UNCHANGED <<fileVars, spoiled, faults>>

-----------------------------------------------------------------------------
\* scan_frames, and scan_for_next_sequence, which checks no numbers and wants a
\* whole empty frame before it looks at the length.  The checksum accepts the
\* frames as they were encoded and nothing else.
Following(u) == seen[u][pos[u] + 1]
Remaining(u) == Bytes(seen[u]) - Following(u).start

\* Mutant of FrameAccepted: the scan takes the next frame for the expected one.
AnyNumberAccepted(u) ==
    /\ pos[u] < Len(seen[u])
    /\ Whole(Following(u))

FrameAccepted(u) ==
    /\ pos[u] < Len(seen[u])
    /\ Whole(Following(u))
    /\ Kind[u] = "writer" \/ Following(u).seq = pos[u] + 1

AcceptFrame(u) ==
    /\ st[u] = "scanning"
    /\ FrameAccepted(u)
    /\ pos' = [pos EXCEPT ![u] = @ + 1]
    /\ nextSeq' = [nextSeq EXCEPT ![u] =
                      IF Following(u).seq < @ THEN @ ELSE Following(u).seq + 1]
    /\ UNCHANGED <<fileVars, lock, st, caller, closing, seen, outcome, spoiled,
                   faults>>

\* How the scan may end where it is.  If only a part of the length field is the
\* frame's own, the bytes behind it decide.
Outcomes(u) ==
    LET f == Following(u)
        least == IF Kind[u] = "writer" THEN FrameOverhead ELSE LenField
    IN IF pos[u] = Len(seen[u]) THEN {"clean"}
       ELSE IF FrameAccepted(u) THEN {}
       ELSE IF Remaining(u) < least THEN {"truncated"}
       ELSE IF f.stop - f.start < LenField THEN {"truncated", "corrupt"}
       ELSE IF Remaining(u) < f.size THEN {"truncated"}
       ELSE {"corrupt"}

FinishScan(u) ==
    /\ st[u] = "scanning"
    /\ \E r \in Outcomes(u) : outcome' = [outcome EXCEPT ![u] = r]
    /\ Enter(u, "scanned")
    /\ UNCHANGED <<fileVars, lock, caller, closing, seen, pos, nextSeq, spoiled,
                   faults>>

\* A tool reports what it found and exits; a start fails on a corrupt log.
LeaveLog(u) ==
    /\ st[u] = "scanned"
    /\ Kind[u] = "tool" \/ outcome[u] = "corrupt"
    /\ Release(u)
    /\ UNCHANGED <<fileVars, spoiled, faults>>

\* WalWriter::open appends at the end, whatever is there.
OpenUnrepaired(u) ==
    /\ st[u] = "scanned"
    /\ Kind[u] = "writer"
    /\ outcome[u] # "corrupt"
    /\ Enter(u, "open")
    /\ ForgetScan(u)
    /\ UNCHANGED <<fileVars, lock, caller, closing, nextSeq, spoiled, faults>>

\* recover() cuts a truncated tail off, durably.
Repair(u) ==
    /\ st[u] = "scanned"
    /\ Recovers(u)
    /\ outcome[u] # "corrupt"
    /\ IF outcome[u] = "truncated" THEN Sync(SubSeq(file, 1, pos[u]))
       ELSE UNCHANGED fileVars
    /\ Enter(u, "reconcile")
    /\ ForgetScan(u)
    /\ UNCHANGED <<lock, caller, closing, nextSeq, spoiled, faults>>

\* repair_truncated_tail fails in set_len or in sync_all, and the start with it.
RepairFails(u) ==
    /\ Fault
    /\ st[u] = "scanned"
    /\ Recovers(u)
    /\ outcome[u] = "truncated"
    /\ \/ UNCHANGED <<file, synced>>
       \/ LET s == SubSeq(file, 1, pos[u])
          IN /\ file' = s
             /\ synced' = IF synced < Bytes(s) THEN synced ELSE Bytes(s)
    /\ Release(u)
    /\ UNCHANGED <<header, spoiled>>

-----------------------------------------------------------------------------
\* write_all: some bytes are there first.  recover() writes its reconciliation
\* records the same way, if there are jobs that were leased.
WriteSome(u, n, k) ==
    /\ \/ st[u] = "reconcile" /\ Len(file) >= 2 /\ Enter(u, "reconciling")
       \/ st[u] = "open" /\ ~closing[u] /\ Enter(u, "writing")
    /\ Len(file) < MaxFrames
    /\ WriteBytes(nextSeq[u], n, k)
    /\ spoiled' = (spoiled \/ WrongPlace(nextSeq[u]))
    /\ UNCHANGED <<header, synced, lock, caller, closing, scanVars, nextSeq,
                   faults>>

WriteRest(u) ==
    /\ \/ /\ st[u] = "reconciling"
          /\ Enter(u, "reconcile")
          /\ nextSeq' = [nextSeq EXCEPT ![u] = @ + 1]
       \/ /\ st[u] = "writing"
          /\ Enter(u, "syncing")
          /\ UNCHANGED nextSeq
    /\ file' = [file EXCEPT ![Len(file)] = Completed(@)]
    /\ UNCHANGED <<header, synced, lock, caller, closing, scanVars, spoiled,
                   faults>>

\* One sync for all of them; the queue starts.
FinishRecovery(u) ==
    /\ st[u] = "reconcile"
    /\ Sync([i \in DOMAIN file |-> AckedFrame(file[i])])
    /\ Enter(u, "open")
    /\ UNCHANGED <<lock, caller, closing, scanVars, nextSeq, spoiled, faults>>

\* validate_recovered_state refuses the configuration, after the sync.
ConfigRejected(u) ==
    /\ st[u] = "reconcile"
    /\ Sync(file)
    /\ Release(u)
    /\ UNCHANGED <<spoiled, faults>>

\* Mutant of SyncData: the caller is answered without a sync.
AckWithoutSync(u) ==
    /\ st[u] = "syncing"
    /\ file' = [file EXCEPT ![Len(file)] = AckedFrame(@)]
    /\ nextSeq' = [nextSeq EXCEPT ![u] = @ + 1]
    /\ Enter(u, "open")
    /\ UNCHANGED <<header, synced, lock, caller, closing, scanVars, spoiled,
                   faults>>

\* process_write ends: the caller is answered.
SyncData(u) ==
    /\ st[u] = "syncing"
    /\ Sync([file EXCEPT ![Len(file)] = AckedFrame(@)])
    /\ nextSeq' = [nextSeq EXCEPT ![u] = @ + 1]
    /\ Enter(u, "open")
    /\ UNCHANGED <<lock, caller, closing, scanVars, spoiled, faults>>

\* write_all or sync_data fails.  A start fails with it; an append answers Err
\* and leaves what it wrote.
DiskFails(u) ==
    /\ Fault
    /\ \/ /\ st[u] = "creating"
          /\ header' \in {"empty", "torn", "written"}
          /\ Release(u)
       \/ /\ st[u] \in {"reconcile", "reconciling"}
          /\ UNCHANGED header
          /\ Release(u)
       \/ /\ st[u] \in {"writing", "syncing"}
          /\ Enter(u, "open")
          /\ UNCHANGED <<header, lock, caller, closing, scanVars, nextSeq>>
    /\ UNCHANGED <<file, synced, spoiled>>

-----------------------------------------------------------------------------
\* Mutant of OwnerLeaves: nobody joins the writer thread.
NobodyJoins(u) == caller' = [caller EXCEPT ![u] = "out"]

\* Dropping a QueueHandle only closes the channel to the coordinator, which ends
\* some time later.
OwnerLeaves(u) ==
    IF Kind[u] = "handle" THEN caller' = [caller EXCEPT ![u] = "out"]
    ELSE UNCHANGED caller

\* Mutant of CloseWriter: LOCK is given up while the thread still writes.
CloseAndUnlock(u) ==
    /\ st[u] \in {"open", "writing", "syncing"}
    /\ ~closing[u]
    /\ closing' = [closing EXCEPT ![u] = TRUE]
    /\ lock' = None
    /\ OwnerLeaves(u)
    /\ UNCHANGED <<fileVars, st, scanVars, nextSeq, spoiled, faults>>

\* The end of the coordinator, a start that fails in
\* reserve_permits_for_recovered, or the drop of a WalWriter: Drop closes the
\* channel.  A request under way is finished first.
CloseWriter(u) ==
    /\ st[u] \in {"open", "writing", "syncing"}
    /\ ~closing[u]
    /\ closing' = [closing EXCEPT ![u] = TRUE]
    /\ OwnerLeaves(u)
    /\ UNCHANGED <<fileVars, lock, st, scanVars, nextSeq, spoiled, faults>>

\* The writer thread finds the channel closed, returns, and drops its files.
ThreadEnds(u) ==
    /\ closing[u]
    /\ st[u] = "open"
    /\ lock' = None
    /\ Enter(u, "joined")
    /\ closing' = [closing EXCEPT ![u] = FALSE]
    /\ UNCHANGED <<fileVars, caller, scanVars, nextSeq, spoiled, faults>>

\* join() returns in Drop, and Runtime::shutdown or the failed start after it.
JoinReturns(u) ==
    /\ st[u] = "joined"
    /\ Gone(u)
    /\ UNCHANGED <<fileVars, lock, spoiled, faults>>

-----------------------------------------------------------------------------
\* The process is killed: what it wrote stays, and its LOCK is free.
Kill(u) ==
    /\ Fault
    /\ st[u] # "idle"
    /\ lock' = IF lock = u THEN None ELSE lock
    /\ Gone(u)
    /\ header' \in IF st[u] = "creating" THEN {"empty", "torn", "written"}
                   ELSE {header}
    /\ UNCHANGED <<file, synced, spoiled>>

\* Of the file the first k chunks are left, the last of them up to byte n.
CutAt(k, n) ==
    [i \in 1 .. k |-> IF i = k THEN [file[i] EXCEPT !.stop = n] ELSE file[i]]

\* The machine loses power: the file keeps what was synced and perhaps more.
PowerLoss ==
    /\ Fault
    /\ \/ /\ \E k \in 0 .. Len(file) :
                \E n \in IF k = 0 THEN {0} ELSE file[k].start + 1 .. file[k].stop :
                    synced <= n /\ file' = CutAt(k, n)
          /\ header' \in IF \E u \in Users : st[u] = "creating"
                         THEN {"empty", "torn", "written"} ELSE {header}
       \/ /\ header \in {"torn", "written"}
          /\ header' \in {"empty", "torn"}
          /\ file' = <<>>
    /\ lock' = None
    /\ st' = [u \in Users |-> "idle"]
    /\ caller' = [u \in Users |-> "out"]
    /\ closing' = [u \in Users |-> FALSE]
    /\ seen' = [u \in Users |-> <<>>]
    /\ pos' = [u \in Users |-> 0]
    /\ outcome' = [u \in Users |-> "none"]
    /\ nextSeq' = [u \in Users |-> 1]
    /\ UNCHANGED <<synced, spoiled>>

Init ==
    /\ header = "missing"
    /\ file = <<>>
    /\ synced = 0
    /\ lock = None
    /\ st = [u \in Users |-> "idle"]
    /\ caller = [u \in Users |-> "out"]
    /\ closing = [u \in Users |-> FALSE]
    /\ seen = [u \in Users |-> <<>>]
    /\ pos = [u \in Users |-> 0]
    /\ outcome = [u \in Users |-> "none"]
    /\ nextSeq = [u \in Users |-> 1]
    /\ spoiled = FALSE
    /\ faults = 0

Next ==
    \/ \E u \in Users :
          \/ TryLock(u)
          \/ OpenNew(u)
          \/ CreateHeader(u)
          \/ ReadLog(u)
          \/ BadHeader(u)
          \/ AcceptFrame(u)
          \/ FinishScan(u)
          \/ LeaveLog(u)
          \/ OpenUnrepaired(u)
          \/ Repair(u)
          \/ RepairFails(u)
          \/ \E n \in Sizes : \E k \in 1 .. n : WriteSome(u, n, k)
          \/ WriteRest(u)
          \/ FinishRecovery(u)
          \/ ConfigRejected(u)
          \/ SyncData(u)
          \/ DiskFails(u)
          \/ CloseWriter(u)
          \/ ThreadEnds(u)
          \/ JoinReturns(u)
          \/ Kill(u)
    \/ PowerLoss

Spec == Init /\ [][Next]_vars

-----------------------------------------------------------------------------
\* Nobody changes wal.log under a scan: until a reader has used or reported what
\* it found, the file still is what it read ("prevents reading during active
\* write", src/src/bin/rdq.rs), over shutdowns, dropped handles, failed starts
\* and kills.
ScanIsCurrent ==
    \A u \in Users : st[u] \in {"scanning", "scanned"} => seen[u] = file

\* The scan of the bytes accepts just the frames FrameScan says, and ends as
\* FrameScan allows, whatever torn frames of whatever lengths the file holds.
ScanMatchesFrames ==
    \A u \in Users : st[u] = "scanned" /\ Kind[u] # "writer" =>
        LET s == Frames(seen[u])
        IN /\ pos[u] = GoodPrefix(s)
           /\ outcome[u] = "clean" <=> GoodPrefix(s) = Len(s)
           /\ outcome[u] = "truncated" => TruncatedTail(s)
           /\ outcome[u] = "corrupt" => ScanFails(s)

\* As long as no frame was written behind a torn one or under a number that was
\* used, every user finds a log that is not corrupt, with every frame that was
\* ever acknowledged, whoever wrote it and however that user ended.
AckedAreFound ==
    ~spoiled => \A u \in Users : st[u] = "scanned" =>
        /\ outcome[u] # "corrupt"
        /\ \A i \in DOMAIN file : file[i].acked => i <= pos[u]

\* When Runtime::shutdown, the drop of a WalWriter, a failed start or a tool has
\* returned, LOCK is not held on its behalf and nothing more is written: the
\* directory can be opened again at once.
ReleasedWhenReturned ==
    \A u \in Users : caller[u] = "out" /\ Kind[u] # "handle" =>
        lock # u /\ st[u] = "idle"
=============================================================================
