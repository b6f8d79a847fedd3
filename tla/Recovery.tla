------------------------------ MODULE Recovery ------------------------------
(***************************************************************************)
(* The log across restarts: recover() of src/src/recovery.rs, then the     *)
(* writer thread appending what the coordinator hands it (JobLog), then a  *)
(* close or a crash at any point, recovery included.  The LOCK file keeps  *)
(* a second process out, so there is one process at a time.                *)
(***************************************************************************)
EXTENDS Wal

CONSTANTS
    MaxFrames,        \* bound: the coordinator appends no more than this
    MaxCrashes,       \* bound on the number of crashes
    MaxFaults,        \* bound on the number of I/O errors
    ConfigMayChange,  \* whether validate_recovered_state may reject the config
    None              \* no append under way

ASSUME RecoveryAssumption ==
    /\ MaxFrames \in Nat
    /\ MaxCrashes \in Nat
    /\ MaxFaults \in Nat
    /\ ConfigMayChange \in BOOLEAN
    /\ None \notin WalRecord

VARIABLES
    phase,       \* "down", "header", "reconcile", "open" or "refused"
    writing,     \* the record between write_all and sync_data
    lost,        \* Running jobs recovery has not written a record for
    crashes,
    faults,      \* how many writes and syncs have failed
    \* the process's memory
    logged, lastLease, nextLeaseEpoch

memoryVars == <<logged, lastLease, nextLeaseEpoch>>
boundVars == <<crashes, faults>>
vars == <<fileVars, nextSeq, memoryVars, phase, writing, lost, boundVars>>

\* What the coordinator may append.
Contract == INSTANCE JobLog

NoJobs == [j \in Jobs |-> Absent]
NoEpochs == [j \in Jobs |-> 0]

-----------------------------------------------------------------------------
\* The replay loop of recover(), over the store.
Replay(s) ==
    LET table[i \in 0 .. Len(s)] ==
            IF i = 0 THEN NoJobs
            ELSE ApplyRecordForRecovery(table[i - 1], s[i].record)
    IN table[Len(s)]

\* RecoveryTracker::running_jobs: the lease each job last had.
LeaseIn(s, j) ==
    MaxLeaseEpoch([i \in DOMAIN s |->
                      IF s[i].record.id = j THEN s[i]
                      ELSE [s[i] EXCEPT !.record.lease = 0]])

LeasesIn(s) == [j \in Jobs |-> LeaseIn(s, j)]

\* Mutant of Lost: jobs without an attempt left are not reconciled.
LostRetryable(table) ==
    {j \in Jobs : /\ table[j].state = "Running"
                  /\ table[j].attempts < MaxAttempts[j]}

\* reconcile_running_jobs: the crash-lost jobs ...
Lost(table) == {j \in Jobs : table[j].state = "Running"}

\* Mutant of ReconciliationRecord: always a retry.
AlwaysRetry(j) ==
    Record("JobRetryScheduled", j, lastLease[j], logged[j].attempts)

\* ... and the record each of them gets.
ReconciliationRecord(j) ==
    Record(IF logged[j].attempts < MaxAttempts[j]
           THEN "JobRetryScheduled" ELSE "JobDead",
           j, lastLease[j], logged[j].attempts)

\* An I/O error.
IOError == faults < MaxFaults /\ faults' = faults + 1

-----------------------------------------------------------------------------
\* recover(), step by step.

\* No log yet: a header is written and synced.
CreateHeader ==
    /\ phase = "down"
    /\ header = "none"
    /\ header' = "written"
    /\ phase' = "header"
    /\ UNCHANGED <<file, synced, nextSeq, memoryVars, writing, lost, boundVars>>

NewLog ==
    /\ phase = "header"
    /\ Sync(file)
    /\ phase' = "open"
    /\ nextSeq' = 1
    /\ nextLeaseEpoch' = 1
    /\ UNCHANGED <<logged, lastLease, writing, lost, boundVars>>

\* Creating the log fails with an I/O error: the file is empty, or the header is
\* there in part or unsynced.
CreateFails ==
    /\ IOError
    /\ \/ /\ phase = "down"
          /\ header = "none"
          /\ WriteMayFail
          /\ header' \in {"none", "torn"}
       \/ /\ phase = "header"
          /\ SyncMayFail
          /\ UNCHANGED header
    /\ phase' = "down"
    /\ UNCHANGED <<file, synced, nextSeq, memoryVars, writing, lost, crashes>>

\* The header or a frame is not acceptable; another start fails the same way.
RefuseLog ==
    /\ phase \in {"down", "refused"}
    /\ header = "torn" \/ (header # "none" /\ ScanFails(file))
    /\ phase' = "refused"
    /\ UNCHANGED <<fileVars, nextSeq, memoryVars, writing, lost, boundVars>>

\* Mutant of NextSequence: the number after the last is computed off by one.
LastSequence(s) == Len(s)

\* last_sequence + 1.
NextSequence(s) == Len(s) + 1

\* Mutant of Repaired: a truncated tail is left in the file.
NotRepaired(s) == UNCHANGED fileVars

\* repair_truncated_tail cuts the file and syncs it.
Repaired(s) == IF s = file THEN UNCHANGED fileVars ELSE Sync(s)

\* Scan, repair of a truncated tail, replay.  A crash between these is one
\* before them: nothing but the repair changes the file.
ScanAndReplay ==
    /\ phase = "down"
    /\ header \in {"written", "synced"}
    /\ GoodPrefix(file) = Len(file) \/ TruncatedTail(file)
    /\ LET s == SubSeq(file, 1, GoodPrefix(file))
       IN /\ Repaired(s)
          /\ logged' = Replay(s)
          /\ lastLease' = LeasesIn(s)
          /\ nextLeaseEpoch' = MaxLeaseEpoch(s) + 1
          /\ nextSeq' = NextSequence(s)
          /\ lost' = Lost(Replay(s))
    /\ phase' = "reconcile"
    /\ UNCHANGED <<writing, boundVars>>

\* repair_truncated_tail fails in set_len or in sync_all, and the start with it.
RepairFails ==
    /\ IOError
    /\ phase = "down"
    /\ TruncatedTail(file)
    /\ \/ WriteMayFail /\ UNCHANGED <<file, synced>>
       \/ /\ SyncMayFail
          /\ file' = SubSeq(file, 1, GoodPrefix(file))
          /\ synced' = IF synced < GoodPrefix(file) THEN synced ELSE GoodPrefix(file)
    /\ UNCHANGED <<header, nextSeq, memoryVars, phase, writing, lost, crashes>>

\* One reconciliation record is written, in the map's arbitrary order.
Reconcile(j) ==
    /\ phase = "reconcile"
    /\ j \in lost
    /\ WriteFrame(ReconciliationRecord(j))
    /\ nextSeq' = nextSeq + 1
    /\ lost' = lost \ {j}
    /\ UNCHANGED <<header, synced, memoryVars, phase, writing, boundVars>>

\* One sync for all of them, then they are applied and the result is exposed.
FinishRecovery ==
    /\ phase = "reconcile"
    /\ lost = {}
    /\ Sync(Acked(file))
    /\ logged' = Replay(file)
    /\ phase' = "open"
    /\ UNCHANGED <<nextSeq, lastLease, nextLeaseEpoch, writing, lost, boundVars>>

ForgetMemory ==
    /\ logged' = NoJobs
    /\ lastLease' = NoEpochs
    /\ nextLeaseEpoch' = 1
    /\ nextSeq' = 1
    /\ writing' = None
    /\ lost' = {}

\* validate_recovered_state fails, after the sync: the start fails.
ConfigRejected ==
    /\ ConfigMayChange
    /\ phase = "reconcile"
    /\ lost = {}
    /\ Sync(file)
    /\ phase' = "down"
    /\ ForgetMemory
    /\ UNCHANGED boundVars

\* An I/O error while reconciling: the start fails.
RecoveryFails ==
    /\ IOError
    /\ phase = "reconcile"
    /\ \/ \E j \in lost : WriteFails(ReconciliationRecord(j))
       \/ lost = {} /\ SyncMayFail /\ UNCHANGED file
    /\ phase' = "down"
    /\ ForgetMemory
    /\ UNCHANGED <<header, synced, crashes>>

-----------------------------------------------------------------------------
\* WalWriter::append and WriterThread::process_write.

\* The coordinator asks for r and waits.  Job ids are never used twice.
Requested(r) ==
    /\ phase = "open"
    /\ writing = None
    /\ Len(file) < MaxFrames
    /\ r \in Contract!Persistable
    /\ r.type = "JobSubmitted" => \A i \in DOMAIN file : file[i].record.id # r.id

AppendWrite(r) ==
    /\ Requested(r)
    /\ WriteFrame(r)
    /\ writing' = r
    /\ UNCHANGED <<header, synced, nextSeq, memoryVars, phase, lost, boundVars>>

\* Err: the coordinator changes nothing.
AppendFails(r) ==
    /\ IOError
    /\ Requested(r)
    /\ WriteFails(r)
    /\ UNCHANGED <<header, synced, nextSeq, memoryVars, phase, writing, lost,
                   crashes>>

\* Mutant of AckLast: the caller is answered without a sync.
AckUnsynced ==
    /\ file' = [file EXCEPT ![Len(file)].acked = TRUE]
    /\ UNCHANGED <<synced, header>>

AckLast == Sync([file EXCEPT ![Len(file)].acked = TRUE])

\* Ok: the coordinator applies the record.
AppendSync ==
    /\ writing # None
    /\ AckLast
    /\ nextSeq' = nextSeq + 1
    /\ Contract!Log(writing)
    /\ writing' = None
    /\ UNCHANGED <<phase, lost, boundVars>>

\* Mutant of AppendSyncFails: the number is used up all the same.
AppendSyncFailsNumbered ==
    /\ IOError
    /\ SyncMayFail
    /\ writing # None
    /\ writing' = None
    /\ nextSeq' = nextSeq + 1
    /\ UNCHANGED <<fileVars, memoryVars, phase, lost, crashes>>

\* Err, with the frame in the file and its number still the next one.
AppendSyncFails ==
    /\ IOError
    /\ SyncMayFail
    /\ writing # None
    /\ writing' = None
    /\ UNCHANGED <<fileVars, nextSeq, memoryVars, phase, lost, crashes>>

-----------------------------------------------------------------------------
\* Shutdown: the writer is dropped.
Close ==
    /\ phase = "open"
    /\ writing = None
    /\ phase' = "down"
    /\ ForgetMemory
    /\ UNCHANGED <<fileVars, boundVars>>

\* The process is killed or the machine loses power.
Crash ==
    /\ crashes < MaxCrashes
    /\ crashes' = crashes + 1
    /\ file' \in Surviving
    /\ header' \in SurvivingHeader
    /\ phase' = "down"
    /\ ForgetMemory
    /\ UNCHANGED <<synced, faults>>

Init ==
    /\ header = "none"
    /\ file = <<>>
    /\ synced = 0
    /\ phase = "down"
    /\ crashes = 0
    /\ faults = 0
    /\ logged = NoJobs
    /\ lastLease = NoEpochs
    /\ nextLeaseEpoch = 1
    /\ nextSeq = 1
    /\ writing = None
    /\ lost = {}

Next ==
    \/ CreateHeader
    \/ NewLog
    \/ CreateFails
    \/ RefuseLog
    \/ ScanAndReplay
    \/ RepairFails
    \/ \E j \in Jobs : Reconcile(j)
    \/ FinishRecovery
    \/ ConfigRejected
    \/ RecoveryFails
    \/ \E r \in Contract!Persistable : AppendWrite(r) \/ AppendFails(r)
    \/ AppendSync
    \/ AppendSyncFails
    \/ Close
    \/ Crash

Spec == Init /\ [][Next]_vars

-----------------------------------------------------------------------------
\* The type invariant: what the process can be doing, what it keeps in memory
\* then, and a synced part that is really in the file.
TypeOK ==
    /\ header \in {"none", "torn", "written", "synced"}
    /\ file \in Seq(Frame)
    /\ synced \in 0 .. Len(file)
    /\ nextSeq \in Nat \ {0}
    /\ phase \in {"down", "header", "reconcile", "open", "refused"}
    /\ writing \in WalRecord \cup {None}
    /\ writing # None => phase = "open" /\ file # <<>>
    /\ lost \subseteq Jobs
    /\ crashes \in 0 .. MaxCrashes
    /\ faults \in 0 .. MaxFaults
    /\ logged \in [Jobs -> JobRecord]
    /\ lastLease \in [Jobs -> Nat]
    /\ nextLeaseEpoch \in Nat \ {0}

\* The records the coordinator's promise allows after the ones in s.
AllowedAfter(s) == Contract!Allowed(Replay(s), LeasesIn(s), MaxLeaseEpoch(s) + 1)

\* The log is one legal history of every job, over all lifetimes: whatever was
\* lost, torn, repaired or reconciled, each record is one that the records
\* before it allow, with the next attempt and a lease epoch never used before.
LogIsLegal ==
    \A i \in 1 .. GoodPrefix(file) :
        file[i].record \in AllowedAfter(SubSeq(file, 1, i - 1))

\* The running process and the next recovery agree, until the disk fails: between
\* two appends memory is the replay of the file, and the next frame and lease
\* have the numbers recovery would give them.
MemoryIsReplay ==
    faults = 0 /\ phase = "open" /\ writing = None =>
        /\ logged = Replay(file)
        /\ nextSeq = Len(file) + 1
        /\ nextLeaseEpoch = MaxLeaseEpoch(file) + 1

\* Crashes alone never make recovery refuse the log, except in the window in
\* which the header of a new log is written.
RefusedOnlyForHeader ==
    faults = 0 /\ phase = "refused" => header = "torn" /\ file = <<>>

\* Crashes alone never lose what somebody was told is durable: no crash, repair,
\* append or restart removes or changes an acknowledged frame, as long as no
\* write or sync has failed.
AcknowledgedKept ==
    [][faults' = 0 => \A i \in DOMAIN file : file[i].acked =>
          i \in DOMAIN file' /\ file'[i] = file[i]]_vars

\* A record whose caller was told Err may be in the file all the same, whole,
\* when it was written and only its sync failed, and the next start takes it for
\* one that happened.  There is at most one such record, and it is the last: of
\* the records that a scan accepts while the queue is open, whatever failed, all
\* before the last are known to be durable by the coordinator or by recovery.
RefusedIsLast ==
    phase = "open" => \A i \in 1 .. GoodPrefix(file) - 1 : file[i].acked

\* recover() exposes no job as Running and starts no attempt, however often it
\* was interrupted before.
RecoveryReconciles ==
    [][phase = "reconcile" /\ phase' = "open" =>
          \A j \in Jobs : /\ logged'[j].state # "Running"
                          /\ logged'[j].attempts = logged[j].attempts]_vars

-----------------------------------------------------------------------------
\* What the documents say of the log, and failing writes and syncs refute.

\* docs/wal-format.md:190 "Truncated tail recovery is safe because the
\* incomplete frame was never acknowledged to any caller": whatever fails, no
\* acknowledged frame is removed or changed.
AcknowledgedStays ==
    [][\A i \in DOMAIN file : file[i].acked =>
          i \in DOMAIN file' /\ file'[i] = file[i]]_vars

\* docs/wal-format.md:60 "Start at 1 for a new WAL", "Increment by 1 for each
\* record".
SequencesIncrement ==
    \A i \in DOMAIN file : file[i].whole => file[i].seq = i
=============================================================================
