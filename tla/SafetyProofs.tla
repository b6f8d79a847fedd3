---------------------------- MODULE SafetyProofs ----------------------------
(***************************************************************************)
(* What a step does to the jobs and to the log: SafetyInv is kept, every   *)
(* record the coordinator hands to persist is right for the job as the log *)
(* shows it, and the log keeps its shape, over a restart too.              *)
(***************************************************************************)
EXTENDS StepProofs

-----------------------------------------------------------------------------
\* What a step does to the job table.

TerminalKept ==
    \A k \in Jobs :
        /\ store[k].state \in Terminal => store'[k] = store[k]
        /\ logged[k].state \in Terminal => logged'[k] = logged[k]

NoneCreated == \A k \in Jobs : store'[k] = Absent <=> store[k] = Absent

NoneCompleted ==
    \A k \in Jobs : store'[k].state = "Completed" => store[k].state = "Completed"

\* persist and apply_record, on a record for a job in the store or for a new
\* one: memory and log change alike, and only in this job.
LEMMA RecordApplied ==
    ASSUME TypeOK, MemoryMatchesLog, NEW r \in WalRecord,
           store[r.id].state # "Absent" \/ r.type = "JobSubmitted",
           store' = ApplyRecord(store, r),
           logged' = ApplyRecordForRecovery(logged, r)
    PROVE  /\ \A k \in Jobs \ {r.id} : store'[k] = store[k] /\ logged'[k] = logged[k]
           /\ store'[r.id] = logged'[r.id]
           /\ store'[r.id].state = TargetState[r.type]
           /\ MemoryMatchesLog'
<1>1. /\ store \in [Jobs -> JobRecord]
      /\ logged \in [Jobs -> JobRecord]
      /\ r.id \in Jobs
  BY Zenon DEF TypeOK, WalRecord
<1>2. store' = [store EXCEPT ![r.id] = Entry(store[r.id], r)]
  BY Zenon DEF ApplyRecord
<1>3. logged' = [logged EXCEPT ![r.id] = Entry(logged[r.id], r)]
  <2>1. logged[r.id].state # "Absent" \/ r.type = "JobSubmitted"
    BY <1>1, SMTT(30) DEF MemoryMatchesLog
  <2> QED BY <2>1, Zenon DEF ApplyRecord, ApplyRecordForRecovery
<1>4. store[r.id].attempts = logged[r.id].attempts
  BY <1>1, ZenonT(60) DEF MemoryMatchesLog, JobRecord
<1>5. Entry(store[r.id], r) = Entry(logged[r.id], r)
  BY <1>4, Zenon DEF Entry
<1>6. Entry(store[r.id], r).state = TargetState[r.type]
  BY Zenon DEF Entry
<1>7. /\ \A k \in Jobs \ {r.id} : store'[k] = store[k] /\ logged'[k] = logged[k]
      /\ store'[r.id] = logged'[r.id]
      /\ store'[r.id].state = TargetState[r.type]
  BY <1>1, <1>2, <1>3, <1>5, <1>6, SMTT(30)
<1>8. ASSUME NEW k \in Jobs
      PROVE \/ store'[k] = logged'[k]
            \/ /\ store'[k] = [logged'[k] EXCEPT !.state = "Queued"]
               /\ logged'[k].state = "RetryWaiting"
  BY <1>7, ZenonT(60) DEF MemoryMatchesLog
<1> QED BY <1>7, <1>8, Zenon DEF MemoryMatchesLog

\* A record for a live job: nothing terminal changes and no job appears.
LEMMA LiveRecordApplied ==
    ASSUME TypeOK, MemoryMatchesLog, NEW r \in WalRecord,
           store[r.id].state \in Live,
           store' = ApplyRecord(store, r),
           logged' = ApplyRecordForRecovery(logged, r)
    PROVE  /\ TerminalKept
           /\ NoneCreated
           /\ r.type # "JobCompleted" => NoneCompleted
<1>1. store[r.id].state \notin Terminal \cup {"Absent"}
  BY Zenon DEF Live, Terminal, JobState
<1>2. /\ \A k \in Jobs \ {r.id} : store'[k] = store[k] /\ logged'[k] = logged[k]
      /\ store'[r.id].state = TargetState[r.type]
  BY <1>1, RecordApplied, Zenon
<1>3. logged[r.id].state \notin Terminal
  <2>1. r.id \in Jobs
    BY Zenon DEF WalRecord
  <2> QED BY <1>1, <2>1, Zenon DEF MemoryMatchesLog, Terminal
<1>4. TerminalKept
  BY <1>1, <1>2, <1>3, Zenon DEF TerminalKept
<1>5. TargetState[r.type] # "Absent"
  BY SMTT(30) DEF TargetState, WalRecord, RecordType
<1>6. NoneCreated
  BY <1>1, <1>2, <1>5, SMTT(30) DEF NoneCreated, Absent
<1>7. ASSUME r.type # "JobCompleted" PROVE NoneCompleted
  <2>1. TargetState[r.type] # "Completed"
    BY <1>7, SMTT(30) DEF TargetState, WalRecord, RecordType
  <2> QED BY <1>2, <2>1, Zenon DEF NoneCompleted
<1> QED BY <1>4, <1>6, <1>7, Zenon

\* A job table nobody touched.
LEMMA TableUntouched ==
    ASSUME UNCHANGED <<store, logged>>
    PROVE  TerminalKept /\ NoneCreated /\ NoneCompleted
BY Zenon DEF TerminalKept, NoneCreated, NoneCompleted

\* A granted lease: the job was Queued, the epoch is new.
LEMMA GrantLeaseSafe ==
    ASSUME TypeOK, MemoryMatchesLog, LeaseDiscipline,
           NEW q \in Queues, NEW w \in Workers, GrantLease(q, w)
    PROVE  /\ MemoryMatchesLog' /\ LeaseDiscipline'
           /\ TerminalKept /\ NoneCreated /\ NoneCompleted
           /\ \A k \in Jobs : leases[k] # NoLease => leases'[k] # NoLease
<1> DEFINE j == Head(ready[q])
           r == Record("JobLeased", j, nextLeaseEpoch, store[j].attempts + 1)
<1>1. j \in Jobs /\ nextLeaseEpoch \in Nat \ {0} /\ store \in [Jobs -> JobRecord]
  BY GrantLeaseType, Zenon DEF TypeOK
<1>2. /\ logged' = ApplyRecordForRecovery(logged, r)
      /\ store' = ApplyRecord(store, r)
      /\ lastLease' = [lastLease EXCEPT ![j] = nextLeaseEpoch]
      /\ leases' = [leases EXCEPT
                        ![j] = [epoch |-> nextLeaseEpoch, expired |-> FALSE]]
      /\ nextLeaseEpoch' = nextLeaseEpoch + 1
      /\ store[j].state = "Queued"
  BY Zenon DEF GrantLease, EpochAfter, Leaseable
<1> HIDE DEF j
<1>3. r \in WalRecord /\ r.id = j /\ r.type = "JobLeased"
  BY <1>1, RecordInType, SMTT(30) DEF JobRecord, RecordType, Record
<1> HIDE DEF r
<1>4. store[r.id].state \in Live
  BY <1>2, <1>3, Zenon DEF Live, JobState, Terminal
<1>5. /\ MemoryMatchesLog'
      /\ \A k \in Jobs \ {j} : store'[k] = store[k]
      /\ store'[j].state = TargetState[r.type]
  BY <1>2, <1>3, RecordApplied, Zenon
<1>6. TerminalKept /\ NoneCreated /\ NoneCompleted
  BY <1>2, <1>3, <1>4, LiveRecordApplied, ZenonT(60)
<1>7. store'[j].state = "Running"
  BY <1>3, <1>5, SMTT(30) DEF TargetState
<1>8. leases \in [Jobs -> [epoch : Nat, expired : BOOLEAN]] /\ lastLease \in [Jobs -> Nat]
  BY Zenon DEF TypeOK
<1>9. /\ leases'[j] = [epoch |-> nextLeaseEpoch, expired |-> FALSE]
      /\ lastLease'[j] = nextLeaseEpoch
      /\ \A k \in Jobs \ {j} : leases'[k] = leases[k] /\ lastLease'[k] = lastLease[k]
  BY <1>1, <1>2, <1>8, ZenonT(60)
<1>10. \A k \in Jobs : leases[k].epoch \in 0 .. nextLeaseEpoch - 1
  BY <1>1, <1>8, SMTT(30) DEF LeaseDiscipline, NoLease
<1>11. LeaseDiscipline'
  <2> SUFFICES ASSUME NEW k \in Jobs, leases'[k] # NoLease
               PROVE  /\ store'[k].state = "Running"
                      /\ leases'[k].epoch = lastLease'[k]
                      /\ leases'[k].epoch \in 1 .. nextLeaseEpoch' - 1
                      /\ \A l \in Jobs \ {k} : leases'[l].epoch # leases'[k].epoch
    BY Zenon DEF LeaseDiscipline
  <2>1. CASE k = j
    <3>1. leases'[j].epoch = nextLeaseEpoch
      BY <1>9, SMTT(30)
    <3>2. nextLeaseEpoch \in 1 .. nextLeaseEpoch' - 1
      BY <1>1, <1>2, SMTT(30)
    <3>3. \A l \in Jobs \ {j} : leases'[l].epoch # nextLeaseEpoch
      BY <1>1, <1>9, <1>10, SMTT(30)
    <3> QED BY <1>7, <1>9, <2>1, <3>1, <3>2, <3>3, ZenonT(60)
  <2>2. CASE k # j
    <3>1. leases[k] # NoLease
      BY <1>9, <2>2, Zenon
    <3>2. /\ store[k].state = "Running"
          /\ leases[k].epoch = lastLease[k]
          /\ leases[k].epoch \in 1 .. nextLeaseEpoch - 1
          /\ \A l \in Jobs \ {k} : leases[l].epoch # leases[k].epoch
      BY <3>1, Zenon DEF LeaseDiscipline
    <3> QED BY <1>1, <1>2, <1>5, <1>9, <2>2, <3>2, SMTT(30)
  <2> QED BY <2>1, <2>2, Zenon
<1>12. \A k \in Jobs : leases[k] # NoLease => leases'[k] # NoLease
  BY <1>1, <1>9, SMTT(30) DEF NoLease
<1> QED BY <1>5, <1>6, <1>11, <1>12, ZenonT(60)

\* Leases that only disappear, while their jobs change at most with them.
LEMMA LeasesDropped ==
    ASSUME TypeOK, LeaseDiscipline, UNCHANGED <<lastLease, nextLeaseEpoch>>,
           \A k \in Jobs : \/ leases'[k] = NoLease
                           \/ leases'[k] = leases[k] /\ store'[k].state = store[k].state
    PROVE  LeaseDiscipline'
<1>1. nextLeaseEpoch \in Nat \ {0}
  BY Zenon DEF TypeOK
<1> SUFFICES ASSUME NEW k \in Jobs, leases'[k] # NoLease
             PROVE  /\ store'[k].state = "Running"
                    /\ leases'[k].epoch = lastLease'[k]
                    /\ leases'[k].epoch \in 1 .. nextLeaseEpoch' - 1
                    /\ \A l \in Jobs \ {k} : leases'[l].epoch # leases'[k].epoch
  BY Zenon DEF LeaseDiscipline
<1>2. leases'[k] = leases[k] /\ store'[k].state = store[k].state
  BY Zenon
<1>3. /\ store[k].state = "Running"
      /\ leases[k].epoch = lastLease[k]
      /\ leases[k].epoch \in 1 .. nextLeaseEpoch - 1
      /\ \A l \in Jobs \ {k} : leases[l].epoch # leases[k].epoch
  BY <1>2, Zenon DEF LeaseDiscipline
<1>4. \A l \in Jobs \ {k} : leases'[l].epoch # leases[k].epoch
  BY <1>1, <1>3, SMTT(30) DEF NoLease
<1> QED BY <1>2, <1>3, <1>4, ZenonT(60)

\* Settling a lease that is out: its job is Running, so what persist accepted is
\* also applied.
LEMMA SettleSafe ==
    ASSUME TypeOK, MemoryMatchesLog, LeaseDiscipline,
           NEW j \in Jobs, NEW ok \in BOOLEAN,
           NEW type \in {"JobRetryScheduled", "JobCompleted", "JobDead"},
           leases[j] # NoLease, Settle(j, type, ok)
    PROVE  /\ MemoryMatchesLog' /\ LeaseDiscipline'
           /\ TerminalKept /\ NoneCreated
           /\ type # "JobCompleted" => NoneCompleted
           /\ \A k \in Jobs \ {j} : leases'[k] = leases[k] /\ store'[k] = store[k]
<1> DEFINE r == Record(type, j, leases[j].epoch, store[j].attempts)
<1>1. /\ leases \in [Jobs -> [epoch : Nat, expired : BOOLEAN]]
      /\ store \in [Jobs -> JobRecord]
  BY Zenon DEF TypeOK
<1>2. r \in WalRecord /\ r.id = j /\ r.type = type
  BY <1>1, RecordInType, Zenon DEF JobRecord, RecordType, Record
<1>3. /\ leases' = [leases EXCEPT ![j] = NoLease]
      /\ logged' = IF ok THEN ApplyRecordForRecovery(logged, r) ELSE logged
      /\ store' = IF Exposed(r, ok) THEN ApplyRecord(store, r) ELSE store
      /\ UNCHANGED <<lastLease, nextLeaseEpoch>>
  BY Zenon DEF Settle, DropLease
<1> HIDE DEF r
<1>4. store[j].state = "Running"
  BY Zenon DEF LeaseDiscipline
<1>5. Exposed(r, ok) <=> ok
  <2>1. Applicable(store, r)
    BY <1>2, <1>4, SMTT(30) DEF Applicable, IsValidTransition, TargetState
  <2> QED BY <2>1, Zenon DEF Exposed
<1>6. \A k \in Jobs \ {j} : leases'[k] = leases[k]
  BY <1>1, <1>3, Zenon
<1>7. CASE ~ok
  <2>1. UNCHANGED <<store, logged>>
    BY <1>3, <1>5, <1>7, ZenonT(60)
  <2>2. MemoryMatchesLog'
    BY <2>1, Zenon DEF MemoryMatchesLog
  <2>3. LeaseDiscipline'
    BY <1>1, <1>3, <1>6, <2>1, LeasesDropped, ZenonT(60)
  <2> QED BY <1>6, <2>1, <2>2, <2>3, TableUntouched, ZenonT(60)
<1>8. CASE ok
  <2>1. store' = ApplyRecord(store, r) /\ logged' = ApplyRecordForRecovery(logged, r)
    BY <1>3, <1>5, <1>8, ZenonT(60)
  <2>2. store[r.id].state \in Live /\ store[r.id].state # "Absent"
    BY <1>2, <1>4, Zenon DEF Live, JobState, Terminal
  <2>3. MemoryMatchesLog' /\ \A k \in Jobs \ {j} : store'[k] = store[k]
    BY <1>2, <2>1, <2>2, RecordApplied, ZenonT(60)
  <2>4. TerminalKept /\ NoneCreated /\ (type # "JobCompleted" => NoneCompleted)
    BY <1>2, <2>1, <2>2, LiveRecordApplied, ZenonT(60)
  <2>5. LeaseDiscipline'
    BY <1>1, <1>3, <1>6, <2>3, LeasesDropped, ZenonT(60)
  <2> QED BY <1>6, <2>3, <2>4, <2>5, ZenonT(60)
<1> QED BY <1>7, <1>8, ZenonT(60)

\* process_due_retries: the job goes back to Queued without a record.
LEMMA ProcessDueRetrySafe ==
    ASSUME TypeOK, MemoryMatchesLog, LeaseDiscipline, ProcessDueRetry
    PROVE  /\ MemoryMatchesLog' /\ LeaseDiscipline'
           /\ TerminalKept /\ NoneCreated /\ NoneCompleted
<1> DEFINE j == Head(retryQueue)
<1>1. store \in [Jobs -> JobRecord] /\ logged \in [Jobs -> JobRecord]
  BY Zenon DEF TypeOK
<1>2. UNCHANGED <<logged, lastLease, leases, nextLeaseEpoch>>
  BY Zenon DEF ProcessDueRetry, storageVars
<1>3. IF store[j].state = "RetryWaiting"
      THEN store' = [store EXCEPT ![j].state = "Queued"] ELSE store' = store
  BY Zenon DEF ProcessDueRetry, TransitionToQueued
<1>4. CASE store[j].state # "RetryWaiting"
  <2>1. UNCHANGED <<store, logged>>
    BY <1>2, <1>3, <1>4, ZenonT(60)
  <2>2. MemoryMatchesLog' /\ LeaseDiscipline'
    BY <1>2, <2>1, ZenonT(60) DEF MemoryMatchesLog, LeaseDiscipline
  <2> QED BY <2>1, <2>2, TableUntouched, ZenonT(60)
<1>5. CASE store[j].state = "RetryWaiting"
  <2>1. retryQueue \in Seq(Jobs) /\ retryQueue # <<>>
    <3>1. retryQueue \in Seq(Jobs) /\ dueCount \in 0 .. Len(retryQueue)
      BY Zenon DEF TypeOK
    <3>2. dueCount > 0
      BY Zenon DEF ProcessDueRetry
    <3> QED BY <3>1, <3>2, SeqLen, SMTT(30)
  <2>2. j \in Jobs
    BY <2>1, SeqHeadTail, Zenon
  <2>3. store' = [store EXCEPT ![j].state = "Queued"]
    BY <1>3, <1>5, Zenon
  <2> HIDE DEF j
  <2>4. store[j] = logged[j]
    BY <1>1, <1>5, <2>2, ZenonT(60) DEF MemoryMatchesLog, JobRecord
  <2>5. /\ \A k \in Jobs \ {j} : store'[k] = store[k]
        /\ store'[j] = [store[j] EXCEPT !.state = "Queued"]
        /\ store'[j].state = "Queued"
    BY <1>1, <2>2, <2>3, ZenonT(60) DEF JobRecord
  <2>6. MemoryMatchesLog'
    <3> SUFFICES ASSUME NEW k \in Jobs
                 PROVE  \/ store'[k] = logged[k]
                        \/ /\ store'[k] = [logged[k] EXCEPT !.state = "Queued"]
                           /\ logged[k].state = "RetryWaiting"
      BY <1>2, Zenon DEF MemoryMatchesLog
    <3> QED BY <1>5, <2>4, <2>5, ZenonT(60) DEF MemoryMatchesLog
  <2>7. leases[j] = NoLease
    BY <1>5, <2>2, Zenon DEF LeaseDiscipline
  <2>8. LeaseDiscipline'
    BY <1>2, <2>5, <2>7, LeasesDropped, ZenonT(60)
  <2>9. TerminalKept
    BY <1>2, <1>5, <2>5, ZenonT(60) DEF TerminalKept, Terminal
  <2>10. NoneCreated
    <3>1. store'[j] # Absent /\ store[j] # Absent
      BY <1>5, <2>5, SMTT(30) DEF Absent
    <3> QED BY <2>5, <3>1, Zenon DEF NoneCreated
  <2>11. NoneCompleted
    BY <1>5, <2>5, Zenon DEF NoneCompleted
  <2> QED BY <2>6, <2>8, <2>9, <2>10, <2>11, Zenon
<1> QED BY <1>4, <1>5, ZenonT(60)

\* do_cancel: the lease goes with the job.
LEMMA AcceptCancelSafe ==
    ASSUME TypeOK, MemoryMatchesLog, LeaseDiscipline, AcceptCancel
    PROVE  /\ MemoryMatchesLog' /\ LeaseDiscipline'
           /\ TerminalKept /\ NoneCreated /\ NoneCompleted
           /\ store'[Head(cmds).job].state = "Cancelled"
<1> DEFINE j == Head(cmds).job
           r == Record("JobCancelled", j, 0, 0)
<1>1. j \in Jobs
  BY ReceiveType, CommandFields, Zenon DEF AcceptCancel
<1>2. /\ store[j].state \in Live
      /\ logged' = ApplyRecordForRecovery(logged, r)
      /\ store' = ApplyRecord(store, r)
      /\ leases' = IF store[j].state = "Running" THEN DropLease(j) ELSE leases
      /\ UNCHANGED <<lastLease, nextLeaseEpoch>>
  BY Zenon DEF AcceptCancel
<1> HIDE DEF j
<1>3. r \in WalRecord /\ r.id = j /\ r.type = "JobCancelled"
  BY <1>1, RecordInType, Zenon DEF RecordType, Record
<1> HIDE DEF r
<1>4. store[r.id].state # "Absent"
  BY <1>2, <1>3, Zenon DEF Live, JobState
<1>5. /\ MemoryMatchesLog'
      /\ \A k \in Jobs \ {j} : store'[k] = store[k]
      /\ store'[j].state = TargetState[r.type]
  BY <1>2, <1>3, <1>4, RecordApplied, ZenonT(60)
<1>6. TerminalKept /\ NoneCreated /\ NoneCompleted
  BY <1>2, <1>3, LiveRecordApplied, ZenonT(60)
<1>7. leases \in [Jobs -> [epoch : Nat, expired : BOOLEAN]]
  BY Zenon DEF TypeOK
<1>8. leases'[j] = NoLease /\ \A k \in Jobs \ {j} : leases'[k] = leases[k]
  <2>1. CASE store[j].state = "Running"
    BY <1>1, <1>2, <1>7, <2>1, ZenonT(60) DEF DropLease
  <2>2. CASE store[j].state # "Running"
    BY <1>1, <1>2, <2>2, ZenonT(60) DEF LeaseDiscipline
  <2> QED BY <2>1, <2>2, Zenon
<1>9. LeaseDiscipline'
  BY <1>2, <1>5, <1>8, LeasesDropped, ZenonT(60)
<1>10. store'[j].state = "Cancelled"
  BY <1>3, <1>5, SMTT(30) DEF TargetState
<1> QED BY <1>5, <1>6, <1>9, <1>10, ZenonT(60) DEF j

\* do_submit: a job nobody has seen before becomes Queued.
LEMMA AcceptSubmitSafe ==
    ASSUME TypeOK, MemoryMatchesLog, LeaseDiscipline, AcceptSubmit,
           store[Head(cmds).job] = Absent
    PROVE  /\ MemoryMatchesLog' /\ LeaseDiscipline'
           /\ TerminalKept /\ NoneCompleted
           /\ \A k \in Jobs \ {Head(cmds).job} : store'[k] = store[k]
           /\ store'[Head(cmds).job].state = "Queued"
<1> DEFINE j == Head(cmds).job
           r == Record("JobSubmitted", j, 0, 0)
<1>1. j \in Jobs
  BY ReceiveType, CommandFields, ZenonT(60) DEF AcceptSubmit
<1>2. /\ store[j] = Absent
      /\ logged' = ApplyRecordForRecovery(logged, r)
      /\ store' = ApplyRecord(store, r)
      /\ UNCHANGED <<leases, lastLease, nextLeaseEpoch>>
  BY ZenonT(60) DEF AcceptSubmit
<1> HIDE DEF j
<1>3. r \in WalRecord /\ r.id = j /\ r.type = "JobSubmitted"
  BY <1>1, RecordInType, Zenon DEF RecordType, Record
<1> HIDE DEF r
<1>4. /\ MemoryMatchesLog'
      /\ \A k \in Jobs \ {j} : store'[k] = store[k] /\ logged'[k] = logged[k]
      /\ store'[j].state = TargetState[r.type]
  BY <1>2, <1>3, RecordApplied, ZenonT(60)
<1>5. store'[j].state = "Queued" /\ store[j].state = "Absent"
  BY <1>2, <1>3, <1>4, SMTT(30) DEF TargetState, Absent
<1>6. leases[j] = NoLease
  BY <1>1, <1>5, Zenon DEF LeaseDiscipline
<1>7. LeaseDiscipline'
  BY <1>2, <1>4, <1>6, LeasesDropped, ZenonT(60)
<1>8. logged[j].state \notin Terminal
  BY <1>1, <1>5, Zenon DEF MemoryMatchesLog, Terminal
<1>9. TerminalKept /\ NoneCompleted
  BY <1>4, <1>5, <1>8, ZenonT(60) DEF TerminalKept, NoneCompleted, Terminal
<1> QED BY <1>4, <1>5, <1>7, <1>9, ZenonT(60) DEF j

-----------------------------------------------------------------------------
\* What a step does to the commands on their way.

\* The channel as it is.
LEMMA ChannelUntouched ==
    ASSUME TypeOK, SubmittedOnce, cmds' = cmds,
           \A k \in Jobs : client[k] = "sent" /\ store[k] = Absent =>
                              client'[k] = "sent" /\ store'[k] = Absent
    PROVE  SubmittedOnce'
<1>1. cmds \in Seq(Command)
  BY Zenon DEF TypeOK
<1>2. \A i \in DOMAIN cmds : cmds[i].kind = "Submit" => cmds[i].job \in Jobs
  BY <1>1, CommandFields, SMTT(30)
<1> QED BY <1>2, Zenon DEF SubmittedOnce

\* A command is received.
LEMMA ChannelReceived ==
    ASSUME TypeOK, SubmittedOnce, cmds # <<>>, cmds' = Tail(cmds),
           \A k \in Jobs :
               client[k] = "sent" /\ store[k] = Absent /\ ~IsSubmit(Head(cmds), k) =>
                   client'[k] = "sent" /\ store'[k] = Absent
    PROVE  SubmittedOnce'
<1>1. cmds \in Seq(Command) /\ cmds # <<>>
  BY Zenon DEF TypeOK
<1>2. /\ Len(cmds) \in Nat \ {0}
      /\ DOMAIN cmds = 1 .. Len(cmds)
      /\ DOMAIN cmds' = 1 .. Len(cmds) - 1
      /\ \A i \in DOMAIN cmds' : cmds'[i] = cmds[i + 1]
      /\ Head(cmds) = cmds[1]
  BY <1>1, SeqLen, SeqHeadTail, SMTT(30)
<1>3. \A i \in DOMAIN cmds : cmds[i].kind = "Submit" => cmds[i].job \in Jobs
  BY <1>1, CommandFields, SMTT(30)
<1> SUFFICES ASSUME NEW i \in DOMAIN cmds', cmds'[i].kind = "Submit"
             PROVE  /\ client'[cmds'[i].job] = "sent"
                    /\ store'[cmds'[i].job] = Absent
                    /\ \A k \in DOMAIN cmds' : IsSubmit(cmds'[k], cmds'[i].job) => k = i
  BY Zenon DEF SubmittedOnce, IsSubmit
<1>4. i \in Nat /\ i + 1 \in DOMAIN cmds /\ cmds'[i] = cmds[i + 1] /\ i + 1 # 1
  BY <1>2, SMTT(30)
<1>5. /\ client[cmds[i + 1].job] = "sent"
      /\ store[cmds[i + 1].job] = Absent
      /\ \A k \in DOMAIN cmds : IsSubmit(cmds[k], cmds[i + 1].job) => k = i + 1
  BY <1>4, ZenonT(60) DEF SubmittedOnce
<1>6. ~IsSubmit(Head(cmds), cmds[i + 1].job)
  BY <1>2, <1>4, <1>5, SMTT(30)
<1>7. client'[cmds'[i].job] = "sent" /\ store'[cmds'[i].job] = Absent
  BY <1>3, <1>4, <1>5, <1>6, ZenonT(60)
<1>8. ASSUME NEW k \in DOMAIN cmds', IsSubmit(cmds'[k], cmds'[i].job) PROVE k = i
  <2>1. k \in Nat /\ k + 1 \in DOMAIN cmds /\ cmds'[k] = cmds[k + 1]
    BY <1>2, SMTT(30)
  <2>2. k + 1 = i + 1
    BY <1>4, <1>5, <1>8, <2>1, ZenonT(60)
  <2> QED BY <1>4, <2>1, <2>2, SMTT(30)
<1> QED BY <1>7, <1>8, ZenonT(60)

\* A command is sent; a Submit only for a job that is not in the store and has
\* none on its way.
LEMMA ChannelSent ==
    ASSUME TypeOK, SubmittedOnce, NEW cmd \in Command, cmds' = Append(cmds, cmd),
           \A k \in Jobs : client[k] = "sent" /\ store[k] = Absent =>
                              client'[k] = "sent" /\ store'[k] = Absent,
           cmd.kind = "Submit" =>
               /\ client[cmd.job] # "sent"
               /\ client'[cmd.job] = "sent" /\ store'[cmd.job] = Absent
    PROVE  SubmittedOnce'
<1>1. cmds \in Seq(Command)
  BY Zenon DEF TypeOK
<1>2. /\ Len(cmds) \in Nat
      /\ DOMAIN cmds = 1 .. Len(cmds)
      /\ DOMAIN cmds' = 1 .. Len(cmds) + 1
      /\ \A i \in DOMAIN cmds : cmds'[i] = cmds[i]
      /\ cmds'[Len(cmds) + 1] = cmd
  BY <1>1, SeqAppend, SeqLen, SMTT(30)
<1>3. \A i \in DOMAIN cmds : cmds[i].kind = "Submit" => cmds[i].job \in Jobs
  BY <1>1, CommandFields, SMTT(30)
<1>4. \A i \in DOMAIN cmds' : i \in DOMAIN cmds \/ i = Len(cmds) + 1
  BY <1>2, SMTT(30)
<1>5. \A i \in DOMAIN cmds : IsSubmit(cmds[i], cmd.job) => cmd.kind # "Submit"
  BY Zenon DEF SubmittedOnce, IsSubmit
<1> SUFFICES ASSUME NEW i \in DOMAIN cmds', cmds'[i].kind = "Submit"
             PROVE  /\ client'[cmds'[i].job] = "sent"
                    /\ store'[cmds'[i].job] = Absent
                    /\ \A k \in DOMAIN cmds' : IsSubmit(cmds'[k], cmds'[i].job) => k = i
  BY Zenon DEF SubmittedOnce, IsSubmit
<1>6. CASE i = Len(cmds) + 1
  <2>1. cmds'[i] = cmd /\ cmd.kind = "Submit"
    BY <1>2, <1>6, ZenonT(60)
  <2>2. ASSUME NEW k \in DOMAIN cmds', IsSubmit(cmds'[k], cmd.job), k # i PROVE FALSE
    <3>1. k \in DOMAIN cmds /\ cmds'[k] = cmds[k]
      BY <1>2, <1>4, <1>6, <2>2, ZenonT(60)
    <3> QED BY <1>5, <2>1, <2>2, <3>1, ZenonT(60)
  <2> QED BY <2>1, <2>2, ZenonT(60)
<1>7. CASE i \in DOMAIN cmds
  <2>1. cmds'[i] = cmds[i] /\ cmds[i].job \in Jobs
    BY <1>2, <1>3, <1>7, ZenonT(60)
  <2>2. /\ client[cmds[i].job] = "sent"
        /\ store[cmds[i].job] = Absent
        /\ \A k \in DOMAIN cmds : IsSubmit(cmds[k], cmds[i].job) => k = i
    BY <1>7, <2>1, ZenonT(60) DEF SubmittedOnce
  <2>3. ASSUME NEW k \in DOMAIN cmds', IsSubmit(cmds'[k], cmds[i].job) PROVE k = i
    <3>1. CASE k \in DOMAIN cmds
      BY <1>2, <2>2, <2>3, <3>1, ZenonT(60)
    <3>2. CASE k = Len(cmds) + 1
      <4>1. cmd.kind = "Submit" /\ cmd.job = cmds[i].job
        BY <1>2, <2>3, <3>2, ZenonT(60) DEF IsSubmit
      <4> QED BY <2>2, <4>1, ZenonT(60)
    <3> QED BY <1>4, <3>1, <3>2, ZenonT(60)
  <2> QED BY <2>1, <2>2, <2>3, ZenonT(60)
<1> QED BY <1>4, <1>6, <1>7, ZenonT(60)

-----------------------------------------------------------------------------
\* The inductive step.

CompletedByReport ==
    \A j \in Jobs :
        store[j].state # "Completed" /\ store'[j].state = "Completed" =>
            /\ cmds # <<>>
            /\ Head(cmds) = [kind |-> "WorkerOutcome",
                             work |-> [job |-> j, lease |-> lastLease[j]],
                             outcome |-> "Success"]

SafeStep == SafetyInv' /\ TerminalKept /\ CompletedByReport

\* A step that answers no submitter is safe once its effect on the job table,
\* the leases and the timeouts is.
LEMMA NoSubmitAnswered ==
    ASSUME SafetyInv, TypeOK', MemoryMatchesLog', LeaseDiscipline',
           TimedOutAreLeased', TerminalKept, NoneCreated, CompletedByReport,
           \A k \in Jobs : canceller'[k] = "ok" =>
                              canceller[k] = "ok" \/ store'[k].state = "Cancelled",
           UNCHANGED <<client, replyTo>>,
           pc' = "submit" <=> pc = "submit",
           \/ cmds' = cmds
           \/ cmds # <<>> /\ cmds' = Tail(cmds)
           \/ \E cmd \in Command : cmd.kind # "Submit" /\ cmds' = Append(cmds, cmd)
    PROVE  SafeStep
<1>1. \A k \in Jobs : client[k] = "sent" /\ store[k] = Absent =>
                         client'[k] = "sent" /\ store'[k] = Absent
  BY Zenon DEF NoneCreated
<1>2. SubmittedOnce'
  <2>1. CASE cmds' = cmds
    BY <1>1, <2>1, ChannelUntouched, ZenonT(60) DEF SafetyInv
  <2>2. CASE cmds # <<>> /\ cmds' = Tail(cmds)
    BY <1>1, <2>2, ChannelReceived, ZenonT(60) DEF SafetyInv
  <2>3. CASE \E cmd \in Command : cmd.kind # "Submit" /\ cmds' = Append(cmds, cmd)
    <3>1. PICK cmd \in Command : cmd.kind # "Submit" /\ cmds' = Append(cmds, cmd)
      BY <2>3, Zenon
    <3>2. TypeOK /\ SubmittedOnce
      BY Zenon DEF SafetyInv
    <3> QED BY <1>1, <3>1, <3>2, ChannelSent, ZenonT(60)
  <2> QED BY <2>1, <2>2, <2>3, ZenonT(60)
<1>3. SubmitterState'
  BY Zenon DEF SafetyInv, SubmitterState, NoneCreated
<1>4. CancelledForGood'
  BY Zenon DEF SafetyInv, CancelledForGood, TerminalKept, Terminal
<1> QED BY <1>2, <1>3, <1>4, ZenonT(60) DEF SafeStep, SafetyInv

\* A step that leaves jobs and leases alone, too.
LEMMA JobsUntouched ==
    ASSUME SafetyInv, TypeOK', TimedOutAreLeased',
           UNCHANGED <<store, logged, leases, lastLease, nextLeaseEpoch>>,
           \A k \in Jobs : canceller'[k] = "ok" => canceller[k] = "ok",
           UNCHANGED <<client, replyTo>>,
           pc' = "submit" <=> pc = "submit",
           \/ cmds' = cmds
           \/ cmds # <<>> /\ cmds' = Tail(cmds)
           \/ \E cmd \in Command : cmd.kind # "Submit" /\ cmds' = Append(cmds, cmd)
    PROVE  SafeStep
<1>1. MemoryMatchesLog' /\ LeaseDiscipline'
  BY ZenonT(60) DEF SafetyInv, MemoryMatchesLog, LeaseDiscipline
<1>2. TerminalKept /\ NoneCreated /\ CompletedByReport
  BY TableUntouched, Zenon DEF CompletedByReport
<1> QED BY <1>1, <1>2, NoSubmitAnswered, ZenonT(60)

\* The run loop moves on without touching a job.
LEMMA LoopSafe ==
    ASSUME SafetyInv, TypeOK', CollectTimeouts \/ EnterSelect \/ WakeOnDeadline
    PROVE  SafeStep
<1>1. UNCHANGED <<store, logged, leases, lastLease, nextLeaseEpoch, client, replyTo,
                  canceller, cmds>>
  BY Zenon DEF CollectTimeouts, EnterSelect, WakeOnDeadline, storageVars, jobVars, actorVars
<1>2. pc # "submit" /\ pc' # "submit"
  BY Zenon DEF CollectTimeouts, EnterSelect, WakeOnDeadline
<1>3. TimedOutAreLeased'
  <2>1. CASE CollectTimeouts
    <3>1. timedOut' = {j \in Jobs : leases[j].expired} /\ pc' = "work"
      BY <2>1, Zenon DEF CollectTimeouts
    <3> QED BY <1>1, <3>1, SMTT(30) DEF TimedOutAreLeased, NoLease
  <2>2. CASE EnterSelect \/ WakeOnDeadline
    <3>1. timedOut = {} /\ timedOut' = timedOut
      BY <2>2, Zenon DEF EnterSelect, WakeOnDeadline, DispatchDone, SafetyInv, TimedOutAreLeased
    <3> QED BY <3>1, Zenon DEF TimedOutAreLeased
  <2> QED BY <2>1, <2>2, ZenonT(60)
<1> QED BY <1>1, <1>2, <1>3, JobsUntouched, ZenonT(60)

\* While the loop waits for a command no timeout is half settled.
LEMMA ReceiveSafe ==
    ASSUME SafetyInv, NEW kind, Receive(kind), timedOut' = timedOut
    PROVE  /\ pc # "submit"
           /\ cmds # <<>> /\ cmds' = Tail(cmds)
           /\ timedOut = {}
           /\ TimedOutAreLeased'
BY Zenon DEF Receive, SafetyInv, TimedOutAreLeased

\* Commands that touch no job.
LEMMA IdleCommandSafe ==
    ASSUME SafetyInv, TypeOK',
           RejectCancel \/ StaleOutcome \/ ParkFetcher \/ StartShutdown
    PROVE  SafeStep
<1>1. PICK kind \in {"Cancel", "WorkerOutcome", "FetchWork", "Shutdown"} : Receive(kind)
  BY Zenon DEF RejectCancel, StaleOutcome, ParkFetcher, StartShutdown
<1>2. /\ UNCHANGED <<store, logged, leases, lastLease, nextLeaseEpoch, client, replyTo,
                     timedOut>>
      /\ pc' = "loop"
  BY Zenon DEF RejectCancel, StaleOutcome, ParkFetcher, StartShutdown, storageVars, jobVars,
         actorVars
<1>3. /\ pc # "submit"
      /\ cmds # <<>> /\ cmds' = Tail(cmds)
      /\ TimedOutAreLeased'
  BY <1>1, <1>2, ReceiveSafe, ZenonT(60)
<1>4. \A k \in Jobs : canceller'[k] = "ok" => canceller[k] = "ok"
  <2>1. canceller \in [Jobs -> {"idle", "sent", "ok", "err"}]
    BY ZenonT(60) DEF SafetyInv, TypeOK
  <2>2. canceller' = canceller \/ canceller' = [canceller EXCEPT ![Head(cmds).job] = "err"]
    BY Zenon DEF RejectCancel, StaleOutcome, ParkFetcher, StartShutdown, actorVars
  <2> QED BY <2>1, <2>2, ZenonT(60)
<1> QED BY <1>2, <1>3, <1>4, JobsUntouched, ZenonT(60)

\* The clock, apart from leases.
LEMMA ClockSafe ==
    ASSUME SafetyInv, TypeOK', RetryBecomesDue \/ DeadlineElapses
    PROVE  SafeStep
<1>1. UNCHANGED <<store, logged, leases, lastLease, nextLeaseEpoch, client, replyTo,
                  canceller, cmds, timedOut, pc>>
  BY Zenon DEF RetryBecomesDue, DeadlineElapses, storageVars, jobVars, actorVars, loopVars
<1>2. TimedOutAreLeased'
  BY <1>1, Zenon DEF SafetyInv, TimedOutAreLeased
<1> QED BY <1>1, <1>2, JobsUntouched, ZenonT(60)

\* A lease runs out: it stays out until the run loop settles it.
LEMMA LeaseExpiresSafe ==
    ASSUME SafetyInv, TypeOK', NEW j \in Jobs, LeaseExpires(j)
    PROVE  SafeStep
<1>1. UNCHANGED <<store, logged, lastLease, nextLeaseEpoch, client, replyTo,
                  canceller, cmds, timedOut, pc>>
  BY ZenonT(60) DEF LeaseExpires, storageVars, actorVars, loopVars
<1>2. /\ leases \in [Jobs -> [epoch : Nat, expired : BOOLEAN]]
      /\ timedOut \subseteq Jobs
  BY ZenonT(60) DEF SafetyInv, TypeOK
<1>3. leases' = [leases EXCEPT ![j].expired = TRUE] /\ leases[j] # NoLease
  BY Zenon DEF LeaseExpires
<1>4. /\ \A k \in Jobs : leases'[k].epoch = leases[k].epoch
      /\ \A k \in Jobs \ {j} : leases'[k] = leases[k]
      /\ leases'[j].expired = TRUE
  BY <1>2, <1>3, ZenonT(60)
<1>5. \A k \in Jobs : leases'[k] # NoLease <=> leases[k] # NoLease
  BY <1>3, <1>4, SMTT(30) DEF NoLease
<1>6. LeaseDiscipline'
  BY <1>1, <1>4, <1>5, SMTT(30) DEF SafetyInv, LeaseDiscipline
<1>7. TimedOutAreLeased'
  BY <1>1, <1>2, <1>5, ZenonT(60) DEF SafetyInv, TimedOutAreLeased
<1>8. MemoryMatchesLog'
  BY <1>1, Zenon DEF SafetyInv, MemoryMatchesLog
<1>9. TerminalKept /\ NoneCreated /\ CompletedByReport
  BY <1>1, TableUntouched, Zenon DEF CompletedByReport
<1> QED BY <1>1, <1>6, <1>7, <1>8, <1>9, NoSubmitAnswered, ZenonT(60)

\* The workers: they only send requests and reports.
LEMMA WorkerSafe ==
    ASSUME SafetyInv, TypeOK', NEW w \in Workers,
           WorkerStep(w) \/ \E o \in HandlerOutcomes : HandlerEnds(w, o)
    PROVE  SafeStep
<1>1. UNCHANGED <<store, logged, leases, lastLease, nextLeaseEpoch, client, replyTo,
                  canceller, timedOut, pc>>
  BY Zenon DEF WorkerStep, WorkerCheckToken, WorkerFetch, WorkerStop, WorkerStart,
         HandlerAborted, WorkerReport, HandlerEnds, workerFrame, ownVars, storageVars,
         jobVars, loopVars
<1>2. TimedOutAreLeased'
  BY <1>1, Zenon DEF SafetyInv, TimedOutAreLeased
<1>3. \/ cmds' = cmds
      \/ \E cmd \in Command : cmd.kind # "Submit" /\ cmds' = Append(cmds, cmd)
  <2>1. CASE WorkerFetch(w)
    <3> DEFINE cmd == [kind |-> "FetchWork", worker |-> w]
    <3>1. cmd \in Command /\ cmd.kind # "Submit"
      BY Zenon DEF Command
    <3>2. cmds' = Append(cmds, cmd)
      BY <2>1, Zenon DEF WorkerFetch
    <3> QED BY <3>1, <3>2, ZenonT(60)
  <2>2. CASE WorkerReport(w)
    <3> DEFINE cmd == [kind |-> "WorkerOutcome", work |-> worker[w].work,
                       outcome |-> worker[w].outcome]
    <3>1. worker[w].work \in LeasedJob /\ worker[w].outcome \in WorkerOutcome
      <4>1. worker \in [Workers -> WorkerState] /\ worker[w].at = "reporting"
        BY <2>2, ZenonT(60) DEF SafetyInv, TypeOK, WorkerReport
      <4> QED BY <4>1, ZenonT(60) DEF WorkerState
    <3>2. cmd \in Command /\ cmd.kind # "Submit"
      BY <3>1, Zenon DEF Command
    <3>3. cmds' = Append(cmds, cmd) \/ cmds' = cmds
      BY <2>2, Zenon DEF WorkerReport
    <3> QED BY <3>2, <3>3, ZenonT(60)
  <2>3. CASE ~WorkerFetch(w) /\ ~WorkerReport(w)
    BY <2>3, Zenon DEF WorkerStep, WorkerCheckToken, WorkerStop, WorkerStart, HandlerAborted,
                HandlerEnds
  <2> QED BY <2>1, <2>2, <2>3, ZenonT(60)
<1> QED BY <1>1, <1>2, <1>3, JobsUntouched, ZenonT(60)

\* Requests for a cancel or for shutdown.
LEMMA RequestSafe ==
    ASSUME SafetyInv, TypeOK', SendShutdown \/ \E j \in Jobs : SendCancel(j)
    PROVE  SafeStep
<1>1. UNCHANGED <<store, logged, leases, lastLease, nextLeaseEpoch, client, replyTo,
                  timedOut, pc>>
  BY Zenon DEF SendShutdown, SendCancel, ownVars, storageVars, jobVars, loopVars
<1>2. TimedOutAreLeased'
  BY <1>1, Zenon DEF SafetyInv, TimedOutAreLeased
<1>3. CASE SendShutdown
  <2> DEFINE cmd == [kind |-> "Shutdown"]
  <2>1. cmd \in Command /\ cmd.kind # "Submit"
    BY Zenon DEF Command
  <2>2. cmds' = Append(cmds, cmd) /\ canceller' = canceller
    BY <1>3, Zenon DEF SendShutdown
  <2> QED BY <1>1, <1>2, <2>1, <2>2, JobsUntouched, ZenonT(60)
<1>4. ASSUME NEW j \in Jobs, SendCancel(j) PROVE SafeStep
  <2> DEFINE cmd == [kind |-> "Cancel", job |-> j]
  <2>1. cmd \in Command /\ cmd.kind # "Submit"
    BY Zenon DEF Command
  <2>2. cmds' = Append(cmds, cmd) /\ canceller' = [canceller EXCEPT ![j] = "sent"]
    BY <1>4, ZenonT(60) DEF SendCancel
  <2>3. canceller \in [Jobs -> {"idle", "sent", "ok", "err"}]
    BY ZenonT(60) DEF SafetyInv, TypeOK
  <2>4. \A k \in Jobs : canceller'[k] = "ok" => canceller[k] = "ok"
    BY <2>2, <2>3, ZenonT(60)
  <2> QED BY <1>1, <1>2, <2>1, <2>2, <2>4, JobsUntouched, ZenonT(60)
<1> QED BY <1>3, <1>4, ZenonT(60)

\* process_due_retries.
LEMMA RetrySafe ==
    ASSUME SafetyInv, TypeOK', ProcessDueRetry
    PROVE  SafeStep
<1>1. UNCHANGED <<leases, client, replyTo, canceller, cmds, timedOut, pc>>
  BY Zenon DEF ProcessDueRetry, actorVars, loopVars
<1>2. TimedOutAreLeased'
  BY <1>1, ZenonT(60) DEF SafetyInv, TimedOutAreLeased
<1>3. /\ MemoryMatchesLog' /\ LeaseDiscipline'
      /\ TerminalKept /\ NoneCreated /\ NoneCompleted
  BY ProcessDueRetrySafe, Zenon DEF SafetyInv
<1>4. CompletedByReport
  BY <1>3, Zenon DEF NoneCompleted, CompletedByReport
<1> QED BY <1>1, <1>2, <1>3, <1>4, NoSubmitAnswered, ZenonT(60)

\* try_lease_job, for a parked worker or for the worker that asked.
LEMMA LeaseSafe ==
    ASSUME SafetyInv, TypeOK', DispatchParked \/ LeaseToFetcher
    PROVE  SafeStep
<1>1. PICK q \in Queues, w \in Workers : GrantLease(q, w)
  BY LeaseGranted, Zenon
<1>2. /\ MemoryMatchesLog' /\ LeaseDiscipline'
      /\ TerminalKept /\ NoneCreated /\ NoneCompleted
  BY <1>1, GrantLeaseSafe, ZenonT(60) DEF SafetyInv
<1>3. CompletedByReport
  BY <1>2, Zenon DEF NoneCompleted, CompletedByReport
<1>4. UNCHANGED <<client, replyTo, canceller, timedOut>>
  BY Zenon DEF DispatchParked, LeaseToFetcher, loopVars
<1>5. /\ timedOut = {}
      /\ pc' = "submit" <=> pc = "submit"
      /\ cmds' = cmds \/ (cmds # <<>> /\ cmds' = Tail(cmds))
  BY <1>4, ReceiveSafe, ZenonT(60) DEF DispatchParked, LeaseToFetcher, loopVars
<1>6. TimedOutAreLeased'
  BY <1>4, <1>5, ZenonT(60) DEF TimedOutAreLeased
<1> QED BY <1>2, <1>3, <1>4, <1>5, <1>6, NoSubmitAnswered, ZenonT(60)

\* check_lease_timeouts settles one lease.
LEMMA TimeoutSafe ==
    ASSUME SafetyInv, TypeOK', SettleTimeout
    PROVE  SafeStep
<1>1. PICK j \in timedOut, ok \in PersistOutcome :
           timedOut' = timedOut \ {j} /\ Settle(j, RetryOrDead(j), ok)
  BY ZenonT(60) DEF SettleTimeout
<1>2. /\ j \in Jobs /\ timedOut \subseteq Jobs
      /\ leases[j] # NoLease
      /\ ok \in BOOLEAN
  BY <1>1, ZenonT(60) DEF SafetyInv, TypeOK, TimedOutAreLeased, PersistOutcome
<1>3. RetryOrDead(j) \in {"JobRetryScheduled", "JobDead"}
  BY Zenon DEF RetryOrDead
<1>4. /\ MemoryMatchesLog' /\ LeaseDiscipline'
      /\ TerminalKept /\ NoneCreated /\ NoneCompleted
      /\ \A k \in Jobs \ {j} : leases'[k] = leases[k]
  BY <1>1, <1>2, <1>3, SettleSafe, ZenonT(60) DEF SafetyInv
<1>5. UNCHANGED <<pc, client, replyTo, canceller, cmds>>
  BY Zenon DEF SettleTimeout, actorVars
<1>6. TimedOutAreLeased'
  <2>1. timedOut # {} => pc = "work"
    BY Zenon DEF SafetyInv, TimedOutAreLeased
  <2>2. \A k \in timedOut' : leases'[k] # NoLease
    BY <1>1, <1>2, <1>4, ZenonT(60) DEF SafetyInv, TimedOutAreLeased
  <2> QED BY <1>1, <1>5, <2>1, <2>2, ZenonT(60) DEF TimedOutAreLeased
<1>7. CompletedByReport
  BY <1>4, Zenon DEF NoneCompleted, CompletedByReport
<1> QED BY <1>4, <1>5, <1>6, <1>7, NoSubmitAnswered, ZenonT(60)

\* do_worker_outcome under the current lease: a job is completed only here.
LEMMA OutcomeSafe ==
    ASSUME SafetyInv, TypeOK', CurrentOutcome
    PROVE  SafeStep
<1> DEFINE cmd == Head(cmds)
           j == cmd.work.job
           type == OutcomeRecord(j, cmd.outcome)
<1>1. /\ Receive("WorkerOutcome") /\ pc' = "loop"
      /\ UNCHANGED <<timedOut, client, replyTo, canceller>>
      /\ leases[j].epoch = cmd.work.lease
  BY Zenon DEF CurrentOutcome, actorVars, IsCurrent
<1>2. cmd \in Command /\ cmd.kind = "WorkerOutcome"
  BY <1>1, ReceiveType, ZenonT(60) DEF SafetyInv
<1>3. cmd.work \in LeasedJob /\ cmd.outcome \in WorkerOutcome
  BY <1>2, CommandFields, ZenonT(60)
<1>4. PICK ok \in PersistOutcome : Settle(j, type, ok)
  BY Zenon DEF CurrentOutcome
<1> HIDE DEF cmd
<1>5. j \in Jobs /\ cmd.work.lease \in Nat \ {0}
  BY <1>3, ZenonT(60) DEF LeasedJob
<1>6. leases[j] # NoLease
  BY <1>1, <1>5, SMTT(30) DEF NoLease
<1>7. /\ type \in {"JobRetryScheduled", "JobCompleted", "JobDead"}
      /\ type = "JobCompleted" => cmd.outcome = "Success"
  BY Zenon DEF OutcomeRecord, RetryOrDead
<1>8. ok \in BOOLEAN
  BY Zenon DEF PersistOutcome
<1> HIDE DEF j, type
<1>9. /\ MemoryMatchesLog' /\ LeaseDiscipline'
      /\ TerminalKept /\ NoneCreated
      /\ type # "JobCompleted" => NoneCompleted
      /\ \A k \in Jobs \ {j} : store'[k] = store[k]
  BY <1>4, <1>5, <1>6, <1>7, <1>8, SettleSafe, ZenonT(60) DEF SafetyInv
<1>10. /\ pc # "submit"
       /\ cmds # <<>> /\ cmds' = Tail(cmds)
       /\ TimedOutAreLeased'
  BY <1>1, ReceiveSafe, ZenonT(60)
<1>11. CompletedByReport
  <2>1. CASE type # "JobCompleted"
    BY <1>9, <2>1, ZenonT(60) DEF NoneCompleted, CompletedByReport
  <2>2. CASE type = "JobCompleted"
    <3>1. leases[j].epoch = lastLease[j]
      BY <1>5, <1>6, ZenonT(60) DEF SafetyInv, LeaseDiscipline
    <3>2. cmd.work = [job |-> j, lease |-> lastLease[j]]
      BY <1>1, <1>3, <3>1, ZenonT(60) DEF LeasedJob, j, cmd
    <3>3. cmd = [kind |-> "WorkerOutcome", work |-> cmd.work, outcome |-> cmd.outcome]
      BY <1>2, Zenon DEF Command
    <3>4. cmd = [kind |-> "WorkerOutcome",
                 work |-> [job |-> j, lease |-> lastLease[j]],
                 outcome |-> "Success"]
      BY <1>7, <2>2, <3>2, <3>3, ZenonT(60)
    <3> QED BY <1>9, <1>10, <3>4, ZenonT(60) DEF CompletedByReport, cmd
  <2> QED BY <2>1, <2>2, ZenonT(60)
<1> QED BY <1>1, <1>9, <1>10, <1>11, NoSubmitAnswered, ZenonT(60)

\* do_cancel.
LEMMA CancelSafe ==
    ASSUME SafetyInv, TypeOK', AcceptCancel
    PROVE  SafeStep
<1> DEFINE j == Head(cmds).job
<1>1. /\ Receive("Cancel") /\ pc' = "loop"
      /\ canceller' = [canceller EXCEPT ![j] = "ok"]
      /\ UNCHANGED <<timedOut, client, replyTo>>
  BY Zenon DEF AcceptCancel
<1>2. /\ MemoryMatchesLog' /\ LeaseDiscipline'
      /\ TerminalKept /\ NoneCreated /\ NoneCompleted
      /\ store'[j].state = "Cancelled"
  BY AcceptCancelSafe, Zenon DEF SafetyInv
<1>3. /\ pc # "submit"
      /\ cmds # <<>> /\ cmds' = Tail(cmds)
      /\ TimedOutAreLeased'
  BY <1>1, ReceiveSafe, ZenonT(60)
<1>4. CompletedByReport
  BY <1>2, ZenonT(60) DEF NoneCompleted, CompletedByReport
<1>5. canceller \in [Jobs -> {"idle", "sent", "ok", "err"}]
  BY ZenonT(60) DEF SafetyInv, TypeOK
<1> HIDE DEF j
<1>6. \A k \in Jobs : canceller'[k] = "ok" =>
                         canceller[k] = "ok" \/ store'[k].state = "Cancelled"
  BY <1>1, <1>2, <1>5, ZenonT(60)
<1> QED BY <1>1, <1>2, <1>3, <1>4, <1>6, NoSubmitAnswered, ZenonT(60)

\* A step that leaves jobs, leases and cancels alone; what it tells submitters is
\* left to show.
LEMMA OnlySubmitters ==
    ASSUME SafetyInv, TypeOK',
           UNCHANGED <<store, logged, leases, lastLease, nextLeaseEpoch, canceller>>,
           TimedOutAreLeased', SubmittedOnce', SubmitterState'
    PROVE  SafeStep
<1>1. MemoryMatchesLog' /\ LeaseDiscipline' /\ CancelledForGood'
  BY ZenonT(60) DEF SafetyInv, MemoryMatchesLog, LeaseDiscipline, CancelledForGood
<1>2. TerminalKept /\ CompletedByReport
  BY TableUntouched, Zenon DEF CompletedByReport
<1> QED BY <1>1, <1>2, ZenonT(60) DEF SafeStep, SafetyInv

\* A refused Submit.
LEMMA RejectSubmitSafe ==
    ASSUME SafetyInv, TypeOK', RejectSubmit
    PROVE  SafeStep
<1> DEFINE j == Head(cmds).job
<1>1. /\ Receive("Submit") /\ pc' = "loop"
      /\ client' = [client EXCEPT ![j] = "err"]
      /\ UNCHANGED <<store, logged, leases, lastLease, nextLeaseEpoch, canceller,
                     timedOut, replyTo>>
  BY Zenon DEF RejectSubmit, storageVars, jobVars
<1>2. j \in Jobs /\ store[j] = Absent /\ IsSubmit(Head(cmds), j)
  BY <1>1, HeadSubmit, ZenonT(60)
<1>3. /\ pc # "submit"
      /\ cmds # <<>> /\ cmds' = Tail(cmds)
      /\ TimedOutAreLeased'
  BY <1>1, ReceiveSafe, ZenonT(60)
<1>4. client \in [Jobs -> {"idle", "permit", "sent", "ok", "err"}]
  BY ZenonT(60) DEF SafetyInv, TypeOK
<1> HIDE DEF j
<1>5. SubmittedOnce'
  <2>1. \A k \in Jobs :
            client[k] = "sent" /\ store[k] = Absent /\ ~IsSubmit(Head(cmds), k) =>
                client'[k] = "sent" /\ store'[k] = Absent
    BY <1>1, <1>2, <1>4, ZenonT(60)
  <2> QED BY <1>3, <2>1, ChannelReceived, ZenonT(60) DEF SafetyInv
<1>6. SubmitterState'
  BY <1>1, <1>2, <1>3, <1>4, ZenonT(60) DEF SafetyInv, SubmitterState
<1> QED BY <1>1, <1>3, <1>5, <1>6, OnlySubmitters, ZenonT(60)

\* An accepted Submit: the job is in the store, its submitter still waits.
LEMMA SubmitSafe ==
    ASSUME SafetyInv, TypeOK', AcceptSubmit
    PROVE  SafeStep
<1> DEFINE j == Head(cmds).job
<1>1. /\ Receive("Submit") /\ pc' = "submit" /\ replyTo' = j
      /\ UNCHANGED <<client, canceller, timedOut>>
  BY Zenon DEF AcceptSubmit, actorVars
<1>2. /\ j \in Jobs /\ client[j] = "sent" /\ store[j] = Absent
      /\ IsSubmit(Head(cmds), j)
  BY <1>1, HeadSubmit, ZenonT(60)
<1>3. /\ MemoryMatchesLog' /\ LeaseDiscipline'
      /\ TerminalKept /\ NoneCompleted
      /\ \A k \in Jobs \ {j} : store'[k] = store[k]
      /\ store'[j].state = "Queued"
  BY <1>2, AcceptSubmitSafe, ZenonT(60) DEF SafetyInv
<1>4. /\ pc # "submit"
      /\ cmds # <<>> /\ cmds' = Tail(cmds)
      /\ TimedOutAreLeased'
  <2>1. /\ pc # "submit" /\ timedOut = {}
        /\ cmds # <<>> /\ cmds' = Tail(cmds)
    BY <1>1, ReceiveSafe, ZenonT(60)
  <2> QED BY <1>1, <2>1, ZenonT(60) DEF TimedOutAreLeased
<1> HIDE DEF j
<1>5. SubmittedOnce'
  <2>1. \A k \in Jobs :
            client[k] = "sent" /\ store[k] = Absent /\ ~IsSubmit(Head(cmds), k) =>
                client'[k] = "sent" /\ store'[k] = Absent
    BY <1>1, <1>2, <1>3, ZenonT(60)
  <2> QED BY <1>4, <2>1, ChannelReceived, Zenon DEF SafetyInv
<1>6. store'[j] # Absent
  <2>1. Absent.state = "Absent"
    BY Zenon DEF Absent
  <2>2. Absent.state # "Queued"
    BY <2>1, ZenonT(60)
  <2> QED BY <1>3, <2>2, ZenonT(60)
<1>7. SubmitterState'
  BY <1>1, <1>2, <1>3, <1>4, <1>6, ZenonT(60) DEF SafetyInv, SubmitterState
<1>8. CancelledForGood'
  BY <1>1, <1>3, ZenonT(30) DEF SafetyInv, CancelledForGood, TerminalKept, Terminal
<1>9. CompletedByReport
  BY <1>3, Zenon DEF NoneCompleted, CompletedByReport
<1> QED BY <1>3, <1>4, <1>5, <1>7, <1>8, <1>9, ZenonT(60) DEF SafeStep, SafetyInv

\* The reply to an accepted Submit.
LEMMA ReplySubmitSafe ==
    ASSUME SafetyInv, TypeOK', ReplySubmit
    PROVE  SafeStep
<1>1. /\ pc = "submit" /\ pc' = "loop"
      /\ client' = [client EXCEPT ![replyTo] = "ok"]
      /\ UNCHANGED <<store, logged, leases, lastLease, nextLeaseEpoch, canceller,
                     timedOut, cmds>>
  BY Zenon DEF ReplySubmit, storageVars, jobVars
<1>2. replyTo \in Jobs /\ store[replyTo] # Absent /\ timedOut = {}
  BY <1>1, ZenonT(60) DEF SafetyInv, SubmitterState, TimedOutAreLeased
<1>3. client \in [Jobs -> {"idle", "permit", "sent", "ok", "err"}]
  BY Zenon DEF SafetyInv, TypeOK
<1>4. SubmittedOnce'
  BY <1>1, <1>2, <1>3, ChannelUntouched, ZenonT(60) DEF SafetyInv
<1>5. SubmitterState'
  BY <1>1, <1>2, <1>3, ZenonT(60) DEF SafetyInv, SubmitterState
<1>6. TimedOutAreLeased'
  BY <1>1, <1>2, ZenonT(60) DEF TimedOutAreLeased
<1> QED BY <1>1, <1>4, <1>5, <1>6, OnlySubmitters, ZenonT(60)

\* The coordinator ends: nobody whose job is in the store gets an error.
LEMMA ShutdownSafe ==
    ASSUME SafetyInv, TypeOK', CompleteShutdown \/ ForceShutdown
    PROVE  SafeStep
<1>1. /\ pc = "work" /\ pc' = "done" /\ timedOut = {} /\ timedOut' = timedOut
      /\ cmds' = <<>>
      /\ UNCHANGED <<store, logged, lastLease, nextLeaseEpoch, replyTo>>
      /\ client' = [j \in Jobs |-> IF client[j] = "sent" THEN "err" ELSE client[j]]
      /\ canceller' = [j \in Jobs |->
                          IF canceller[j] = "sent" THEN "err" ELSE canceller[j]]
  BY Zenon DEF CompleteShutdown, ForceShutdown, Terminate, DispatchDone, storageVars
<1>2. leases' = leases \/ leases' = [j \in Jobs |-> NoLease]
  BY Zenon DEF CompleteShutdown, ForceShutdown
<1>3. LeaseDiscipline'
  <2>1. \A k \in Jobs : \/ leases'[k] = NoLease
                        \/ leases'[k] = leases[k] /\ store'[k].state = store[k].state
    BY <1>1, <1>2, ZenonT(60)
  <2> QED BY <1>1, <2>1, LeasesDropped, ZenonT(60) DEF SafetyInv
<1>4. MemoryMatchesLog'
  BY <1>1, ZenonT(60) DEF SafetyInv, MemoryMatchesLog
<1>5. TimedOutAreLeased' /\ SubmittedOnce'
  <2>1. DOMAIN cmds' = {}
    BY <1>1, SMTT(30)
  <2>2. SubmittedOnce'
    BY <2>1, Zenon DEF SubmittedOnce
  <2>3. TimedOutAreLeased'
    BY <1>1, ZenonT(60) DEF TimedOutAreLeased
  <2> QED BY <2>2, <2>3, ZenonT(60)
<1>6. client \in [Jobs -> {"idle", "permit", "sent", "ok", "err"}]
  BY ZenonT(60) DEF SafetyInv, TypeOK
<1>7. SubmitterState'
  BY <1>1, <1>6, ZenonT(60) DEF SafetyInv, SubmitterState
<1>8. CancelledForGood'
  BY <1>1, Zenon DEF SafetyInv, CancelledForGood
<1>9. TerminalKept /\ CompletedByReport
  BY <1>1, TableUntouched, ZenonT(60) DEF CompletedByReport
<1> QED BY <1>3, <1>4, <1>5, <1>7, <1>8, <1>9, ZenonT(60) DEF SafeStep, SafetyInv

\* The submit call, up to the command it sends.
LEMMA SubmitterSafe ==
    ASSUME SafetyInv, TypeOK', NEW j \in Jobs,
           AcquirePermit(j) \/ PermitRefused(j) \/ SendSubmit(j) \/ DropSubmit(j)
    PROVE  SafeStep
<1>1. /\ client[j] \in {"idle", "permit"}
      /\ UNCHANGED <<store, logged, leases, lastLease, nextLeaseEpoch, canceller,
                     timedOut, pc, replyTo>>
  BY ZenonT(60) DEF AcquirePermit, PermitRefused, SendSubmit, DropSubmit, ownVars, storageVars,
         jobVars, loopVars
<1>2. client \in [Jobs -> {"idle", "permit", "sent", "ok", "err"}]
  BY ZenonT(60) DEF SafetyInv, TypeOK
<1>3. TimedOutAreLeased'
  BY <1>1, ZenonT(60) DEF SafetyInv, TimedOutAreLeased
<1>4. store[j] = Absent
  BY <1>1, ZenonT(60) DEF SafetyInv, SubmitterState
<1>5. ASSUME NEW to \in {"permit", "err", "sent"}, client' = [client EXCEPT ![j] = to]
      PROVE  SubmitterState'
  BY <1>1, <1>2, <1>4, <1>5, ZenonT(60) DEF SafetyInv, SubmitterState
<1>6. CASE AcquirePermit(j) \/ PermitRefused(j) \/ DropSubmit(j)
  <2>1. PICK to \in {"permit", "err"} : client' = [client EXCEPT ![j] = to]
    BY <1>6, ZenonT(30) DEF AcquirePermit, PermitRefused, DropSubmit
  <2>2. cmds' = cmds
    BY <1>6, ZenonT(60) DEF AcquirePermit, PermitRefused, DropSubmit
  <2>3. SubmittedOnce'
    BY <1>1, <1>2, <2>1, <2>2, ChannelUntouched, ZenonT(60) DEF SafetyInv
  <2> QED BY <1>1, <1>3, <1>5, <2>1, <2>3, OnlySubmitters, ZenonT(60)
<1>7. CASE SendSubmit(j)
  <2> DEFINE cmd == [kind |-> "Submit", job |-> j]
  <2>1. cmds' = Append(cmds, cmd) /\ client' = [client EXCEPT ![j] = "sent"]
    BY <1>7, ZenonT(60) DEF SendSubmit
  <2>2. cmd \in Command /\ cmd.job = j
    BY ZenonT(30) DEF Command
  <2> HIDE DEF cmd
  <2>3. /\ client[cmd.job] # "sent"
        /\ client'[cmd.job] = "sent" /\ store'[cmd.job] = Absent
    BY <1>1, <1>2, <1>4, <2>1, <2>2, ZenonT(60)
  <2>4. \A k \in Jobs : client[k] = "sent" /\ store[k] = Absent =>
                           client'[k] = "sent" /\ store'[k] = Absent
    BY <1>1, <1>2, <2>1, ZenonT(60)
  <2>5. SubmittedOnce'
    BY <2>1, <2>2, <2>3, <2>4, ChannelSent, ZenonT(60) DEF SafetyInv
  <2> QED BY <1>1, <1>3, <1>5, <2>1, <2>5, OnlySubmitters, ZenonT(60)
<1> QED BY <1>6, <1>7, ZenonT(60)

\* Every step keeps the inductive invariant, the terminal jobs, and completes a
\* job only on the report of its latest lease.
LEMMA NextSafe ==
    ASSUME SafetyInv, TypeOK', [Next]_vars
    PROVE  SafeStep
<1>1. TypeOK'
  BY Zenon
<1>2. CASE CoordinatorStep
  BY <1>1, <1>2, RetrySafe, LoopSafe, TimeoutSafe, LeaseSafe, ShutdownSafe,
     RejectSubmitSafe, SubmitSafe, ReplySubmitSafe, IdleCommandSafe, CancelSafe,
     OutcomeSafe, ZenonT(60) DEF CoordinatorStep
<1>3. ASSUME UNCHANGED vars PROVE SafeStep
  <2>1. UNCHANGED <<store, logged, leases, lastLease, nextLeaseEpoch, client, replyTo,
                    canceller, cmds, timedOut, pc>>
    BY <1>3, ZenonT(60) DEF vars, storageVars, jobVars, actorVars, loopVars
  <2>2. TimedOutAreLeased'
    BY <2>1, ZenonT(60) DEF SafetyInv, TimedOutAreLeased
  <2> QED BY <1>1, <2>1, <2>2, JobsUntouched, ZenonT(60)
<1>4. CASE Stopped
  BY <1>3, <1>4, ZenonT(60) DEF Stopped
<1>5. CASE Next /\ ~CoordinatorStep /\ ~Stopped
  BY <1>1, <1>5, SubmitterSafe, RequestSafe, LeaseExpiresSafe, WorkerSafe, ClockSafe, ZenonT(60)
  DEF Next
<1> QED BY <1>2, <1>3, <1>4, <1>5, ZenonT(60)

-----------------------------------------------------------------------------
\* The start of a lifetime.

\* The recovered queues of Init are sequences of jobs.
LEMMA OrdersType ==
    ASSUME JobsCount, NEW S \in SUBSET Jobs, NEW s \in Orders(S)
    PROVE  s \in Seq(Jobs)
<1>1. Cardinality(S) \in Nat
  BY Zenon DEF JobsCount
<1>2. s \in [1 .. Cardinality(S) -> S]
  BY Zenon DEF Orders, Bijection, Injection
<1>3. s \in [1 .. Cardinality(S) -> Jobs]
  BY <1>2, ZenonT(60)
<1> QED BY <1>1, <1>3, SMTT(30)

\* What the log may hold at the start is a job table entry.
LEMMA RecoveredEntryType ==
    ASSUME NEW j \in Jobs
    PROVE  RecoveredEntry(j) \subseteq JobRecord
BY JobsAssumption, SMTT(30)
DEF RecoveredEntry, Absent, JobRecord, JobState, AttemptLimit

\* A lifetime starts well typed, empty or recovered.
LEMMA StartTypeOK ==
    ASSUME JobsCount, NEW jobs \in SUBSET Jobs, NEW epoch \in Nat \ {0},
           StartFrom(jobs, epoch)
    PROVE  TypeOK
<1>1. store \in [Jobs -> JobRecord] /\ logged \in [Jobs -> JobRecord]
  <2>1. store \in [Jobs -> UNION {RecoveredEntry(j) : j \in Jobs}] /\ logged = store
    BY Zenon DEF StartFrom
  <2> QED BY <2>1, RecoveredEntryType, SMTT(30)
<1>3. ready \in [Queues -> Seq(Jobs)]
  <2> DEFINE Waiting(q) == JobsIn(store, q, {"Queued"})
  <2>1. /\ ready \in [Queues -> UNION {Orders(Waiting(q)) : q \in Queues}]
        /\ \A q \in Queues : ready[q] \in Orders(Waiting(q))
    BY Zenon DEF StartFrom
  <2>2. \A q \in Queues : Waiting(q) \in SUBSET Jobs
    BY Zenon DEF JobsIn
  <2> HIDE DEF Waiting
  <2>3. \A q \in Queues : ready[q] \in Seq(Jobs)
    BY <2>1, <2>2, OrdersType, ZenonT(60)
  <2> QED BY <2>1, <2>3, ZenonT(60)
<1>4. retryQueue \in Seq(Jobs)
  <2> DEFINE Waiting == {j \in Jobs : store[j].state = "RetryWaiting"}
  <2>1. retryQueue \in Orders(Waiting) /\ Waiting \in SUBSET Jobs
    BY Zenon DEF StartFrom
  <2> HIDE DEF Waiting
  <2> QED BY <2>1, OrdersType, ZenonT(60)
<1>5. avail \in [Queues -> Nat]
  <2>1. /\ avail = [q \in Queues |-> Capacity[q] - Cardinality(JobsIn(store, q, Live))]
        /\ \A q \in Queues : Cardinality(JobsIn(store, q, Live)) <= Capacity[q]
    BY Zenon DEF StartFrom, ReservePermits
  <2>2. \A q \in Queues : Cardinality(JobsIn(store, q, Live)) \in Nat
    BY Zenon DEF JobsIn, JobsCount
  <2> QED BY <2>1, <2>2, CoordinatorAssumption, SMTT(30)
<1>6. stats \in [Queues -> [JobState -> Nat]]
  <2>1. stats = [q \in Queues |->
                    [s \in JobState |-> Cardinality(JobsIn(store, q, {s}))]]
    BY Zenon DEF StartFrom
  <2>2. \A q \in Queues, s \in JobState : Cardinality(JobsIn(store, q, {s})) \in Nat
    BY Zenon DEF JobsIn, JobsCount
  <2> QED BY <2>1, <2>2, ZenonT(60)
<1>7. submitted \in Nat
  BY ZenonT(60) DEF StartFrom, JobsCount
<1>8. /\ lastLease \in [Jobs -> Nat]
      /\ leases \in [Jobs -> [epoch : Nat, expired : BOOLEAN]]
      /\ nextLeaseEpoch \in Nat \ {0}
      /\ nextQueueIdx \in Queues
      /\ dueCount \in 0 .. Len(retryQueue)
  BY CoordinatorAssumption, SMTT(30) DEF StartFrom, NoLease, Queues
<1>9. worker \in [Workers -> WorkerState]
  BY Zenon DEF StartFrom, WorkerState, IdleWorker
<1>10. client \in [Jobs -> {"idle", "permit", "sent", "ok", "err"}]
  <2>1. client = [j \in Jobs |-> IF store[j] = Absent THEN "idle" ELSE "ok"]
    BY Zenon DEF StartFrom
  <2> QED BY <2>1, Zenon
<1>11. /\ canceller \in [Jobs -> {"idle", "sent", "ok", "err"}]
       /\ shutter \in {"idle", "sent", "held", "replied"}
       /\ parked \in Seq(Workers)
       /\ permits \subseteq Jobs
       /\ timedOut \subseteq Jobs
       /\ replyTo \in Jobs \cup {None}
       /\ deadline \in {"none", "set", "elapsed"}
       /\ pc \in {"loop", "work", "select", "submit", "done"}
  <2>1. /\ canceller = [j \in Jobs |-> "idle"]
        /\ shutter = "idle" /\ parked = <<>> /\ permits = {} /\ timedOut = {}
        /\ replyTo = None /\ deadline = "none" /\ pc = "loop"
    BY Zenon DEF StartFrom
  <2> QED BY <2>1, SMTT(30)
<1>13. shuttingDown \in BOOLEAN
  <2>1. shuttingDown = FALSE
    BY ZenonT(60) DEF StartFrom
  <2> QED BY <2>1, Zenon
<1>12. cmds \in Seq(Command) /\ Len(cmds) <= ChannelCapacity
  BY CoordinatorAssumption, SMTT(30) DEF StartFrom
<1> QED BY <1>1, <1>3, <1>4, <1>5, <1>6, <1>7, <1>8, <1>9, <1>10, <1>11, <1>12,
   <1>13, Zenon
   DEF TypeOK

\* The inductive invariant holds at the start: no lease is out, and memory was
\* rebuilt from the log.
LEMMA StartSafe ==
    ASSUME JobsCount, NEW jobs \in SUBSET Jobs, NEW epoch \in Nat \ {0},
           StartFrom(jobs, epoch)
    PROVE  SafetyInv
<1>1. TypeOK
  BY StartTypeOK, Zenon
<1>2. /\ logged = store /\ timedOut = {} /\ cmds = <<>> /\ pc = "loop"
      /\ leases = [j \in Jobs |-> NoLease]
      /\ client = [j \in Jobs |-> IF store[j] = Absent THEN "idle" ELSE "ok"]
      /\ canceller = [j \in Jobs |-> "idle"]
  BY Zenon DEF StartFrom
<1>3. /\ \A j \in Jobs : leases[j] = NoLease /\ canceller[j] = "idle"
      /\ \A j \in Jobs : client[j] = IF store[j] = Absent THEN "idle" ELSE "ok"
      /\ DOMAIN cmds = {}
  BY <1>2, SMTT(30)
<1>4. MemoryMatchesLog
  BY <1>2, Zenon DEF MemoryMatchesLog
<1>5. LeaseDiscipline /\ TimedOutAreLeased
  BY <1>2, <1>3, ZenonT(60) DEF LeaseDiscipline, TimedOutAreLeased
<1>6. SubmittedOnce
  BY <1>3, Zenon DEF SubmittedOnce
<1>7. SubmitterState
  <2>1. ASSUME NEW j \in Jobs
        PROVE  /\ client[j] \in {"idle", "permit", "err"} => store[j] = Absent
               /\ client[j] = "ok" => store[j] # Absent
               /\ client[j] # "sent"
    BY <1>3, Zenon
  <2> QED BY <1>2, <2>1, ZenonT(60) DEF SubmitterState
<1>8. CancelledForGood
  BY <1>3, Zenon DEF CancelledForGood
<1> QED BY <1>1, <1>4, <1>5, <1>6, <1>7, <1>8, ZenonT(60) DEF SafetyInv

-----------------------------------------------------------------------------
\* JobLog's copies of JobStore's operators are JobStore's.
LEMMA SameJobStore ==
    /\ Promise!JobRecord = JobRecord
    /\ Promise!Live = Live
    /\ \A type, id, lease, attempt :
          Promise!Record(type, id, lease, attempt) = Record(type, id, lease, attempt)
    /\ \A st, r : Promise!ApplyRecordForRecovery(st, r) = ApplyRecordForRecovery(st, r)
<1>1. /\ Promise!JobRecord = JobRecord
      /\ Promise!Live = Live
  BY Zenon DEF Promise!JobRecord, Promise!JobState, Promise!Live, Promise!Terminal, JobRecord,
         JobState, Live, Terminal
<1>2. ASSUME NEW type, NEW id, NEW lease, NEW attempt
      PROVE  Promise!Record(type, id, lease, attempt) = Record(type, id, lease, attempt)
  BY Zenon DEF Promise!Record, Record
<1>3. ASSUME NEW st, NEW r
      PROVE  Promise!ApplyRecordForRecovery(st, r) = ApplyRecordForRecovery(st, r)
  BY Zenon DEF Promise!ApplyRecordForRecovery, Promise!ApplyRecord, Promise!Entry,
         Promise!TargetState, ApplyRecordForRecovery, ApplyRecord, Entry, TargetState
<1> QED BY <1>1, <1>2, <1>3, ZenonT(60)

\* A lease: the job is Queued in memory, so Queued or RetryWaiting in the log,
\* with the same attempts.
LEMMA GrantLeaseLogged ==
    ASSUME TypeOK, MemoryMatchesLog,
           NEW q \in Queues, NEW w \in Workers, GrantLease(q, w)
    PROVE  Promise!Next
<1> DEFINE j == Head(ready[q])
           r == Record("JobLeased", j, nextLeaseEpoch, logged[j].attempts + 1)
<1>1. j \in Jobs /\ store[j] \in JobRecord /\ logged[j] \in JobRecord
  BY GrantLeaseType, ZenonT(60) DEF TypeOK
<1>2. /\ logged' = ApplyRecordForRecovery(logged,
                       Record("JobLeased", j, nextLeaseEpoch, store[j].attempts + 1))
      /\ lastLease' = [lastLease EXCEPT ![j] = nextLeaseEpoch]
      /\ nextLeaseEpoch' = nextLeaseEpoch + 1
      /\ store[j].state = "Queued"
  BY Zenon DEF GrantLease, EpochAfter, Leaseable
<1> HIDE DEF j
<1>3. /\ logged[j].attempts = store[j].attempts
      /\ logged[j].state \in {"Queued", "RetryWaiting"}
  <2>1. \/ store[j] = logged[j]
        \/ /\ store[j] = [logged[j] EXCEPT !.state = "Queued"]
           /\ logged[j].state = "RetryWaiting"
    BY <1>1, Zenon DEF MemoryMatchesLog
  <2>2. CASE store[j] = logged[j]
    BY <1>2, <2>2, ZenonT(60)
  <2>3. CASE /\ store[j] = [logged[j] EXCEPT !.state = "Queued"]
             /\ logged[j].state = "RetryWaiting"
    BY <1>1, <2>3, ZenonT(60) DEF JobRecord
  <2> QED BY <2>1, <2>2, <2>3, ZenonT(60)
<1>4. r \in Promise!Persistable
  BY <1>1, <1>3, SameJobStore, ZenonT(60) DEF Promise!Persistable, Promise!Allowed
<1>5. r.type = "JobLeased" /\ r.id = j /\ r.lease = nextLeaseEpoch
  BY Zenon DEF Record
<1>6. logged' = Promise!ApplyRecordForRecovery(logged, r)
  BY <1>2, <1>3, SameJobStore, ZenonT(60)
<1> HIDE DEF r
<1>7. Promise!Log(r)
  BY <1>2, <1>5, <1>6, ZenonT(60) DEF Promise!Log
<1> QED BY <1>4, <1>7, ZenonT(60) DEF Promise!Next

\* A lease that is settled: its job is Running in the log too, the epoch is the
\* one of its last JobLeased, and a retry has an attempt left.
LEMMA SettleLogged ==
    ASSUME TypeOK, MemoryMatchesLog, LeaseDiscipline,
           NEW j \in Jobs, NEW ok \in BOOLEAN,
           NEW type \in {"JobRetryScheduled", "JobCompleted", "JobDead"},
           type = "JobRetryScheduled" => store[j].attempts < MaxAttempts[j],
           leases[j] # NoLease, Settle(j, type, ok)
    PROVE  Promise!Next \/ UNCHANGED <<logged, lastLease, nextLeaseEpoch>>
<1> DEFINE r == Record(type, j, lastLease[j], logged[j].attempts)
<1>1. /\ logged' = IF ok THEN ApplyRecordForRecovery(logged,
                                  Record(type, j, leases[j].epoch, store[j].attempts))
                         ELSE logged
      /\ UNCHANGED <<lastLease, nextLeaseEpoch>>
  BY Zenon DEF Settle
<1>2. store[j].state = "Running" /\ leases[j].epoch = lastLease[j]
  BY Zenon DEF LeaseDiscipline
<1>3. logged[j] = store[j]
  <2>1. logged[j] \in JobRecord
    BY ZenonT(60) DEF TypeOK
  <2>2. \/ store[j] = logged[j]
        \/ store[j] = [logged[j] EXCEPT !.state = "Queued"]
    BY Zenon DEF MemoryMatchesLog
  <2>3. ASSUME store[j] = [logged[j] EXCEPT !.state = "Queued"] PROVE FALSE
    BY <1>2, <2>1, <2>3, ZenonT(60) DEF JobRecord
  <2> QED BY <2>2, <2>3, ZenonT(60)
<1>4. CASE ~ok
  BY <1>1, <1>4, ZenonT(60)
<1>5. CASE ok
  <2>1. r = Promise!Record(type, j, lastLease[j], logged[j].attempts)
    BY SameJobStore, Zenon
  <2>2. logged[j].state = "Running"
    BY <1>2, <1>3, ZenonT(60)
  <2>3. r.type = type
    BY Zenon DEF Record
  <2>4. logged' = Promise!ApplyRecordForRecovery(logged, r)
    BY <1>1, <1>2, <1>3, <1>5, SameJobStore, ZenonT(60)
  <2> HIDE DEF r
  <2>5. r \in Promise!Persistable
    BY <1>3, <2>1, <2>2, ZenonT(60) DEF Promise!Persistable, Promise!Allowed
  <2>6. Promise!Log(r)
    BY <1>1, <2>3, <2>4, ZenonT(60) DEF Promise!Log
  <2> QED BY <2>5, <2>6, ZenonT(60) DEF Promise!Next
<1> QED BY <1>4, <1>5, ZenonT(60)

\* An accepted Submit: the job is not in the log yet.
LEMMA SubmitLogged == SafetyInv /\ AcceptSubmit => Promise!Next
<1> SUFFICES ASSUME SafetyInv, AcceptSubmit PROVE Promise!Next
  BY Zenon
<1> DEFINE j == Head(cmds).job
           r == Record("JobSubmitted", j, 0, 0)
<1>1. /\ logged' = ApplyRecordForRecovery(logged, r)
      /\ UNCHANGED <<lastLease, nextLeaseEpoch>>
  BY ZenonT(60) DEF AcceptSubmit
<1>2. j \in Jobs /\ store[j] = Absent
  BY HeadSubmit, ZenonT(60) DEF AcceptSubmit
<1> HIDE DEF j
<1>3. logged[j].state = "Absent"
  <2>1. logged[j] \in JobRecord
    BY <1>2, ZenonT(60) DEF SafetyInv, TypeOK
  <2>2. \/ store[j] = logged[j]
        \/ store[j] = [logged[j] EXCEPT !.state = "Queued"]
    BY <1>2, ZenonT(60) DEF SafetyInv, MemoryMatchesLog
  <2>3. ASSUME store[j] = [logged[j] EXCEPT !.state = "Queued"] PROVE FALSE
    BY <1>2, <2>1, <2>3, SMTT(30) DEF JobRecord, Absent
  <2> QED BY <1>2, <2>2, <2>3, SMTT(30) DEF Absent
<1>4. r \in Promise!Persistable
  BY <1>2, <1>3, SameJobStore, ZenonT(60) DEF Promise!Persistable, Promise!Allowed
<1>5. r.type = "JobSubmitted"
  BY Zenon DEF Record
<1> HIDE DEF r
<1>6. Promise!Log(r)
  BY <1>1, <1>5, SameJobStore, ZenonT(60) DEF Promise!Log
<1> QED BY <1>4, <1>6, ZenonT(60) DEF Promise!Next

\* An accepted Cancel: the job is live, in memory and in the log.
LEMMA CancelLogged == SafetyInv /\ AcceptCancel => Promise!Next
<1> SUFFICES ASSUME SafetyInv, AcceptCancel PROVE Promise!Next
  BY Zenon
<1> DEFINE j == Head(cmds).job
           r == Record("JobCancelled", j, 0, 0)
<1>1. /\ Receive("Cancel") /\ store[j].state \in Live
      /\ logged' = ApplyRecordForRecovery(logged, r)
      /\ UNCHANGED <<lastLease, nextLeaseEpoch>>
  BY Zenon DEF AcceptCancel
<1>2. j \in Jobs
  BY <1>1, ReceiveType, CommandFields, ZenonT(60) DEF SafetyInv
<1> HIDE DEF j
<1>3. logged[j].state \in Live
  <2>1. store[j] = logged[j] \/ logged[j].state = "RetryWaiting"
    BY <1>2, Zenon DEF SafetyInv, MemoryMatchesLog
  <2> QED BY <1>1, <2>1, ZenonT(60) DEF Live, JobState, Terminal
<1>4. r \in Promise!Persistable
  BY <1>2, <1>3, SameJobStore, ZenonT(60) DEF Promise!Persistable, Promise!Allowed
<1>5. r.type = "JobCancelled"
  BY Zenon DEF Record
<1> HIDE DEF r
<1>6. Promise!Log(r)
  BY <1>1, <1>5, SameJobStore, ZenonT(60) DEF Promise!Log
<1> QED BY <1>4, <1>6, Zenon DEF Promise!Next

\* Dispatch, to a parked worker or to one that asks.
LEMMA DispatchLogged == SafetyInv /\ (DispatchParked \/ LeaseToFetcher) => Promise!Next
<1> SUFFICES ASSUME SafetyInv, DispatchParked \/ LeaseToFetcher PROVE Promise!Next
  BY Zenon
<1>1. PICK q \in Queues, w \in Workers : GrantLease(q, w)
  BY LeaseGranted, Zenon
<1> QED BY <1>1, GrantLeaseLogged, ZenonT(60) DEF SafetyInv

\* A lease that timed out or was reported on.
LEMMA OutcomeLogged ==
    SafetyInv /\ (SettleTimeout \/ CurrentOutcome) =>
        Promise!Next \/ UNCHANGED <<logged, lastLease, nextLeaseEpoch>>
<1> DEFINE Goal == Promise!Next \/ UNCHANGED <<logged, lastLease, nextLeaseEpoch>>
<1>1. ASSUME SafetyInv, NEW j \in Jobs, NEW ok \in PersistOutcome, NEW type,
             leases[j] # NoLease, Settle(j, type, ok),
             type \in {"JobCompleted", "JobDead", RetryOrDead(j)}
      PROVE  Goal
  <2>1. store[j].attempts \in Nat /\ MaxAttempts[j] \in Nat
    BY <1>1, JobsAssumption, ZenonT(60) DEF SafetyInv, TypeOK, JobRecord
  <2>2. /\ type \in {"JobRetryScheduled", "JobCompleted", "JobDead"}
        /\ type = "JobRetryScheduled" => store[j].attempts < MaxAttempts[j]
    BY <1>1, <2>1, SMTT(30) DEF RetryOrDead
  <2>3. ok \in BOOLEAN
    BY <1>1, Zenon DEF PersistOutcome
  <2> QED BY <1>1, <2>2, <2>3, SettleLogged, ZenonT(60) DEF SafetyInv
<1>2. ASSUME SafetyInv, SettleTimeout PROVE Goal
  <2>1. PICK j \in timedOut, ok \in PersistOutcome : Settle(j, RetryOrDead(j), ok)
    BY <1>2, ZenonT(60) DEF SettleTimeout
  <2>2. j \in Jobs /\ leases[j] # NoLease
    BY <1>2, <2>1, ZenonT(60) DEF SafetyInv, TypeOK, TimedOutAreLeased
  <2> HIDE DEF Goal
  <2> QED BY <1>1, <1>2, <2>1, <2>2, ZenonT(60)
<1>3. ASSUME SafetyInv, CurrentOutcome PROVE Goal
  <2> DEFINE work == Head(cmds).work
  <2>1. /\ Receive("WorkerOutcome") /\ leases[work.job].epoch = work.lease
        /\ \E ok \in PersistOutcome :
              Settle(work.job, OutcomeRecord(work.job, Head(cmds).outcome), ok)
    BY <1>3, ZenonT(60) DEF CurrentOutcome, IsCurrent
  <2>2. work \in LeasedJob
    BY <1>3, <2>1, ReceiveType, CommandFields, ZenonT(60) DEF SafetyInv
  <2>3. OutcomeRecord(work.job, Head(cmds).outcome)
            \in {"JobCompleted", "JobDead", RetryOrDead(work.job)}
    BY Zenon DEF OutcomeRecord
  <2> HIDE DEF work, Goal
  <2>4. work.job \in Jobs /\ leases[work.job] # NoLease
    BY <2>1, <2>2, SMTT(30) DEF LeasedJob, NoLease
  <2> QED BY <1>1, <1>3, <2>1, <2>3, <2>4, ZenonT(60)
<1> QED BY <1>2, <1>3, ZenonT(60)

\* All other steps write nothing.
LEMMA OthersLogNothing ==
    [Next]_vars => \/ AcceptSubmit \/ AcceptCancel
                   \/ DispatchParked \/ LeaseToFetcher
                   \/ SettleTimeout \/ CurrentOutcome
                   \/ UNCHANGED <<logged, lastLease, nextLeaseEpoch>>
<1> DEFINE Quiet == UNCHANGED <<logged, lastLease, nextLeaseEpoch>>
<1>1. ProcessDueRetry \/ CollectTimeouts \/ EnterSelect \/ WakeOnDeadline
          \/ CompleteShutdown \/ ForceShutdown => Quiet
  BY Zenon DEF ProcessDueRetry, CollectTimeouts, EnterSelect, WakeOnDeadline, CompleteShutdown,
         ForceShutdown, Terminate, storageVars, jobVars
<1>2. RejectSubmit \/ ReplySubmit \/ RejectCancel \/ ParkFetcher \/ StaleOutcome
          \/ StartShutdown => Quiet
  BY Zenon DEF RejectSubmit, ReplySubmit, RejectCancel, ParkFetcher, StaleOutcome,
         StartShutdown, storageVars, jobVars
<1>3. ASSUME NEW j \in Jobs
      PROVE  AcquirePermit(j) \/ PermitRefused(j) \/ SendSubmit(j) \/ DropSubmit(j)
                 \/ SendCancel(j) \/ LeaseExpires(j) => Quiet
  BY Zenon DEF AcquirePermit, PermitRefused, SendSubmit, DropSubmit, SendCancel, LeaseExpires,
         ownVars, storageVars, jobVars
<1>4. ASSUME NEW w \in Workers, NEW o \in HandlerOutcomes
      PROVE  HandlerEnds(w, o) => Quiet
  BY Zenon DEF HandlerEnds, workerFrame, ownVars, storageVars, jobVars
<1>5. ASSUME NEW w \in Workers PROVE WorkerStep(w) => Quiet
  BY Zenon DEF WorkerStep, WorkerCheckToken, WorkerFetch, WorkerStop, WorkerStart,
         HandlerAborted, WorkerReport, workerFrame, ownVars, storageVars, jobVars
<1>6. SendShutdown \/ RetryBecomesDue \/ DeadlineElapses \/ Stopped \/ UNCHANGED vars
          => Quiet
  BY Zenon DEF SendShutdown, RetryBecomesDue, DeadlineElapses, Stopped, vars, ownVars,
         storageVars, jobVars
<1> HIDE DEF Quiet
<1>7. [Next]_vars => \/ AcceptSubmit \/ AcceptCancel
                     \/ DispatchParked \/ LeaseToFetcher
                     \/ SettleTimeout \/ CurrentOutcome
                     \/ Quiet
  BY <1>1, <1>2, <1>3, <1>4, <1>5, <1>6, ZenonT(60) DEF Next, CoordinatorStep
<1> QED BY <1>7, ZenonT(60) DEF Quiet

-----------------------------------------------------------------------------
\* What one record can make of the entry of its job.
NextEntry(j, e) ==
    LET old == logged[j]
    IN \/ old.state = "Absent" /\ e = [state |-> "Queued", attempts |-> 0]
       \/ /\ old.state \in {"Queued", "RetryWaiting"}
          /\ e = [state |-> "Running", attempts |-> old.attempts + 1]
       \/ /\ old.state = "Running"
          /\ e \in [state : {"Completed", "Dead"}, attempts : {old.attempts}]
       \/ /\ old.state = "Running"
          /\ old.attempts < MaxAttempts[j]
          /\ e = [state |-> "RetryWaiting", attempts |-> old.attempts]
       \/ /\ old.state \in Live
          /\ e = [state |-> "Cancelled", attempts |-> old.attempts]

\* JobLog's steps, without the records: one job has a new entry, and a lease has
\* the next epoch.
LEMMA OneEntry ==
    ASSUME TypeOK, Promise!Next
    PROVE  \E j \in Jobs : \E e : 
              /\ NextEntry(j, e)
              /\ logged' = [logged EXCEPT ![j] = e]
              /\ nextLeaseEpoch' = IF e.state = "Running" THEN nextLeaseEpoch + 1
                                   ELSE nextLeaseEpoch
<1>1. PICK r \in Promise!Persistable : Promise!Log(r)
  BY ZenonT(60) DEF Promise!Next
<1>2. logged \in [Jobs -> JobRecord]
  BY ZenonT(60) DEF TypeOK
<1> DEFINE j == r.id
           e == Entry(logged[j], r)
<1>3. /\ logged' = IF r.type = "JobSubmitted" \/ logged[j].state # "Absent"
                   THEN [logged EXCEPT ![j] = e] ELSE logged
      /\ nextLeaseEpoch' = IF r.type = "JobLeased" THEN nextLeaseEpoch + 1
                           ELSE nextLeaseEpoch
  BY <1>1, SameJobStore, ZenonT(60) DEF Promise!Log, ApplyRecordForRecovery, ApplyRecord
<1>4. /\ j \in Jobs
      /\ \/ /\ r.type = "JobSubmitted" /\ logged[j].state = "Absent"
         \/ /\ r.type = "JobLeased" /\ logged[j].state \in {"Queued", "RetryWaiting"}
            /\ r.attempt = logged[j].attempts + 1
         \/ /\ r.type \in {"JobCompleted", "JobDead"} /\ logged[j].state = "Running"
         \/ /\ r.type = "JobRetryScheduled" /\ logged[j].state = "Running"
            /\ logged[j].attempts < MaxAttempts[j]
         \/ /\ r.type = "JobCancelled" /\ logged[j].state \in Live
  BY <1>1, SameJobStore, SMTT(30)
  DEF Promise!Persistable, Promise!Allowed, Record
<1>5. /\ e.state = TargetState[r.type]
      /\ e = [state |-> TargetState[r.type],
              attempts |-> IF r.type = "JobSubmitted" THEN 0
                           ELSE IF r.type = "JobLeased" THEN r.attempt
                           ELSE logged[j].attempts]
  BY <1>4, Zenon DEF Entry
<1> HIDE DEF j, e
<1>6. logged' = [logged EXCEPT ![j] = e]
  BY <1>3, <1>4, ZenonT(60) DEF Live, JobState, Terminal
<1>7. NextEntry(j, e)
  BY <1>4, <1>5, SMTT(30) DEF NextEntry, TargetState
<1>8. r.type = "JobLeased" <=> e.state = "Running"
  BY <1>4, <1>5, SMTT(30) DEF TargetState
<1> QED BY <1>3, <1>4, <1>6, <1>7, <1>8, ZenonT(60)

\* A step of a lifetime writes one such entry, or nothing.
LEMMA StepEntry ==
    ASSUME SafetyInv, [Next]_vars
    PROVE  \/ UNCHANGED <<logged, nextLeaseEpoch>>
           \/ \E j \in Jobs : \E e :
                 /\ NextEntry(j, e)
                 /\ logged' = [logged EXCEPT ![j] = e]
                 /\ nextLeaseEpoch' = IF e.state = "Running" THEN nextLeaseEpoch + 1
                                      ELSE nextLeaseEpoch
<1>1. Promise!Next \/ UNCHANGED <<logged, lastLease, nextLeaseEpoch>>
  BY OthersLogNothing, SubmitLogged, CancelLogged, DispatchLogged, OutcomeLogged, ZenonT(60)
<1> QED BY <1>1, OneEntry, ZenonT(60) DEF SafetyInv

-----------------------------------------------------------------------------
\* The shape of the log.

\* The limit is max_attempts, and 1 where that is 0.
LEMMA Limits ==
    ASSUME NEW j \in Jobs
    PROVE  /\ MaxAttempts[j] \in Nat /\ AttemptLimit(j) \in Nat
           /\ 1 <= AttemptLimit(j) /\ MaxAttempts[j] <= AttemptLimit(j)
           /\ \A n \in Nat : n < MaxAttempts[j] => n + 1 <= AttemptLimit(j)
BY JobsAssumption, SMTT(30) DEF AttemptLimit

\* An entry of the log's shape, by its state.
LEMMA ShapeByState ==
    ASSUME LogShape, NEW j \in Jobs
    PROVE  /\ logged[j].attempts \in 0 .. AttemptLimit(j)
           /\ logged[j].state \in {"Absent", "Queued"} => logged[j].attempts = 0
           /\ logged[j].state = "Absent" => logged[j] = Absent
           /\ logged[j].state = "Running" => logged[j].attempts \in 1 .. AttemptLimit(j)
           /\ logged[j].state = "RetryWaiting" =>
                 logged[j].attempts \in 1 .. MaxAttempts[j] - 1
<1>1. CASE logged[j] \in [state : {"Running"}, attempts : 1 .. AttemptLimit(j)]
  BY <1>1, Limits, SMTT(30)
<1>2. CASE logged[j] \in RecoveredEntry(j)
  BY <1>2, Limits, SMTT(30) DEF RecoveredEntry, Absent
<1> QED BY <1>1, <1>2, ZenonT(60) DEF LogShape

\* A record keeps the shape.
LEMMA EntryShape ==
    ASSUME LogShape, NEW j \in Jobs, NEW e, NextEntry(j, e)
    PROVE  \/ e \in RecoveredEntry(j)
           \/ e \in [state : {"Running"}, attempts : 1 .. AttemptLimit(j)]
<1> DEFINE n == logged[j].attempts
<1>1. /\ n \in 0 .. AttemptLimit(j)
      /\ logged[j].state = "Queued" => n = 0
      /\ logged[j].state = "Running" => n \in 1 .. AttemptLimit(j)
      /\ logged[j].state = "RetryWaiting" => n \in 1 .. MaxAttempts[j] - 1
  BY ShapeByState, ZenonT(60)
<1>2. /\ MaxAttempts[j] \in Nat /\ AttemptLimit(j) \in Nat
      /\ 1 <= AttemptLimit(j) /\ MaxAttempts[j] <= AttemptLimit(j)
  BY Limits, ZenonT(60)
<1>3. CASE e = [state |-> "Queued", attempts |-> 0]
  BY <1>3, ZenonT(60) DEF RecoveredEntry
<1>4. CASE /\ logged[j].state \in {"Queued", "RetryWaiting"}
           /\ e = [state |-> "Running", attempts |-> n + 1]
  <2>1. n + 1 \in 1 .. AttemptLimit(j)
    BY <1>1, <1>2, <1>4, SMTT(30)
  <2> HIDE DEF n
  <2> QED BY <1>4, <2>1, ZenonT(60)
<1>5. CASE /\ logged[j].state = "Running"
           /\ e \in [state : {"Completed", "Dead"}, attempts : {n}]
  BY <1>1, <1>5, ZenonT(60) DEF RecoveredEntry
<1>6. CASE /\ logged[j].state = "Running"
           /\ n < MaxAttempts[j]
           /\ e = [state |-> "RetryWaiting", attempts |-> n]
  <2>1. n \in 1 .. MaxAttempts[j] - 1
    BY <1>1, <1>2, <1>6, SMTT(30)
  <2> HIDE DEF n
  <2> QED BY <1>6, <2>1, ZenonT(60) DEF RecoveredEntry
<1>7. CASE e = [state |-> "Cancelled", attempts |-> n]
  BY <1>1, <1>7, ZenonT(60) DEF RecoveredEntry
<1> QED BY <1>3, <1>4, <1>5, <1>6, <1>7, ZenonT(60) DEF NextEntry

\* So does a step of a lifetime.
LEMMA RunShape == SafetyInv /\ LogShape /\ [Next]_vars => LogShape'
<1> SUFFICES ASSUME SafetyInv, LogShape, [Next]_vars PROVE LogShape'
  BY Zenon
<1>1. CASE UNCHANGED logged
  BY <1>1, Zenon DEF LogShape
<1>2. ASSUME NEW j \in Jobs, NEW e, NextEntry(j, e), logged' = [logged EXCEPT ![j] = e]
      PROVE  LogShape'
  <2>1. logged \in [Jobs -> JobRecord]
    BY ZenonT(60) DEF SafetyInv, TypeOK
  <2>2. logged'[j] = e /\ \A k \in Jobs \ {j} : logged'[k] = logged[k]
    BY <1>2, <2>1, ZenonT(60)
  <2>3. \/ e \in RecoveredEntry(j)
        \/ e \in [state : {"Running"}, attempts : 1 .. AttemptLimit(j)]
    BY <1>2, EntryShape, ZenonT(60)
  <2> QED BY <2>2, <2>3, ZenonT(60) DEF LogShape
<1> QED BY <1>1, <1>2, StepEntry, ZenonT(60)

\* Reconciliation ends every execution and leaves what recovery may find.
LEMMA ReconciledShape ==
    ASSUME LogShape, NEW j \in Jobs
    PROVE  /\ Reconciled(logged)[j] \in RecoveredEntry(j)
           /\ Reconciled(logged)[j].attempts = logged[j].attempts
           /\ Reconciled(logged)[j] = Absent <=> logged[j] = Absent
           /\ logged[j].state \in Terminal => Reconciled(logged)[j] = logged[j]
           /\ Reconciled(logged)[j].state \in Live => logged[j].state \in Live
<1>1. CASE logged[j].state = "Running"
  <2> DEFINE n == logged[j].attempts
             s == IF n < MaxAttempts[j] THEN "RetryWaiting" ELSE "Dead"
  <2>1. logged[j] = [state |-> "Running", attempts |-> n]
    BY <1>1, SMTT(30) DEF LogShape, RecoveredEntry, Absent
  <2>2. n \in 1 .. AttemptLimit(j) /\ MaxAttempts[j] \in Nat
    BY <1>1, ShapeByState, Limits, ZenonT(60)
  <2>3. Reconciled(logged)[j] = [state |-> s, attempts |-> n]
    BY <1>1, <2>1, ZenonT(60) DEF Reconciled
  <2>4. [state |-> s, attempts |-> n] \in RecoveredEntry(j)
    <3> HIDE DEF n
    <3>1. CASE n < MaxAttempts[j]
      <4>1. n \in 1 .. MaxAttempts[j] - 1
        BY <2>2, <3>1, Limits, SMTT(30)
      <4> QED BY <3>1, <4>1, ZenonT(60) DEF RecoveredEntry
    <3>2. CASE ~(n < MaxAttempts[j])
      BY <2>2, <3>2, ZenonT(60) DEF RecoveredEntry
    <3> QED BY <3>1, <3>2, ZenonT(60)
  <2> QED BY <1>1, <2>1, <2>3, <2>4, SMTT(30) DEF Absent, Terminal, Live, JobState
<1>2. CASE logged[j].state # "Running"
  <2>1. Reconciled(logged)[j] = logged[j]
    BY <1>2, ZenonT(60) DEF Reconciled
  <2> QED BY <1>2, <2>1, ZenonT(60) DEF LogShape
<1> QED BY <1>1, <1>2, ZenonT(60)

-----------------------------------------------------------------------------
\* The next lifetime.

\* rebuild_queues puts every Queued job into its queue once.
LEMMA QueuedJobsAreOrders ==
    ASSUME NEW table, NEW q \in Queues
    PROVE  QueuedJobs(table, q) \subseteq Orders(JobsIn(table, q, {"Queued"}))
BY Zenon DEF QueuedJobs

\* What recovery hands over is what QueueRuntime starts from.
LEMMA RestartStarts ==
    ASSUME LogShape, Restart
    PROVE  StartFrom(Jobs, nextLeaseEpoch)'
<1>1. logged' = Reconciled(logged) /\ store' = logged'
  BY Zenon DEF Restart
<1>2. logged' \in {st \in [Jobs -> UNION {RecoveredEntry(j) : j \in Jobs}] :
                     \A j \in Jobs : st[j] \in IF j \in Jobs THEN RecoveredEntry(j)
                                                ELSE {Absent}}
  <2>1. \A j \in Jobs : logged'[j] \in RecoveredEntry(j)
    BY <1>1, ReconciledShape, ZenonT(60)
  <2>2. logged' = [j \in Jobs |-> logged'[j]]
    BY <1>1, ZenonT(60) DEF Reconciled
  <2>3. logged' \in [Jobs -> UNION {RecoveredEntry(j) : j \in Jobs}]
    BY <2>1, <2>2, ZenonT(60)
  <2> QED BY <2>1, <2>3, ZenonT(60)
<1>3. \A q \in Queues : Cardinality(JobsIn(logged', q, Live)) <= Capacity[q]
  BY <1>1, Zenon DEF Restart, ValidateRecoveredState
<1>4. ready' \in {rd \in [Queues -> UNION {Orders(JobsIn(logged', q, {"Queued"})) :
                                         q \in Queues}] :
                    \A q \in Queues : rd[q] \in Orders(JobsIn(logged', q, {"Queued"}))}
  <2>1. /\ ready' \in [Queues -> UNION {QueuedJobs(logged', q) : q \in Queues}]
        /\ \A q \in Queues : ready'[q] \in QueuedJobs(logged', q)
    BY Zenon DEF Restart
  <2>2. \A q \in Queues : ready'[q] \in Orders(JobsIn(logged', q, {"Queued"}))
    BY <2>1, QueuedJobsAreOrders, ZenonT(60)
  <2> QED BY <2>1, <2>2, ZenonT(60)
<1>5. client' = [j \in Jobs |-> IF logged'[j] = Absent THEN "idle" ELSE "ok"]
  <2>1. \A j \in Jobs : logged'[j] = Absent <=> logged[j] = Absent
    BY <1>1, ReconciledShape, Zenon
  <2> QED BY <2>1, Zenon DEF Restart
<1>6. /\ retryQueue' \in Orders({j \in Jobs : logged'[j].state = "RetryWaiting"})
      /\ dueCount' \in 0 .. Len(retryQueue')
      /\ lastLease' = [j \in Jobs |-> 0]
      /\ avail' = ReservePermits(logged')
      /\ stats' = [q \in Queues |->
                     [s \in JobState |-> Cardinality(JobsIn(logged', q, {s}))]]
      /\ submitted' = Cardinality({j \in Jobs : logged'[j] # Absent})
      /\ permits' = {} /\ nextQueueIdx' = 0
      /\ leases' = [j \in Jobs |-> NoLease]
      /\ parked' = <<>> /\ shuttingDown' = FALSE /\ deadline' = "none"
      /\ pc' = "loop" /\ timedOut' = {} /\ replyTo' = None /\ cmds' = <<>>
      /\ worker' = [w \in Workers |-> IdleWorker]
      /\ canceller' = [j \in Jobs |-> "idle"] /\ shutter' = "idle"
  BY Zenon DEF Restart
<1> QED BY <1>1, <1>2, <1>3, <1>4, <1>5, <1>6, ZenonT(60) DEF StartFrom

-----------------------------------------------------------------------------
\* Executions.

\* The executions the log counts.
LEMMA ExecutionsHave ==
    \A x : x \in Executions <=>
              \E j \in Jobs : \E n \in 1 .. logged[j].attempts : x = <<j, n>>
BY SMTT(30) DEF Executions

\* Nothing is executed while no job has a new attempt.
LEMMA SameExecutions ==
    ASSUME \A j \in Jobs : logged'[j].attempts = logged[j].attempts
    PROVE  Executions' = Executions
BY Zenon DEF Executions

\* A lease adds one execution.
LEMMA OneExecution ==
    ASSUME TypeOK, NEW j \in Jobs,
           logged'[j].attempts = logged[j].attempts + 1,
           \A k \in Jobs \ {j} : logged'[k].attempts = logged[k].attempts
    PROVE  /\ Executions' = Executions \cup {<<j, logged[j].attempts + 1>>}
           /\ <<j, logged[j].attempts + 1>> \notin Executions
<1> DEFINE n == logged[j].attempts
           x == <<j, n + 1>>
<1>1. n \in Nat /\ \A k \in Jobs : logged[k].attempts \in Nat
  BY ZenonT(60) DEF TypeOK, JobRecord
<1>2. 1 .. n + 1 = (1 .. n) \cup {n + 1} /\ n + 1 \notin 1 .. n
  BY <1>1, SMTT(30)
<1>3. \A y : y \in Executions' <=>
               \E k \in Jobs : \E m \in 1 .. logged'[k].attempts : y = <<k, m>>
  BY SMTT(30) DEF Executions
<1>4. ASSUME NEW y PROVE y \in Executions' <=> y \in Executions \/ y = x
  <2>1. ASSUME NEW k \in Jobs, k # j, NEW m
        PROVE  m \in 1 .. logged'[k].attempts <=> m \in 1 .. logged[k].attempts
    BY <2>1, ZenonT(60)
  <2>2. ASSUME NEW m
        PROVE  m \in 1 .. logged'[j].attempts <=> m \in 1 .. n \/ m = n + 1
    BY <1>2, ZenonT(60)
  <2> HIDE DEF n
  <2>3. \A k \in Jobs : \A m :
           m \in 1 .. logged'[k].attempts <=>
               m \in 1 .. logged[k].attempts \/ (k = j /\ m = n + 1)
    BY <2>1, <2>2, Zenon DEF n
  <2> QED BY <1>3, <2>3, ExecutionsHave, ZenonT(60)
<1>5. x \notin Executions
  BY <1>2, ExecutionsHave, SMTT(30)
<1> HIDE DEF x
<1>6. Executions' = Executions \cup {x}
  BY <1>4, ZenonT(60)
<1> QED BY <1>5, <1>6, ZenonT(60) DEF x

-----------------------------------------------------------------------------
\* What the invariants give.

\* The callers were told what the log holds.
LEMMA AnswersLogged == SafetyInv => AnswersAreDurable
<1> SUFFICES ASSUME SafetyInv, NEW j \in Jobs
             PROVE  /\ client[j] = "ok" => logged[j] # Absent
                    /\ client[j] = "err" => logged[j] = Absent
                    /\ canceller[j] = "ok" => logged[j].state = "Cancelled"
  BY ZenonT(60) DEF AnswersAreDurable
<1>1. store[j] \in JobRecord /\ logged[j] \in JobRecord
  BY ZenonT(60) DEF SafetyInv, TypeOK
<1>2. store[j] = logged[j] \/ (store[j].state = "Queued" /\ logged[j].state = "RetryWaiting")
  BY <1>1, ZenonT(60) DEF SafetyInv, MemoryMatchesLog, JobRecord
<1>3. /\ client[j] = "ok" => store[j] # Absent
      /\ client[j] = "err" => store[j] = Absent
      /\ canceller[j] = "ok" => store[j].state = "Cancelled"
  BY Zenon DEF SafetyInv, SubmitterState, CancelledForGood
<1>4. CASE store[j] = logged[j]
  BY <1>3, <1>4, ZenonT(60)
<1>5. CASE store[j].state = "Queued" /\ logged[j].state = "RetryWaiting"
  <2>1. /\ store[j] # Absent /\ logged[j] # Absent
        /\ store[j].state # "Cancelled"
    BY <1>5, SMTT(30) DEF Absent
  <2> QED BY <1>3, <2>1, ZenonT(60)
<1> QED BY <1>2, <1>4, <1>5, ZenonT(60)

\* No recovered job is Running.
LEMMA StartLogged == SafetyInv /\ Init => Promise!Init
<1> SUFFICES ASSUME SafetyInv, Init PROVE Promise!Init
  BY Zenon
<1>1. TypeOK /\ logged = store /\ lastLease = [j \in Jobs |-> 0]
  BY ZenonT(60) DEF SafetyInv, Init, StartFrom
<1>2. logged \in [Jobs -> JobRecord] /\ nextLeaseEpoch \in Nat \ {0}
  BY <1>1, ZenonT(60) DEF TypeOK
<1>3. ASSUME NEW j \in Jobs PROVE logged[j].state # "Running"
  <2>1. store[j] \in RecoveredEntry(j) \/ store[j] = Absent
    BY ZenonT(60) DEF Init, StartFrom
  <2> QED BY <1>1, <2>1, SMTT(30) DEF RecoveredEntry, Absent
<1> QED BY <1>1, <1>2, <1>3, SameJobStore, ZenonT(60) DEF Promise!Init

\* Every step is one of JobLog, or writes nothing.
LEMMA StepLogged == SafetyInv /\ [Next]_vars => [Promise!Next]_(Promise!logVars)
<1> SUFFICES ASSUME SafetyInv, [Next]_vars
             PROVE  Promise!Next \/ UNCHANGED <<logged, lastLease, nextLeaseEpoch>>
  BY Zenon DEF Promise!logVars
<1> QED BY OthersLogNothing, SubmitLogged, CancelLogged, DispatchLogged, OutcomeLogged,
           Zenon

\* A step issues the next epoch to one job, or none.
LEMMA EpochIssued ==
    ASSUME SafetyInv, [Next]_vars
    PROVE  \/ UNCHANGED <<lastLease, nextLeaseEpoch>>
           \/ \E j \in Jobs : /\ lastLease' = [lastLease EXCEPT ![j] = nextLeaseEpoch]
                              /\ nextLeaseEpoch' = nextLeaseEpoch + 1
<1>1. [Promise!Next]_(Promise!logVars)
  BY StepLogged, Zenon
<1>2. CASE UNCHANGED Promise!logVars
  BY <1>2, Zenon DEF Promise!logVars
<1>3. CASE Promise!Next
  <2>1. PICK r \in Promise!Persistable : Promise!Log(r)
    BY <1>3, Zenon DEF Promise!Next
  <2>2. r.type = "JobLeased" => r.id \in Jobs /\ r.lease = nextLeaseEpoch
    BY <2>1, SameJobStore, SMTT(30) DEF Promise!Persistable, Promise!Allowed, Record
  <2> QED BY <2>1, <2>2, Zenon DEF Promise!Log
<1> QED BY <1>1, <1>2, <1>3, Zenon

\* A job that a restart finds live was live in memory.
LEMMA ReconciledLive ==
    ASSUME SafetyInv, LogShape, NEW q \in Queues
    PROVE  /\ JobsIn(Reconciled(logged), q, Live) \in SUBSET JobsIn(store, q, Live)
           /\ JobsIn(store, q, Live) \in SUBSET Jobs
<1>1. \A j \in Jobs : logged[j].state \in Live => store[j].state \in Live
  <2> SUFFICES ASSUME NEW j \in Jobs, logged[j].state \in Live
               PROVE  store[j].state \in Live
    BY ZenonT(60)
  <2>1. logged[j] \in JobRecord
    BY ZenonT(60) DEF SafetyInv, TypeOK
  <2>2. CASE store[j] = [logged[j] EXCEPT !.state = "Queued"]
    BY <2>1, <2>2, States, ZenonT(60) DEF JobRecord
  <2> QED BY <2>2, ZenonT(60) DEF SafetyInv, MemoryMatchesLog
<1>2. \A j \in Jobs : Reconciled(logged)[j].state \in Live => logged[j].state \in Live
  BY ReconciledShape, Zenon
<1> QED BY <1>1, <1>2, ZenonT(60) DEF JobsIn
=============================================================================
