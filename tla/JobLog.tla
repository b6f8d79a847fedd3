------------------------------- MODULE JobLog -------------------------------
(***************************************************************************)
(* What the coordinator promises of its log, with everything else hidden:  *)
(* one record at a time, each of them right for the job as the log shows   *)
(* it.  QueueRuntime implements this specification; Recovery takes it as   *)
(* the description of what is written to the file.                         *)
(***************************************************************************)
EXTENDS JobStore

VARIABLES
    logged,          \* the job table the log describes
    lastLease,       \* the epoch of each job's last lease, 0 if it has none
    nextLeaseEpoch   \* the epoch the next lease gets

logVars == <<logged, lastLease, nextLeaseEpoch>>

\* The records the coordinator may hand to persist, given the job table, the
\* lease each job last had and the next epoch.  A job whose retry came due is
\* Queued in memory and still RetryWaiting here.
Allowed(table, leases, epoch) ==
    LET In(states) == {j \in Jobs : table[j].state \in states}
        Settled(type, jobs) ==
            {Record(type, j, leases[j], table[j].attempts) : j \in jobs}
    IN {Record("JobSubmitted", j, 0, 0) : j \in In({"Absent"})}
       \cup {Record("JobLeased", j, epoch, table[j].attempts + 1) :
                j \in In({"Queued", "RetryWaiting"})}
       \cup Settled("JobCompleted", In({"Running"}))
       \cup Settled("JobDead", In({"Running"}))
       \cup Settled("JobRetryScheduled",
                    {j \in In({"Running"}) : table[j].attempts < MaxAttempts[j]})
       \cup {Record("JobCancelled", j, 0, 0) : j \in In(Live)}

Persistable == Allowed(logged, lastLease, nextLeaseEpoch)

\* The record is in the log and the coordinator has been told so.
Log(r) ==
    /\ logged' = ApplyRecordForRecovery(logged, r)
    /\ IF r.type = "JobLeased"
       THEN /\ lastLease' = [lastLease EXCEPT ![r.id] = r.lease]
            /\ nextLeaseEpoch' = nextLeaseEpoch + 1
       ELSE UNCHANGED <<lastLease, nextLeaseEpoch>>

\* A lifetime starts with no job Running.
Init ==
    /\ logged \in [Jobs -> JobRecord]
    /\ \A j \in Jobs : logged[j].state # "Running"
    /\ lastLease = [j \in Jobs |-> 0]
    /\ nextLeaseEpoch \in Nat \ {0}

Next == \E r \in Persistable : Log(r)

Spec == Init /\ [][Next]_logVars
=============================================================================
