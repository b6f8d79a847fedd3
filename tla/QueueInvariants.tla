-------------------------- MODULE QueueInvariants --------------------------
(***************************************************************************)
(* The inductive invariants behind the theorems about QueueRuntime and     *)
(* DurableQueue.                                                           *)
(***************************************************************************)
EXTENDS DurableQueue

-----------------------------------------------------------------------------
\* How sets of jobs are counted.  QueueProofs shows that it follows from
\* JobsAssumption: there are finitely many jobs.
JobsCount ==
    /\ \A T \in SUBSET Jobs : Cardinality(T) \in Nat
    /\ \A T \in SUBSET Jobs : \A j \in Jobs \ T :
          Cardinality(T \cup {j}) = Cardinality(T) + 1
    /\ \A T, U \in SUBSET Jobs :
          T \cap U = {} => Cardinality(T \cup U) = Cardinality(T) + Cardinality(U)

-----------------------------------------------------------------------------
\* The jobs, their leases and those who wait for an answer.

\* check_lease_timeouts settles only leases that are still out.
TimedOutAreLeased ==
    /\ timedOut # {} => pc = "work"
    /\ \A j \in timedOut : leases[j] # NoLease

IsSubmit(cmd, j) == cmd.kind = "Submit" /\ cmd.job = j

\* A job id is submitted once, and the job is not in the store before its
\* command is received.
SubmittedOnce ==
    \A i \in DOMAIN cmds : cmds[i].kind = "Submit" =>
        /\ client[cmds[i].job] = "sent"
        /\ store[cmds[i].job] = Absent
        /\ \A k \in DOMAIN cmds : IsSubmit(cmds[k], cmds[i].job) => k = i

\* What a submitter waits for: nothing yet, its command, or the reply do_submit
\* owes it.
SubmitterState ==
    /\ pc = "submit" => replyTo \in Jobs /\ store[replyTo] # Absent
    /\ \A j \in Jobs :
          /\ client[j] \in {"idle", "permit", "err"} => store[j] = Absent
          /\ client[j] = "ok" => store[j] # Absent
          /\ client[j] = "sent" /\ store[j] # Absent =>
                pc = "submit" /\ replyTo = j

\* A cancel that was answered Ok stays in force.
CancelledForGood ==
    \A j \in Jobs : canceller[j] = "ok" => store[j].state = "Cancelled"

SafetyInv ==
    /\ TypeOK
    /\ MemoryMatchesLog
    /\ LeaseDiscipline
    /\ TimedOutAreLeased
    /\ SubmittedOnce
    /\ SubmitterState
    /\ CancelledForGood

-----------------------------------------------------------------------------
\* The log.

\* What the log can say of a job: what recovery may find, or an execution that
\* is within the limit.
LogShape ==
    \A j \in Jobs :
        \/ logged[j] \in RecoveredEntry(j)
        \/ logged[j] \in [state : {"Running"}, attempts : 1 .. AttemptLimit(j)]

\* Every epoch that was issued is an execution the log counts.
Counted ==
    /\ IsFiniteSet(Executions)
    /\ nextLeaseEpoch = FirstEpoch + Cardinality(Executions)

\* What RecoveryTracker will find of the epochs: the last one that was issued.
Tracked ==
    /\ maxLeaseEpoch + 1 = nextLeaseEpoch
    /\ maxLeaseEpoch \in Nat
    /\ \A j \in Jobs : lastLease[j] <= maxLeaseEpoch

QueueInv == SafetyInv /\ LogShape /\ Counted /\ Tracked

-----------------------------------------------------------------------------
\* The order of jobs over the lifetimes of a queue.

Logged == {j \in Jobs : logged[j] # Absent}

\* No job has a place beyond the last.
Placed ==
    /\ place \in [Jobs -> Nat]
    /\ \A j \in Logged : place[j] <= Cardinality(Logged)

\* The jobs of a ready queue that have not run yet stand in the order of their
\* places.  Retries may stand anywhere.
InOrder ==
    \A q \in Queues : \A i, k \in DOMAIN ready[q] :
        /\ i < k
        /\ logged[ready[q][i]].attempts = 0
        /\ logged[ready[q][k]].attempts = 0
        => place[ready[q][i]] < place[ready[q][k]]

OrderInv == QueueInv /\ ReadyIsQueued /\ Placed /\ InOrder
-----------------------------------------------------------------------------
\* Timers and parked workers.

\* The retry heap holds no job twice, every job that waits for its retry, and
\* otherwise only jobs that were cancelled while they waited.
RetryTimers ==
    /\ IsInjective(retryQueue)
    /\ \A i \in DOMAIN retryQueue :
          store[retryQueue[i]].state \in {"RetryWaiting", "Cancelled"}
    /\ \A j \in Jobs : store[j].state = "RetryWaiting" => j \in Range(retryQueue)

\* start_shutdown answers the parked workers, and none is parked afterwards.
NoneParkedAtShutdown == shuttingDown => parked = <<>>

\* Shutdown is asked for once, and answered when no lease is left and the run
\* loop is about to end.
AnsweredLast ==
    /\ shutter \in {"idle", "sent"} => ~shuttingDown
    /\ \A i \in DOMAIN cmds : cmds[i].kind = "Shutdown" =>
          /\ shutter = "sent"
          /\ \A k \in DOMAIN cmds : cmds[k].kind = "Shutdown" => k = i
    /\ shutter = "replied" =>
          \/ pc = "done"
          \/ shuttingDown /\ NoLeases /\ pc \in {"loop", "work"}

-----------------------------------------------------------------------------
\* Who will report for a lease.

IsFetch(cmd, w) == cmd.kind = "FetchWork" /\ cmd.worker = w

\* A worker that asked for work waits for the one reply.
OneRequest ==
    pc # "done" /\ ~shuttingDown =>
        /\ IsInjective(parked)
        /\ \A i \in DOMAIN parked : worker[parked[i]].at = "waiting"
        /\ \A i \in DOMAIN cmds : cmds[i].kind = "FetchWork" =>
              /\ worker[cmds[i].worker].at = "waiting"
              /\ \A k \in DOMAIN cmds : IsFetch(cmds[k], cmds[i].worker) => k = i
              /\ \A k \in DOMAIN parked : parked[k] # cmds[i].worker

\* A worker has a lease exactly from the offer to the report.
WorkInHand ==
    \A w \in Workers :
        worker[w].at \notin {"offered", "executing", "reporting"} =>
            worker[w].work = None

IsReport(cmd, work) == cmd.kind = "WorkerOutcome" /\ cmd.work = work

\* Every lease that a worker or a report names was issued, and no other worker
\* or report names it.
OneReport ==
    /\ \A w \in Workers : worker[w].work # None =>
          /\ worker[w].work.lease < nextLeaseEpoch
          /\ \A v \in Workers : worker[v].work = worker[w].work => v = w
          /\ \A i \in DOMAIN cmds : ~IsReport(cmds[i], worker[w].work)
    /\ \A i \in DOMAIN cmds : cmds[i].kind = "WorkerOutcome" =>
          /\ cmds[i].work.lease < nextLeaseEpoch
          /\ \A k \in DOMAIN cmds : IsReport(cmds[k], cmds[i].work) => k = i

\* A Running job is leased, and somebody will report for the lease.
RunningIsHeld ==
    pc # "done" =>
        \A j \in Jobs : store[j].state = "Running" =>
            /\ leases[j] # NoLease
            /\ LET work == [job |-> j, lease |-> leases[j].epoch]
               IN \/ \E w \in Workers : worker[w].work = work
                  \/ \E i \in DOMAIN cmds : IsReport(cmds[i], work)

HolderInv == OneRequest /\ WorkInHand /\ OneReport /\ RunningIsHeld
=============================================================================
