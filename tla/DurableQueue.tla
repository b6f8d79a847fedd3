---------------------------- MODULE DurableQueue ----------------------------
(***************************************************************************)
(* A queue over several lifetimes of the runtime.  A lifetime may end at   *)
(* any moment, by a crash or after a shutdown.  Restart is Runtime::start: *)
(* the whole of recover(), reserve_permits_for_recovered and               *)
(* Coordinator::with_rng_and_recovery, on the records persist confirmed.   *)
(* Recovery shows what the file keeps of these.                            *)
(***************************************************************************)
EXTENDS QueueRuntime

CONSTANT MaxLives    \* bound on the number of lifetimes

ASSUME LivesAssumption == MaxLives \in Nat

VARIABLES
    place,     \* where each job's JobSubmitted record is among those in the log:
               \* 1 for the first, 0 for none
    maxLeaseEpoch,  \* the largest epoch in a JobLeased record of the log
    lives      \* how many lifetimes have begun

trackerVars == <<place, maxLeaseEpoch>>
queueVars == <<vars, trackerVars, lives>>

-----------------------------------------------------------------------------
\* Mutants of Reconciled: nothing is done; the lost execution does not count.
NotReconciled(table) == table
ReconciledUncounted(table) ==
    [j \in Jobs |-> IF table[j].state = "Running"
                    THEN [state |-> "RetryWaiting", attempts |-> table[j].attempts - 1]
                    ELSE table[j]]

\* The store recover() ends with: reconcile_running_jobs has a record for every
\* job whose execution was lost.
Reconciled(table) ==
    [j \in Jobs |->
        IF table[j].state = "Running"
        THEN [table[j] EXCEPT !.state = IF table[j].attempts < MaxAttempts[j]
                                        THEN "RetryWaiting" ELSE "Dead"]
        ELSE table[j]]

\* Mutant of QueuedJobs: in any order.
QueuedJobsUnordered(table, q) == Orders(JobsIn(table, q, {"Queued"}))

\* RecoveryTracker::queued_order, and what recover() keeps of it: the Queued
\* jobs in the order of their submission.  There is one such sequence.
QueuedJobs(table, q) ==
    {s \in Orders(JobsIn(table, q, {"Queued"})) :
        \A i, k \in DOMAIN s : i < k => place[s[i]] < place[s[k]]}

\* validate_recovered_state, for a configuration that has not changed.
ValidateRecoveredState(table) ==
    \A q \in Queues : Cardinality(JobsIn(table, q, Live)) <= Capacity[q]

\* Calls that were out get no answer.  A submission that left no record may be
\* made again: nothing knows the id it had.
Restart ==
    /\ lives < MaxLives
    /\ lives' = lives + 1
    /\ ValidateRecoveredState(Reconciled(logged))
    /\ logged' = Reconciled(logged)
    /\ store' = logged'
    /\ ready' \in {rd \in [Queues -> UNION {QueuedJobs(logged', q) : q \in Queues}] :
                      \A q \in Queues : rd[q] \in QueuedJobs(logged', q)}
    /\ retryQueue' \in Orders({j \in Jobs : logged'[j].state = "RetryWaiting"})
    /\ dueCount' \in 0 .. Len(retryQueue')
    /\ avail' = ReservePermits(logged')
    /\ stats' = [q \in Queues |->
                    [s \in JobState |-> Cardinality(JobsIn(logged', q, {s}))]]
    /\ submitted' = Cardinality({j \in Jobs : logged'[j] # Absent})
    /\ permits' = {}
    /\ nextQueueIdx' = 0
    /\ leases' = [j \in Jobs |-> NoLease]
    /\ lastLease' = [j \in Jobs |-> 0]
    /\ nextLeaseEpoch' = maxLeaseEpoch + 1
    /\ parked' = <<>>
    /\ shuttingDown' = FALSE
    /\ deadline' = "none"
    /\ pc' = "loop"
    /\ timedOut' = {}
    /\ replyTo' = None
    /\ cmds' = <<>>
    /\ worker' = [w \in Workers |-> IdleWorker]
    /\ client' = [j \in Jobs |-> IF logged[j] = Absent THEN "idle" ELSE "ok"]
    /\ canceller' = [j \in Jobs |-> "idle"]
    /\ shutter' = "idle"
    /\ UNCHANGED trackerVars

NewlyLogged(j) == logged[j] = Absent /\ logged'[j] # Absent

\* What RecoveryTracker::track_record will make of the record a step adds: a
\* new JobSubmitted record comes last, a JobLeased record may have a new epoch.
TrackRecord ==
    /\ place' = [j \in Jobs |->
                    IF NewlyLogged(j) THEN Cardinality({k \in Jobs : logged'[k] # Absent})
                    ELSE place[j]]
    /\ LET epochs == {maxLeaseEpoch} \cup {lastLease'[j] : j \in Jobs}
       IN maxLeaseEpoch' = CHOOSE e \in epochs : \A f \in epochs : f <= e

\* A step of the current lifetime.
Run ==
    /\ Next
    /\ TrackRecord
    /\ UNCHANGED lives

\* The first lifetime finds no log.
QueueInit ==
    /\ Init
    /\ \A j \in Jobs : logged[j] = Absent
    /\ place = [j \in Jobs |-> 0]
    /\ maxLeaseEpoch = FirstEpoch - 1
    /\ lives = 1

QueueNext == Run \/ Restart

QueueSpec == QueueInit /\ [][QueueNext]_queueVars

\* Each lifetime is scheduled fairly.  Nothing makes a new one begin.
FairQueueSpec == QueueSpec /\ SchedulerFairness

-----------------------------------------------------------------------------
\* Every restart begins in an initial state of a lifetime: what holds of all
\* behaviours of QueueRuntime holds of every lifetime, and the states recovery
\* can hand over are the ones it starts from.
RestartsAreInitial ==
    [][lives' # lives => StartFrom(Jobs, nextLeaseEpoch)']_queueVars

\* The queue can always be started again with the same configuration: at no
\* moment does the log hold more live jobs than validate_recovered_state
\* accepts, although each lifetime counts its permits anew.
AlwaysRestartable == ValidateRecoveredState(Reconciled(logged))

\* The executions the log counts: each attempt of each job.
Executions == UNION {{j} \X (1 .. logged[j].attempts) : j \in Jobs}

\* However often the runtime crashes, no job is started more often than its
\* spec allows: every lease that was ever issued is an attempt of some job's
\* record, lost executions included, and no job has too many.
ExecutionsBounded ==
    /\ nextLeaseEpoch = FirstEpoch + Cardinality(Executions)
    /\ \A j \in Jobs : logged[j].attempts <= AttemptLimit(j)

\* In each queue jobs run for the first time in the order of their submission,
\* over any number of restarts.
FirstRunsInOrder ==
    [][\A i, k \in Jobs :
          /\ QueueOf[i] = QueueOf[k]
          /\ place[i] < place[k]
          /\ logged[k].attempts = 0
          /\ logged'[k].attempts = 1
          => logged[i] # [state |-> "Queued", attempts |-> 0]]_queueVars
=============================================================================
