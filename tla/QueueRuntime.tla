---------------------------- MODULE QueueRuntime ----------------------------
(***************************************************************************)
(* One lifetime of a runtime: the coordinator, the worker pool of          *)
(* src/src/worker.rs, the callers of src/src/runtime.rs and the clock.     *)
(* A lifetime starts empty or from what recovery rebuilt (Recovered).      *)
(***************************************************************************)
EXTENDS Coordinator

CONSTANTS
    Recovered,        \* jobs the log may already hold when the runtime starts
    FirstEpoch,       \* next_lease_epoch at the start: 1 on an empty log
    HandlerOutcomes,  \* how a handler may end
    Cancels,          \* jobs somebody may try to cancel (once)
    MayShutdown       \* whether somebody may call shutdown

ASSUME RuntimeAssumption ==
    /\ Recovered \subseteq Jobs
    /\ FirstEpoch \in Nat \ {0}
    /\ Cancels \subseteq Jobs
    /\ MayShutdown \in BOOLEAN
    /\ HandlerOutcomes \subseteq WorkerOutcome
    /\ None \notin LeasedJob

\* Where worker_loop is, the lease it was given, the outcome it will report.
WorkerState ==
    {s \in [at : {"top", "sending", "waiting", "refused", "offered", "executing",
                  "reporting", "stopped"},
            work : LeasedJob \cup {None},
            outcome : WorkerOutcome \cup {"none"}] :
        /\ s.at \in {"offered", "executing", "reporting"} => s.work \in LeasedJob
        /\ s.at = "reporting" => s.outcome \in WorkerOutcome}

IdleWorker == [at |-> "top", work |-> None, outcome |-> "none"]

-----------------------------------------------------------------------------
\* A job is leased once even when max_attempts is 0.
AttemptLimit(j) == IF MaxAttempts[j] = 0 THEN 1 ELSE MaxAttempts[j]

\* Recovery leaves no Running job: a Queued job was never leased, a
\* RetryWaiting one has an attempt left.
RecoveredEntry(j) ==
    {Absent, [state |-> "Queued", attempts |-> 0]}
    \cup [state : {"RetryWaiting"}, attempts : 1 .. MaxAttempts[j] - 1]
    \cup [state : {"Completed", "Dead"}, attempts : 1 .. AttemptLimit(j)]
    \cup [state : {"Cancelled"}, attempts : 0 .. AttemptLimit(j)]

JobsIn(st, q, states) == {j \in Jobs : QueueOf[j] = q /\ st[j].state \in states}

\* The sequences that hold every element of S once.
Orders(S) == Bijection(1 .. Cardinality(S), S)

\* Mutant of ReservePermits: nothing is reserved.
ReserveNothing(st) == Capacity

\* reserve_permits_for_recovered: a permit is taken for every live job.
ReservePermits(st) ==
    [q \in Queues |-> Capacity[q] - Cardinality(JobsIn(st, q, Live))]

\* Coordinator::with_rng_and_recovery, on what recover() hands over: the jobs
\* of each state, the retry entries whose remaining delay is already zero, the
\* epoch after the last one logged, and permits taken from the semaphores by
\* reserve_permits_for_recovered but not put into the permits map.
StartFrom(jobs, epoch) ==
    /\ store \in {st \in [Jobs -> UNION {RecoveredEntry(j) : j \in Jobs}] :
                     \A j \in Jobs : st[j] \in IF j \in jobs
                                               THEN RecoveredEntry(j)
                                               ELSE {Absent}}
    /\ \A q \in Queues : Cardinality(JobsIn(store, q, Live)) <= Capacity[q]
    /\ ready \in {rd \in [Queues -> UNION {Orders(JobsIn(store, q, {"Queued"})) :
                                          q \in Queues}] :
                     \A q \in Queues : rd[q] \in Orders(JobsIn(store, q, {"Queued"}))}
    /\ retryQueue \in Orders({j \in Jobs : store[j].state = "RetryWaiting"})
    /\ dueCount \in 0 .. Len(retryQueue)
    /\ nextLeaseEpoch = epoch
    /\ lastLease = [j \in Jobs |-> 0]
    /\ logged = store
    /\ avail = ReservePermits(store)
    /\ stats = [q \in Queues |->
                   [s \in JobState |-> Cardinality(JobsIn(store, q, {s}))]]
    /\ submitted = Cardinality({j \in Jobs : store[j] # Absent})
    /\ permits = {}
    /\ nextQueueIdx = 0
    /\ leases = [j \in Jobs |-> NoLease]
    /\ parked = <<>>
    /\ shuttingDown = FALSE
    /\ deadline = "none"
    /\ pc = "loop"
    /\ timedOut = {}
    /\ replyTo = None
    /\ cmds = <<>>
    /\ worker = [w \in Workers |-> IdleWorker]
    /\ client = [j \in Jobs |-> IF store[j] = Absent THEN "idle" ELSE "ok"]
    /\ canceller = [j \in Jobs |-> "idle"]
    /\ shutter = "idle"

Init == StartFrom(Recovered, FirstEpoch)

-----------------------------------------------------------------------------
\* Sending waits for room in the channel; it fails once the receiver is gone.
ChannelOpen == pc # "done"

\* Mutant of CanSend: the channel is unbounded.
CanSendAlways == ChannelOpen

CanSend == ChannelOpen /\ Len(cmds) < ChannelCapacity

ownVars == <<storageVars, jobVars, timerVars, statVars, loopVars, stopVars,
             parked>>

\* Runtime::submit and try_submit get a permit.  The semaphore is closed by
\* start_shutdown.
AcquirePermit(j) ==
    /\ client[j] = "idle"
    /\ ~shuttingDown
    /\ avail[QueueOf[j]] > 0
    /\ avail' = [avail EXCEPT ![QueueOf[j]] = @ - 1]
    /\ client' = [client EXCEPT ![j] = "permit"]
    /\ UNCHANGED <<ownVars, cmds, worker, canceller, shutter>>

\* They get none: the semaphore is closed, or try_submit finds it empty.
\* (submit waits on an empty semaphore.)
PermitRefused(j) ==
    /\ client[j] = "idle"
    /\ shuttingDown \/ avail[QueueOf[j]] = 0
    /\ client' = [client EXCEPT ![j] = "err"]
    /\ UNCHANGED <<ownVars, avail, cmds, worker, canceller, shutter>>

SendSubmit(j) ==
    /\ client[j] = "permit"
    /\ CanSend
    /\ cmds' = Append(cmds, [kind |-> "Submit", job |-> j])
    /\ client' = [client EXCEPT ![j] = "sent"]
    /\ UNCHANGED <<ownVars, avail, worker, canceller, shutter>>

\* The submit call ends before the command is sent: the channel is closed, or
\* the caller drops the future.  The permit is dropped with it.
DropSubmit(j) ==
    /\ client[j] = "permit"
    /\ avail' = [avail EXCEPT ![QueueOf[j]] = @ + 1]
    /\ client' = [client EXCEPT ![j] = "err"]
    /\ UNCHANGED <<ownVars, cmds, worker, canceller, shutter>>

\* Runtime::cancel.  The id of a job is known from the submit reply, from the
\* JobContext a handler got, or from the log: never before the job is in the
\* store.  Anybody can make an id that names no job; a refused submission's
\* stands for these.
SendCancel(j) ==
    /\ j \in Cancels
    /\ canceller[j] = "idle"
    /\ store[j] # Absent \/ client[j] = "err"
    /\ CanSend
    /\ cmds' = Append(cmds, [kind |-> "Cancel", job |-> j])
    /\ canceller' = [canceller EXCEPT ![j] = "sent"]
    /\ UNCHANGED <<ownVars, avail, worker, client, shutter>>

\* Runtime::shutdown.
SendShutdown ==
    /\ MayShutdown
    /\ shutter = "idle"
    /\ CanSend
    /\ cmds' = Append(cmds, [kind |-> "Shutdown"])
    /\ shutter' = "sent"
    /\ UNCHANGED <<ownVars, avail, worker, client, canceller>>

-----------------------------------------------------------------------------
\* worker_loop.  The shutdown token is cancelled by start_shutdown.

workerFrame == <<ownVars, avail, client, canceller, shutter>>

\* The top of the loop.
WorkerCheckToken(w) ==
    /\ worker[w].at = "top"
    /\ worker' = [worker EXCEPT
                     ![w].at = IF shuttingDown THEN "stopped" ELSE "sending"]
    /\ UNCHANGED <<workerFrame, cmds>>

\* fetch_work sends its request.
WorkerFetch(w) ==
    /\ worker[w].at = "sending"
    /\ CanSend
    /\ cmds' = Append(cmds, [kind |-> "FetchWork", worker |-> w])
    /\ worker' = [worker EXCEPT ![w].at = "waiting"]
    /\ UNCHANGED workerFrame

\* fetch_work comes back empty: the channel is closed, the reply is None or
\* dropped, or the token is cancelled before a reply is there.
WorkerStop(w) ==
    /\ \/ worker[w].at = "sending" /\ ~ChannelOpen
       \/ worker[w].at = "waiting" /\ (shuttingDown \/ ~ChannelOpen)
       \/ worker[w].at = "refused"
    /\ worker' = [worker EXCEPT ![w].at = "stopped"]
    /\ UNCHANGED <<workerFrame, cmds>>

\* fetch_work returns the lease (the select is biased to the reply) and
\* execute_with_cancellation spawns the handler.
WorkerStart(w) ==
    /\ worker[w].at = "offered"
    /\ worker' = [worker EXCEPT ![w].at = "executing"]
    /\ UNCHANGED <<workerFrame, cmds>>

\* The handler ends by itself.
HandlerEnds(w, outcome) ==
    /\ worker[w].at = "executing"
    /\ worker' = [worker EXCEPT ![w].at = "reporting", ![w].outcome = outcome]
    /\ UNCHANGED <<workerFrame, cmds>>

\* Mutants of HandlerAborted: the worker ends without a report; the select does
\* not watch the token.
HandlerDropped(w) ==
    /\ worker[w].at = "executing"
    /\ shuttingDown
    /\ worker' = [worker EXCEPT ![w] = [IdleWorker EXCEPT !.at = "stopped"]]
    /\ UNCHANGED <<workerFrame, cmds>>
HandlerNeverAborted(w) == FALSE

\* The token is cancelled first: the handler task is aborted.
HandlerAborted(w) ==
    /\ worker[w].at = "executing"
    /\ shuttingDown
    /\ worker' = [worker EXCEPT ![w].at = "reporting", ![w].outcome = "Retryable"]
    /\ UNCHANGED <<workerFrame, cmds>>

\* The outcome is sent; a closed channel is ignored.
WorkerReport(w) ==
    /\ worker[w].at = "reporting"
    /\ \/ /\ CanSend
          /\ cmds' = Append(cmds, [kind |-> "WorkerOutcome",
                                   work |-> worker[w].work,
                                   outcome |-> worker[w].outcome])
       \/ /\ ~ChannelOpen
          /\ UNCHANGED cmds
    /\ worker' = [worker EXCEPT ![w] = IdleWorker]
    /\ UNCHANGED workerFrame

WorkerStep(w) ==
    \/ WorkerCheckToken(w)
    \/ WorkerFetch(w)
    \/ WorkerStop(w)
    \/ WorkerStart(w)
    \/ HandlerAborted(w)
    \/ WorkerReport(w)

-----------------------------------------------------------------------------
\* The clock.

RetryBecomesDue ==
    /\ dueCount < Len(retryQueue)
    /\ dueCount' = dueCount + 1
    /\ UNCHANGED <<storageVars, jobVars, retryQueue, statVars, loopVars,
                   stopVars, actorVars, parked, avail, cmds>>

LeaseExpires(j) ==
    /\ leases[j] # NoLease
    /\ ~leases[j].expired
    /\ leases' = [leases EXCEPT ![j].expired = TRUE]
    /\ UNCHANGED <<storageVars, store, ready, nextQueueIdx, permits,
                   nextLeaseEpoch, timerVars, statVars, loopVars, stopVars,
                   actorVars, parked, avail, cmds>>

DeadlineElapses ==
    /\ deadline = "set"
    /\ deadline' = "elapsed"
    /\ UNCHANGED <<storageVars, jobVars, timerVars, statVars, loopVars,
                   shuttingDown, actorVars, parked, avail, cmds>>

\* Everything has stopped for good.
Stopped ==
    /\ pc = "done"
    /\ \A w \in Workers : worker[w].at = "stopped"
    /\ UNCHANGED vars

-----------------------------------------------------------------------------
Next ==
    \/ CoordinatorStep
    \/ \E j \in Jobs : \/ AcquirePermit(j)
                       \/ PermitRefused(j)
                       \/ SendSubmit(j)
                       \/ DropSubmit(j)
                       \/ SendCancel(j)
                       \/ LeaseExpires(j)
    \/ SendShutdown
    \/ \E w \in Workers : \/ WorkerStep(w)
                          \/ \E o \in HandlerOutcomes : HandlerEnds(w, o)
    \/ RetryBecomesDue
    \/ DeadlineElapses
    \/ Stopped

Spec == Init /\ [][Next]_vars

\* Tokio runs every task that can make progress, and timers fire.
SchedulerFairness ==
    /\ WF_vars(CoordinatorStep)
    /\ \A w \in Workers : WF_vars(WorkerStep(w))
    /\ WF_vars(RetryBecomesDue)
    /\ \A j \in Jobs : WF_vars(LeaseExpires(j))
    /\ WF_vars(DeadlineElapses)

\* Handlers return.  Nothing in the runtime makes them: on a lease timeout the
\* JobContext token is cancelled, and the handler is free to ignore it.
HandlerFairness ==
    \A w \in Workers : WF_vars(\E o \in HandlerOutcomes : HandlerEnds(w, o))

-----------------------------------------------------------------------------
\* The type invariant: where the run loop, a worker and the callers can be, and
\* a command channel within its bound.
TypeOK ==
    /\ logged \in [Jobs -> JobRecord]
    /\ lastLease \in [Jobs -> Nat]
    /\ store \in [Jobs -> JobRecord]
    /\ ready \in [Queues -> Seq(Jobs)]
    /\ nextQueueIdx \in Queues
    /\ permits \subseteq Jobs
    /\ leases \in [Jobs -> [epoch : Nat, expired : BOOLEAN]]
    /\ nextLeaseEpoch \in Nat \ {0}
    /\ retryQueue \in Seq(Jobs)
    /\ dueCount \in 0 .. Len(retryQueue)
    /\ parked \in Seq(Workers)
    /\ stats \in [Queues -> [JobState -> Nat]]
    /\ submitted \in Nat
    /\ shuttingDown \in BOOLEAN
    /\ deadline \in {"none", "set", "elapsed"}
    /\ pc \in {"loop", "work", "select", "submit", "done"}
    /\ timedOut \subseteq Jobs
    /\ replyTo \in Jobs \cup {None}
    /\ avail \in [Queues -> Nat]
    /\ cmds \in Seq(Command)
    /\ Len(cmds) <= ChannelCapacity
    /\ worker \in [Workers -> WorkerState]
    /\ client \in [Jobs -> {"idle", "permit", "sent", "ok", "err"}]
    /\ canceller \in [Jobs -> {"idle", "sent", "ok", "err"}]
    /\ shutter \in {"idle", "sent", "held", "replied"}

-----------------------------------------------------------------------------
\* Memory and log agree on every job: a change is applied only when persist has
\* confirmed its record, and no confirmed record is left unapplied, whichever
\* persist calls fail and at whatever point.  The one difference is a
\* retry that came due, which process_due_retries requeues without a record.
MemoryMatchesLog ==
    \A j \in Jobs :
        \/ store[j] = logged[j]
        \/ /\ store[j] = [logged[j] EXCEPT !.state = "Queued"]
           /\ logged[j].state = "RetryWaiting"

\* A lease is only ever out for a Running job, it is the job's latest one, its
\* epoch was issued, and no two jobs share an epoch.
LeaseDiscipline ==
    \A j \in Jobs : leases[j] # NoLease =>
        /\ store[j].state = "Running"
        /\ leases[j].epoch = lastLease[j]
        /\ leases[j].epoch \in 1 .. nextLeaseEpoch - 1
        /\ \A k \in Jobs \ {j} : leases[k].epoch # leases[j].epoch

\* Where the report for a lease can come from: a worker that was offered it or
\* runs it, or an outcome on its way.
HoldersOf(work) ==
    {w \in Workers : worker[w].work = work}
    \cup {i \in DOMAIN cmds : /\ cmds[i].kind = "WorkerOutcome"
                              /\ cmds[i].work = work}

\* No execution is lost or doubled: while the coordinator runs, every Running
\* job has its lease, and exactly one worker or message will report for it.
RunningHasOneHolder ==
    pc # "done" =>
        \A j \in Jobs : store[j].state = "Running" =>
            /\ leases[j] # NoLease
            /\ Cardinality(HoldersOf([job |-> j, lease |-> leases[j].epoch])) = 1

\* The ready queues hold exactly the Queued jobs, each once and in its own
\* queue, whatever cancels, retries and timeouts came between.
ReadyIsQueued ==
    \A q \in Queues :
        /\ Range(ready[q]) = JobsIn(store, q, {"Queued"})
        /\ IsInjective(ready[q])

\* A job waiting for its retry has exactly one timer, so it can neither be
\* forgotten nor be requeued twice (cancel leaves its entry in the heap).
RetryHasTimer ==
    \A j \in Jobs : store[j].state = "RetryWaiting" =>
        Cardinality({i \in DOMAIN retryQueue : retryQueue[i] = j}) = 1

\* Permits of submissions that are not (or not yet) jobs.
InFlight(q) ==
    {j \in Jobs : /\ QueueOf[j] = q
                  /\ \/ client[j] = "permit"
                     \/ client[j] = "sent" /\ store[j] = Absent}

\* Semaphore capacity = live jobs: a permit is free, on its way with a
\* submission, or stands for a live job, until the coordinator ends.
CapacityIsLiveJobs ==
    pc # "done" =>
        \A q \in Queues :
            Capacity[q] = avail[q] + Cardinality(InFlight(q))
                             + Cardinality(JobsIn(store, q, Live))

\* Permits lost to recovery only ever shrink a queue: free permits, submissions
\* on their way and live jobs together never exceed the configured capacity.
NeverOverCapacity ==
    pc # "done" =>
        \A q \in Queues :
            avail[q] + Cardinality(InFlight(q))
                + Cardinality(JobsIn(store, q, Live)) <= Capacity[q]

\* The counters behind do_stats never drift from the job table, although they
\* are updated apart from it and their decrements saturate.
StatsMatchStore ==
    /\ \A q \in Queues, s \in JobState :
          stats[q][s] = Cardinality(JobsIn(store, q, {s}))
    /\ submitted = Cardinality({j \in Jobs : store[j] # Absent})

\* The answers a caller gets fit the records persist has confirmed, however
\* failed persists, dispatch and shutdown come between the record and the
\* answer: Ok for a submission or a cancel means that its record is confirmed
\* and not undone, and a submission answered with Err has no confirmed record.
\* (The file may still hold an unconfirmed one: Recovery, RefusedIsLast.)
AnswersAreDurable ==
    \A j \in Jobs :
        /\ client[j] = "ok" => logged[j] # Absent
        /\ client[j] = "err" => logged[j] = Absent
        /\ canceller[j] = "ok" => logged[j].state = "Cancelled"

\* The coordinator never waits with an idle worker parked and a job ready.
WorkConserving ==
    pc = "select" => parked = <<>> \/ \A q \in Queues : ready[q] = <<>>

\* The round robin passes no queue over: while a job is ready in a queue, each
\* lease given to another queue brings its turn nearer, and nothing else moves it.
NoQueueStarves ==
    [][\A q \in Queues : Leaseable(q) /\ ready'[q] = ready[q] =>
          IF nextLeaseEpoch' = nextLeaseEpoch THEN Turn(q)' = Turn(q)
          ELSE Turn(q)' < Turn(q)]_vars

\* A terminal job never changes again, in memory or in the log.
TerminalIsFinal ==
    [][\A j \in Jobs :
          /\ store[j].state \in Terminal => store'[j] = store[j]
          /\ logged[j].state \in Terminal => logged'[j] = logged[j]]_vars

\* Leases fence stale outcomes: a job is completed only by the Success of its
\* latest execution, never by a worker whose lease timed out or was cancelled.
CompletedByLatestLease ==
    [][\A j \in Jobs :
          store[j].state # "Completed" /\ store'[j].state = "Completed" =>
              /\ cmds # <<>>
              /\ Head(cmds) = [kind |-> "WorkerOutcome",
                              work |-> [job |-> j, lease |-> lastLease[j]],
                              outcome |-> "Success"]]_vars

\* What the coordinator promises of its log.
Promise == INSTANCE JobLog

\* The runtime keeps that promise: whatever the callers, workers, timers and
\* failing persist calls do, the log grows by one record at a time that the log
\* itself justifies, with the next attempt and the next epoch.
ImplementsJobLog == Promise!Spec

\* Once shutdown has been answered the log is left alone: no lease, outcome or
\* cancel is written behind the caller's back.
QuietAfterShutdown ==
    [][shutter = "replied" => logged' = logged]_vars

\* Every accepted job ends if handlers return, unless shutdown comes first: no
\* wake-up is lost between the timers, the parked workers and the command
\* channel.
JobsSettle ==
    HandlerFairness =>
        \A j \in Jobs :
            store[j].state \in Live ~> store[j].state \in Terminal \/ shuttingDown

\* A handler that never returns keeps its worker and not its job: the lease
\* times out, and the job waits for another worker or is dead, unless the
\* coordinator ends first.
LeaseReclaimed ==
    \A j \in Jobs :
        store[j].state = "Running" ~> store[j].state # "Running" \/ pc = "done"

\* shutdown() returns, even when handlers never do: the coordinator ends and
\* every worker stops (or the process is killed, and nobody is waiting).
ShutdownEnds ==
    shutter = "sent" ~>
        \/ /\ pc = "done"
           /\ shutter = "replied"
           /\ \A w \in Workers : worker[w].at = "stopped"
        \/ shutter = "idle"

-----------------------------------------------------------------------------
\* What the repository says of the program, and the code does not do.

\* runtime.rs:215 "Waits for running jobs to complete up to shutdown_timeout,
\* then cancels remaining."  With handlers that always succeed, the only source
\* of a Retryable is an aborted handler.
ShutdownWaitsForHandlers ==
    \A w \in Workers : worker[w].outcome = "Retryable" => deadline = "elapsed"

\* docs/wal-format.md:80 "Memory is never mutated before successful
\* persistence": while the loop runs, a lease disappears only together with a
\* record of its job.
LeaseDroppedDurably ==
    [][\A j \in Jobs :
          leases[j] # NoLease /\ leases'[j] = NoLease /\ pc' # "done" =>
              logged'[j] # logged[j]]_vars
=============================================================================
