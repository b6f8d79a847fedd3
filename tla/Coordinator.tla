---------------------------- MODULE Coordinator ----------------------------
(***************************************************************************)
(* The coordinator task of src/src/coordinator.rs: the single owner of the *)
(* job table, the ready queues, the leases, the retry timers and the held  *)
(* capacity permits.  It reads commands from one bounded channel and makes *)
(* one storage call (persist) per change.                                  *)
(*                                                                         *)
(* Every handler runs on this one task, and nobody else sees its state, so *)
(* a handler is one step, split only where it makes several persist calls: *)
(* the loop over timed-out leases and the loop over parked workers.        *)
(*                                                                         *)
(* Time is kept as what a comparison with now can tell: a retry entry is   *)
(* due, a lease has expired, the shutdown deadline has elapsed.            *)
(***************************************************************************)
EXTENDS JobStore, Integers, Sequences, Functions

CONSTANTS
    NumQueues,        \* config.queues, in queue_order: 0 .. NumQueues-1
    QueueOf,          \* the queue each job is submitted to
    Capacity,         \* QueueConfig::capacity
    Workers,          \* worker_concurrency tasks
    ChannelCapacity,  \* channel_capacity of the command channel
    Oversized,        \* jobs whose payload exceeds MAX_PAYLOAD_SIZE
    PersistMayFail,   \* whether storage.persist may return Err
    None              \* no job, no work

Queues == 0 .. NumQueues - 1

ASSUME CoordinatorAssumption ==
    /\ NumQueues \in Nat \ {0}
    /\ QueueOf \in [Jobs -> Queues]
    /\ Capacity \in [Queues -> Nat]
    /\ ChannelCapacity \in Nat \ {0}
    /\ Oversized \subseteq Jobs
    /\ PersistMayFail \in BOOLEAN
    /\ None \notin Jobs

VARIABLES
    \* storage, as what persist has confirmed
    logged,          \* the job table a replay of the confirmed records builds
    lastLease,       \* the epoch of each job's last JobLeased record of this lifetime
    \* the coordinator's own state
    store, ready, nextQueueIdx, permits, leases, nextLeaseEpoch,
    retryQueue,      \* the heap's jobs, by available_at
    dueCount,        \* how many entries of retryQueue have available_at <= now
    parked,          \* workers whose FetchWork reply is still owed
    stats, submitted,
    shuttingDown,
    deadline,        \* shutdown_deadline: "none", "set" or "elapsed"
    pc,              \* where the run loop is
    timedOut,        \* check_lease_timeouts: the expired leases still to settle
    replyTo,         \* do_submit: the job whose submitter is owed a reply
    \* shared with the other tasks
    avail,           \* free permits of each queue's semaphore
    cmds,            \* the command channel
    worker, client, canceller, shutter

storageVars == <<logged, lastLease>>
jobVars == <<store, ready, nextQueueIdx, permits, leases, nextLeaseEpoch>>
timerVars == <<retryQueue, dueCount>>
statVars == <<stats, submitted>>
loopVars == <<pc, timedOut, replyTo>>
stopVars == <<shuttingDown, deadline>>
actorVars == <<worker, client, canceller, shutter>>

vars == <<storageVars, jobVars, timerVars, statVars, loopVars, stopVars,
          actorVars, parked, avail, cmds>>

-----------------------------------------------------------------------------
NoLease == [epoch |-> 0, expired |-> FALSE]

\* A LeasedJob as the worker gets it: what it must report back.  Epochs start
\* at 1.
LeasedJob == [job : Jobs, lease : Nat \ {0}]

WorkerOutcome == {"Success", "Retryable", "Fatal", "Panic"}

\* The commands that change state; Status and Stats only read.
Command ==
    [kind : {"Submit", "Cancel"}, job : Jobs]
    \cup [kind : {"FetchWork"}, worker : Workers]
    \cup [kind : {"WorkerOutcome"}, work : LeasedJob, outcome : WorkerOutcome]
    \cup [kind : {"Shutdown"}]

PersistOutcome == IF PersistMayFail THEN BOOLEAN ELSE {TRUE}

\* The coordinator takes the next command off the channel.
Receive(kind) ==
    /\ pc = "select"
    /\ cmds # <<>>
    /\ Head(cmds).kind = kind
    /\ cmds' = Tail(cmds)

\* Mutant of MoveStat: no decrement.
MoveStatIncrementOnly(q, from, to) == [stats EXCEPT ![q][to] = @ + 1]

\* A job moves from one per-queue counter to another; the decrement saturates.
MoveStat(q, from, to) ==
    [stats EXCEPT ![q][from] = IF @ > 0 THEN @ - 1 ELSE 0, ![q][to] = @ + 1]

\* Mutant of ReleasePermit: the permit stays in the map.
KeepPermit(j) == UNCHANGED <<permits, avail>>

\* permits.remove(&id): dropping the permit gives it back to the semaphore.
ReleasePermit(j) ==
    /\ permits' = permits \ {j}
    /\ avail' = IF j \in permits
                THEN [avail EXCEPT ![QueueOf[j]] = @ + 1]
                ELSE avail

\* Mutant of DropLease: the lease stays.
KeepLease(j) == leases

\* leases.remove(&id).
DropLease(j) == [leases EXCEPT ![j] = NoLease]

\* Mutant of DropReady: the id stays in the ready queue.
KeepReady(j) == ready

\* ready.retain(|&jid| jid != id); an id is in a queue at most once
\* (ReadyIsQueued).
Without(s, e) ==
    IF e \in Range(s)
    THEN LET i == CHOOSE i \in DOMAIN s : s[i] = e
         IN SubSeq(s, 1, i - 1) \o SubSeq(s, i + 1, Len(s))
    ELSE s

DropReady(j) == [ready EXCEPT ![QueueOf[j]] = Without(@, j)]

\* e pushed to position i of the retry heap's order.
PushAt(s, i, e) == SubSeq(s, 1, i - 1) \o <<e>> \o SubSeq(s, i, Len(s))

-----------------------------------------------------------------------------
\* try_lease_job.

\* The front of the queue can be leased.
Leaseable(q) ==
    /\ ready[q] # <<>>
    /\ store[Head(ready[q])].state = "Queued"

\* How many queues the round robin looks at before q.
Turn(q) == (q + NumQueues - nextQueueIdx) % NumQueues

\* Mutant of ReachesQueue: the queues are visited in any order.
ReachesAnyQueue(q) == TRUE

\* The queues visited before q had nothing to lease, or persist failed there.
ReachesQueue(q) ==
    \A p \in Queues : Leaseable(p) /\ Turn(p) < Turn(q) => PersistMayFail

\* Mutant of EpochAfter: the epoch is issued again.
EpochAgain == nextLeaseEpoch

\* next_lease_epoch += 1.
EpochAfter == nextLeaseEpoch + 1

\* The front job of q is leased to worker w.
GrantLease(q, w) ==
    /\ Leaseable(q)
    /\ ReachesQueue(q)
    /\ nextQueueIdx' = (q + 1) % NumQueues
    /\ LET j == Head(ready[q])
           r == Record("JobLeased", j, nextLeaseEpoch, store[j].attempts + 1)
       IN /\ logged' = ApplyRecordForRecovery(logged, r)
          /\ lastLease' = [lastLease EXCEPT ![j] = nextLeaseEpoch]
          /\ ready' = [ready EXCEPT ![q] = Tail(@)]
          /\ store' = ApplyRecord(store, r)
          /\ leases' = [leases EXCEPT
                            ![j] = [epoch |-> nextLeaseEpoch, expired |-> FALSE]]
          /\ stats' = MoveStat(q, "Queued", "Running")
          /\ worker' = [worker EXCEPT
                            ![w].at = "offered",
                            ![w].work = [job |-> j, lease |-> nextLeaseEpoch]]
    /\ nextLeaseEpoch' = EpochAfter

\* try_lease_job may come back with nothing: no front can be leased, or every
\* persist failed.
NothingLeased == \A q \in Queues : Leaseable(q) => PersistMayFail

-----------------------------------------------------------------------------
\* Mutant of Exposed: the error of persist is logged and then ignored.
ExposedAnyway(r, ok) == Applicable(store, r)

\* The change becomes visible: persist and apply_record both returned Ok.
Exposed(r, ok) == ok /\ Applicable(store, r)

\* complete_job, dead_job and schedule_retry share one shape: the lease is
\* already gone, then persist, then apply, then expose.  When persist fails
\* nothing else happens, and nothing is confirmed: what a failed call leaves in
\* the file is the subject of Recovery.
Settle(j, type, ok) ==
    LET r == Record(type, j, leases[j].epoch, store[j].attempts)
        exposed == Exposed(r, ok)
    IN /\ leases' = DropLease(j)
       /\ logged' = IF ok THEN ApplyRecordForRecovery(logged, r) ELSE logged
       /\ store' = IF exposed THEN ApplyRecord(store, r) ELSE store
       /\ stats' = IF exposed
                   THEN MoveStat(QueueOf[j], "Running", TargetState[type])
                   ELSE stats
       /\ IF exposed /\ TargetState[type] \in Terminal
          THEN ReleasePermit(j)
          ELSE UNCHANGED <<permits, avail>>
       /\ IF exposed /\ type = "JobRetryScheduled"
          THEN \E i \in dueCount + 1 .. Len(retryQueue) + 1 :
                  retryQueue' = PushAt(retryQueue, i, j)
          ELSE UNCHANGED retryQueue
       /\ UNCHANGED <<lastLease, ready, nextQueueIdx, nextLeaseEpoch, dueCount,
                      submitted>>

\* Mutant of RetryOrDead: off by one.
RetryOnceMore(j) ==
    IF store[j].attempts > MaxAttempts[j] THEN "JobDead" ELSE "JobRetryScheduled"

\* The job failed or its lease ran out: dead once the attempts are used up.
RetryOrDead(j) ==
    IF store[j].attempts >= MaxAttempts[j] THEN "JobDead" ELSE "JobRetryScheduled"

OutcomeRecord(j, outcome) ==
    CASE outcome = "Success" -> "JobCompleted"
      [] outcome = "Fatal"   -> "JobDead"
      [] OTHER               -> RetryOrDead(j)

-----------------------------------------------------------------------------
\* One pass of the run loop: pc goes "loop" (retries), "work" (timeouts, then
\* parked workers), "select".

\* process_due_retries, one entry; the entry of a job cancelled meanwhile is
\* dropped.
ProcessDueRetry ==
    /\ pc = "loop"
    /\ dueCount > 0
    /\ dueCount' = dueCount - 1
    /\ retryQueue' = Tail(retryQueue)
    /\ LET j == Head(retryQueue) q == QueueOf[j]
       IN IF store[j].state = "RetryWaiting"
          THEN /\ store' = TransitionToQueued(store, j)
               /\ ready' = [ready EXCEPT ![q] = Append(@, j)]
               /\ stats' = MoveStat(q, "RetryWaiting", "Queued")
          ELSE UNCHANGED <<store, ready, stats>>
    /\ UNCHANGED <<storageVars, nextQueueIdx, permits, leases, nextLeaseEpoch,
                   submitted, loopVars, stopVars, actorVars, parked, avail, cmds>>

\* check_lease_timeouts collects the expired leases before it settles any.
CollectTimeouts ==
    /\ pc = "loop"
    /\ dueCount = 0
    /\ timedOut' = {j \in Jobs : leases[j].expired}
    /\ pc' = "work"
    /\ UNCHANGED <<storageVars, jobVars, timerVars, statVars, replyTo, stopVars,
                   actorVars, parked, avail, cmds>>

\* check_lease_timeouts settles one of them, in the map's arbitrary order.
SettleTimeout ==
    /\ pc = "work"
    /\ \E j \in timedOut, ok \in PersistOutcome :
          /\ timedOut' = timedOut \ {j}
          /\ Settle(j, RetryOrDead(j), ok)
    /\ UNCHANGED <<pc, replyTo, stopVars, actorVars, parked, cmds>>

\* try_dispatch_parked_workers, one round of its loop; do_submit calls it too.
DispatchParked ==
    /\ pc \in {"work", "submit"}
    /\ timedOut = {}
    /\ ~shuttingDown
    /\ parked # <<>>
    /\ \E q \in Queues : GrantLease(q, Head(parked))
    /\ parked' = Tail(parked)
    /\ UNCHANGED <<permits, timerVars, submitted, loopVars, stopVars, client,
                   canceller, shutter, avail, cmds>>

\* Mutant of DispatchDone: only do_submit dispatches, the run loop does not.
DispatchOnSubmitOnly ==
    /\ timedOut = {}
    /\ shuttingDown \/ parked = <<>> \/ NothingLeased \/ pc = "work"

\* The loop of try_dispatch_parked_workers is over.
DispatchDone ==
    /\ timedOut = {}
    /\ shuttingDown \/ parked = <<>> \/ NothingLeased

NoLeases == \A j \in Jobs : leases[j] = NoLease

\* No exit condition holds: wait for a command or a deadline.
EnterSelect ==
    /\ pc = "work"
    /\ DispatchDone
    /\ ~(shuttingDown /\ NoLeases)
    /\ deadline # "elapsed"
    /\ pc' = "select"
    /\ UNCHANGED <<storageVars, jobVars, timerVars, statVars, timedOut, replyTo,
                   stopVars, actorVars, parked, avail, cmds>>

\* Mutants of DeadlinePassed: next_deadline leaves out the retry queue; the leases.
LeaseDeadlinePassed == (\E j \in Jobs : leases[j].expired) \/ deadline = "elapsed"
RetryDeadlinePassed == dueCount > 0 \/ deadline = "elapsed"

\* next_deadline is the earliest of these and has passed.
DeadlinePassed ==
    \/ dueCount > 0
    \/ \E j \in Jobs : leases[j].expired
    \/ deadline = "elapsed"

\* sleep_until(next_deadline): the select is biased to commands.
WakeOnDeadline ==
    /\ pc = "select"
    /\ cmds = <<>>
    /\ DeadlinePassed
    /\ pc' = "loop"
    /\ UNCHANGED <<storageVars, jobVars, timerVars, statVars, timedOut, replyTo,
                   stopVars, actorVars, parked, avail, cmds>>

\* The loop is left: the task ends, its permits and the commands still in the
\* channel are dropped, and whoever waited for a reply gets an error.
Terminate ==
    LET dropped(q) == {j \in Jobs :
                          /\ QueueOf[j] = q
                          /\ \/ j \in permits
                             \/ \E i \in DOMAIN cmds :
                                   cmds[i] = [kind |-> "Submit", job |-> j]}
    IN /\ pc' = "done"
       /\ cmds' = <<>>
       /\ permits' = {}
       /\ avail' = [q \in Queues |-> avail[q] + Cardinality(dropped(q))]
       /\ client' = [j \in Jobs |->
                        IF client[j] = "sent" THEN "err" ELSE client[j]]
       /\ canceller' = [j \in Jobs |->
                           IF canceller[j] = "sent" THEN "err" ELSE canceller[j]]
       /\ shutter' = IF shutter = "idle" THEN "idle" ELSE "replied"
       /\ UNCHANGED <<storageVars, store, ready, nextQueueIdx, nextLeaseEpoch,
                      timerVars, statVars, timedOut, replyTo, stopVars, worker,
                      parked>>

\* complete_shutdown.
CompleteShutdown ==
    /\ pc = "work"
    /\ DispatchDone
    /\ shuttingDown
    /\ NoLeases
    /\ Terminate
    /\ UNCHANGED leases

\* force_shutdown.
ForceShutdown ==
    /\ pc = "work"
    /\ DispatchDone
    /\ ~NoLeases
    /\ deadline = "elapsed"
    /\ Terminate
    /\ leases' = [j \in Jobs |-> NoLease]

-----------------------------------------------------------------------------
\* handle, one action per command.

\* Mutant of RejectSubmit: the submitter is told Ok.
RejectSubmitSilently ==
    /\ Receive("Submit")
    /\ LET j == Head(cmds).job
       IN /\ shuttingDown \/ j \in Oversized \/ PersistMayFail
          /\ avail' = [avail EXCEPT ![QueueOf[j]] = @ + 1]
          /\ client' = [client EXCEPT ![j] = "ok"]
    /\ pc' = "loop"
    /\ UNCHANGED <<storageVars, jobVars, timerVars, statVars, timedOut, replyTo,
                   stopVars, worker, canceller, shutter, parked>>

\* Submit is refused: shutting down, payload too large, or persist failed and
\* confirmed no record.  The permit is dropped with the command.
RejectSubmit ==
    /\ Receive("Submit")
    /\ LET j == Head(cmds).job
       IN /\ shuttingDown \/ j \in Oversized \/ PersistMayFail
          /\ avail' = [avail EXCEPT ![QueueOf[j]] = @ + 1]
          /\ client' = [client EXCEPT ![j] = "err"]
    /\ pc' = "loop"
    /\ UNCHANGED <<storageVars, jobVars, timerVars, statVars, timedOut, replyTo,
                   stopVars, worker, canceller, shutter, parked>>

\* do_submit up to its call of try_dispatch_parked_workers.
AcceptSubmit ==
    /\ Receive("Submit")
    /\ ~shuttingDown
    /\ LET j == Head(cmds).job
           q == QueueOf[j]
           r == Record("JobSubmitted", j, 0, 0)
       IN /\ j \notin Oversized
          /\ logged' = ApplyRecordForRecovery(logged, r)
          /\ store' = ApplyRecord(store, r)
          /\ permits' = permits \cup {j}
          /\ ready' = [ready EXCEPT ![q] = Append(@, j)]
          /\ stats' = [stats EXCEPT ![q]["Queued"] = @ + 1]
          /\ replyTo' = j
    /\ submitted' = submitted + 1
    /\ pc' = "submit"
    /\ UNCHANGED <<lastLease, nextQueueIdx, leases, nextLeaseEpoch, timerVars,
                   timedOut, stopVars, actorVars, parked, avail>>

\* do_submit after the dispatch: Ok goes back to the submitter.
ReplySubmit ==
    /\ pc = "submit"
    /\ DispatchDone
    /\ client' = [client EXCEPT ![replyTo] = "ok"]
    /\ replyTo' = None
    /\ pc' = "loop"
    /\ UNCHANGED <<storageVars, jobVars, timerVars, statVars, timedOut, stopVars,
                   worker, canceller, shutter, parked, avail, cmds>>

\* do_cancel fails: there is no such job, it is already terminal, or persist
\* failed.
RejectCancel ==
    /\ Receive("Cancel")
    /\ LET j == Head(cmds).job
       IN /\ store[j].state \notin Live \/ PersistMayFail
          /\ canceller' = [canceller EXCEPT ![j] = "err"]
    /\ pc' = "loop"
    /\ UNCHANGED <<storageVars, jobVars, timerVars, statVars, timedOut, replyTo,
                   stopVars, worker, client, shutter, parked, avail>>

\* do_cancel.  A retry entry stays in the heap.
AcceptCancel ==
    /\ Receive("Cancel")
    /\ LET j == Head(cmds).job
           q == QueueOf[j]
           from == store[j].state
           r == Record("JobCancelled", j, 0, 0)
       IN /\ from \in Live
          /\ logged' = ApplyRecordForRecovery(logged, r)
          /\ store' = ApplyRecord(store, r)
          /\ ready' = IF from = "Queued" THEN DropReady(j) ELSE ready
          /\ leases' = IF from = "Running" THEN DropLease(j) ELSE leases
          /\ stats' = MoveStat(q, from, "Cancelled")
          /\ ReleasePermit(j)
          /\ canceller' = [canceller EXCEPT ![j] = "ok"]
    /\ pc' = "loop"
    /\ UNCHANGED <<lastLease, nextQueueIdx, nextLeaseEpoch, timerVars, submitted,
                   timedOut, replyTo, stopVars, worker, client, shutter, parked>>

\* do_fetch_work hands out a lease.
LeaseToFetcher ==
    /\ Receive("FetchWork")
    /\ ~shuttingDown
    /\ \E q \in Queues : GrantLease(q, Head(cmds).worker)
    /\ pc' = "loop"
    /\ UNCHANGED <<permits, timerVars, submitted, timedOut, replyTo, stopVars,
                   client, canceller, shutter, parked, avail>>

\* do_fetch_work has nothing to hand out: park the worker, or tell it to stop.
ParkFetcher ==
    /\ Receive("FetchWork")
    /\ LET w == Head(cmds).worker
       IN IF shuttingDown
          THEN /\ worker' = [worker EXCEPT
                                ![w].at = IF @ = "waiting" THEN "refused" ELSE @]
               /\ UNCHANGED parked
          ELSE /\ NothingLeased
               /\ parked' = Append(parked, w)
               /\ UNCHANGED worker
    /\ pc' = "loop"
    /\ UNCHANGED <<storageVars, jobVars, timerVars, statVars, timedOut, replyTo,
                   stopVars, client, canceller, shutter, avail>>

\* Mutant of IsCurrent: any lease on the job will do.
IsLeased(work) == leases[work.job] # NoLease

\* do_worker_outcome's fence: the job is leased, under this very lease.
IsCurrent(work) == leases[work.job].epoch = work.lease

\* do_worker_outcome with a lease that is gone or replaced.
StaleOutcome ==
    /\ Receive("WorkerOutcome")
    /\ ~IsCurrent(Head(cmds).work)
    /\ pc' = "loop"
    /\ UNCHANGED <<storageVars, jobVars, timerVars, statVars, timedOut, replyTo,
                   stopVars, actorVars, parked, avail>>

\* do_worker_outcome with the current lease.
CurrentOutcome ==
    /\ Receive("WorkerOutcome")
    /\ IsCurrent(Head(cmds).work)
    /\ LET j == Head(cmds).work.job
       IN \E ok \in PersistOutcome :
             Settle(j, OutcomeRecord(j, Head(cmds).outcome), ok)
    /\ pc' = "loop"
    /\ UNCHANGED <<timedOut, replyTo, stopVars, actorVars, parked>>

\* Mutant of ShutdownReply: the caller is answered before the leases are settled.
ReplyAtOnce == "replied"

\* start_shutdown answers at once when no lease is out, otherwise it keeps the
\* reply channel.
ShutdownReply == IF NoLeases \/ shuttingDown THEN "replied" ELSE "held"

\* start_shutdown.  With no lease out the reply goes at once, otherwise it is
\* kept and the deadline is set.
StartShutdown ==
    /\ Receive("Shutdown")
    /\ shuttingDown' = TRUE
    /\ worker' = [w \in Workers |->
                     IF w \in Range(parked) /\ worker[w].at = "waiting"
                     THEN [worker[w] EXCEPT !.at = "refused"]
                     ELSE worker[w]]
    /\ parked' = <<>>
    /\ deadline' = IF NoLeases \/ shuttingDown THEN deadline ELSE "set"
    /\ shutter' = ShutdownReply
    /\ pc' = "loop"
    /\ UNCHANGED <<storageVars, jobVars, timerVars, statVars, timedOut, replyTo,
                   client, canceller, avail>>

CoordinatorStep ==
    \/ ProcessDueRetry
    \/ CollectTimeouts
    \/ SettleTimeout
    \/ DispatchParked
    \/ EnterSelect
    \/ WakeOnDeadline
    \/ CompleteShutdown
    \/ ForceShutdown
    \/ RejectSubmit
    \/ AcceptSubmit
    \/ ReplySubmit
    \/ RejectCancel
    \/ AcceptCancel
    \/ LeaseToFetcher
    \/ ParkFetcher
    \/ StaleOutcome
    \/ CurrentOutcome
    \/ StartShutdown
=============================================================================
