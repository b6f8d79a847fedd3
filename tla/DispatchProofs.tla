--------------------------- MODULE DispatchProofs ---------------------------
(***************************************************************************)
(* Dispatch: the ready queues hold the Queued jobs, the round robin passes *)
(* no queue over, and in each queue jobs run for the first time in the     *)
(* order of their submission, over any number of restarts.  Then shutdown: *)
(* when it is answered, the run loop has nothing left to write.            *)
(***************************************************************************)
EXTENDS StepProofs

-----------------------------------------------------------------------------
\* The round robin.

\* How many queues come before q, without the remainder.
LEMMA TurnIs ==
    ASSUME NEW n \in Nat \ {0}, NEW q \in 0 .. n - 1, NEW i \in 0 .. n - 1
    PROVE  (q + n - i) % n = IF i <= q THEN q - i ELSE q + n - i
<1>1. CASE i <= q
  <2> DEFINE r == q - i
  <2>1. r \in 0 .. n - 1 /\ q + n - i = 1 * n + r
    BY <1>1, SMTT(30)
  <2> QED BY <1>1, <2>1, SMTT(30)
<1>2. CASE ~(i <= q)
  BY <1>2, SMTT(30)
<1> QED BY <1>1, <1>2, Zenon

\* Where next_queue_idx goes next.
LEMMA NextIndex ==
    ASSUME NEW n \in Nat \ {0}, NEW q \in 0 .. n - 1
    PROVE  (q + 1) % n = IF q = n - 1 THEN 0 ELSE q + 1
OBVIOUS

\* A lease given to another queue brings q's turn nearer.
LEMMA LeaseNearer ==
    ASSUME TypeOK, ~PersistMayFail, NEW q \in Queues, Leaseable(q), ready'[q] = ready[q],
           NEW p \in Queues, NEW w, GrantLease(p, w)
    PROVE  /\ nextLeaseEpoch' # nextLeaseEpoch
           /\ Turn(q)' < Turn(q)
<1>1. /\ Leaseable(p) /\ ReachesQueue(p)
      /\ nextQueueIdx' = (p + 1) % NumQueues
      /\ ready' = [ready EXCEPT ![p] = Tail(@)]
      /\ nextLeaseEpoch' = nextLeaseEpoch + 1
  BY Zenon DEF GrantLease, EpochAfter
<1>2. /\ NumQueues \in Nat \ {0} /\ nextQueueIdx \in 0 .. NumQueues - 1
      /\ q \in 0 .. NumQueues - 1 /\ p \in 0 .. NumQueues - 1
  BY CoordinatorAssumption, Zenon DEF TypeOK, Queues
<1>3. q # p
  <2>1. ready \in [Queues -> Seq(Jobs)] /\ ready[p] # <<>>
    BY <1>1, Zenon DEF TypeOK, Leaseable
  <2>2. ready'[p] = Tail(ready[p])
    BY <1>1, <2>1, Zenon
  <2>3. Len(Tail(ready[p])) = Len(ready[p]) - 1 /\ Len(ready[p]) \in Nat
    BY <2>1, SeqHeadTail, SeqLen, Zenon
  <2>4. Tail(ready[p]) # ready[p]
    <3> DEFINE n == Len(ready[p])
    <3>1. Len(Tail(ready[p])) = n - 1 /\ n \in Nat
      BY <2>3, Zenon
    <3> HIDE DEF n
    <3>2. n - 1 # n
      BY <3>1, SMTT(30)
    <3> QED BY <3>1, <3>2, Zenon DEF n
  <2> QED BY <2>2, <2>4, Zenon
<1>4. ~(Turn(q) < Turn(p))
  BY <1>1, Zenon DEF ReachesQueue
<1> DEFINE t(x, i) == IF i <= x THEN x - i ELSE x + NumQueues - i
<1>5. Turn(q) = t(q, nextQueueIdx) /\ Turn(p) = t(p, nextQueueIdx)
  BY <1>2, TurnIs, Zenon DEF Turn
<1>6. nextQueueIdx' = IF p = NumQueues - 1 THEN 0 ELSE p + 1
  BY <1>1, <1>2, NextIndex, Zenon
<1>7. nextQueueIdx' \in 0 .. NumQueues - 1
  BY <1>2, <1>6, SMTT(30)
<1>8. Turn(q)' = t(q, nextQueueIdx')
  BY <1>2, <1>7, TurnIs, ZenonT(60) DEF Turn
<1>9. nextLeaseEpoch' # nextLeaseEpoch
  BY <1>1, SMTT(30) DEF TypeOK
<1>10. t(q, nextQueueIdx') < t(q, nextQueueIdx)
  BY <1>2, <1>3, <1>4, <1>5, <1>6, SMTT(30)
<1> QED BY <1>5, <1>8, <1>9, <1>10, ZenonT(60)

\* Nothing but a lease moves the round robin.
LEMMA OthersKeepTurn ==
    [Next]_vars => \/ DispatchParked \/ LeaseToFetcher
                   \/ UNCHANGED <<nextQueueIdx, nextLeaseEpoch>>
<1> DEFINE Quiet == UNCHANGED <<nextQueueIdx, nextLeaseEpoch>>
<1>1. ProcessDueRetry \/ CollectTimeouts \/ EnterSelect \/ WakeOnDeadline
          \/ CompleteShutdown \/ ForceShutdown => Quiet
  BY Zenon DEF ProcessDueRetry, CollectTimeouts, EnterSelect, WakeOnDeadline, CompleteShutdown,
         ForceShutdown, Terminate, jobVars
<1>2. RejectSubmit \/ AcceptSubmit \/ ReplySubmit \/ RejectCancel \/ AcceptCancel
          \/ ParkFetcher \/ StaleOutcome \/ StartShutdown => Quiet
  BY Zenon DEF RejectSubmit, AcceptSubmit, ReplySubmit, RejectCancel, AcceptCancel, ParkFetcher,
         StaleOutcome, StartShutdown, jobVars
<1>3. SettleTimeout \/ CurrentOutcome => Quiet
  BY Zenon DEF SettleTimeout, CurrentOutcome, Settle
<1>4. RetryBecomesDue \/ DeadlineElapses \/ Stopped \/ UNCHANGED vars \/ SendShutdown
          => Quiet
  BY Zenon DEF RetryBecomesDue, DeadlineElapses, Stopped, SendShutdown, ownVars, vars, jobVars
<1>5. ASSUME NEW j \in Jobs
      PROVE  AcquirePermit(j) \/ PermitRefused(j) \/ SendSubmit(j) \/ DropSubmit(j)
                 \/ SendCancel(j) \/ LeaseExpires(j) => Quiet
  BY Zenon DEF AcquirePermit, PermitRefused, SendSubmit, DropSubmit, SendCancel, LeaseExpires,
         ownVars, jobVars
<1>6. ASSUME NEW w \in Workers
      PROVE  WorkerStep(w) \/ (\E o \in HandlerOutcomes : HandlerEnds(w, o)) => Quiet
  BY Zenon DEF WorkerStep, WorkerCheckToken, WorkerFetch, WorkerStop, WorkerStart,
               HandlerAborted, WorkerReport, HandlerEnds, workerFrame, ownVars, jobVars
<1> HIDE DEF Quiet
<1>7. [Next]_vars => DispatchParked \/ LeaseToFetcher \/ Quiet
  BY <1>1, <1>2, <1>3, <1>4, <1>5, <1>6, Zenon DEF Next, CoordinatorStep
<1> QED BY <1>7, Zenon DEF Quiet

-----------------------------------------------------------------------------
\* What a step does to the ready queues.

SameCounts ==
    \A k \in Jobs : /\ logged'[k].attempts = logged[k].attempts
                    /\ logged'[k] = Absent <=> logged[k] = Absent

\* No job becomes Queued or ceases to be.
ReadyKept ==
    /\ ready' = ready
    /\ \A k \in Jobs : store'[k].state = "Queued" <=> store[k].state = "Queued"
    /\ SameCounts

\* Job j joins the end of its queue: a due retry, or a new job.
ReadyPushed(j) ==
    /\ store[j].state # "Queued" /\ store'[j].state = "Queued"
    /\ \A k \in Jobs \ {j} : store'[k] = store[k]
    /\ ready' = [ready EXCEPT ![QueueOf[j]] = Append(@, j)]
    /\ \/ logged' = logged /\ logged[j].attempts # 0
       \/ /\ logged[j] = Absent
          /\ logged' = [logged EXCEPT ![j] = [state |-> "Queued", attempts |-> 0]]

\* The i-th job of queue q leaves it: cancelled, or leased as the first one.
ReadyCut(q, i) ==
    LET j == ready[q][i]
    IN /\ store'[j].state # "Queued"
       /\ \A k \in Jobs \ {j} : store'[k] = store[k]
       /\ IsCut(ready[q], ready'[q], i)
       /\ \A p \in Queues \ {q} : ready'[p] = ready[p]
       /\ \/ SameCounts
          \/ /\ i = 1 /\ logged[j] # Absent
             /\ logged' = [logged EXCEPT
                              ![j] = [state    |-> "Running",
                                      attempts |-> logged[j].attempts + 1]]

ReadyStep ==
    \/ ReadyKept
    \/ \E j \in Jobs : ReadyPushed(j)
    \/ \E q \in Queues : \E i \in 1 .. Len(ready[q]) : ReadyCut(q, i)

\* What a step does to the counters of do_stats and to the retry heap.

\* Job j is new.
Enrolled(j) ==
    /\ store[j] = Absent /\ store'[j].state = "Queued"
    /\ \A k \in Jobs \ {j} : store'[k] = store[k]
    /\ stats' = [stats EXCEPT ![QueueOf[j]]["Queued"] = @ + 1]
    /\ submitted' = submitted + 1
    /\ retryQueue' = retryQueue

\* Job j goes from one state to another; its timer fires, is set, or is left
\* alone.
Moved(j, from, to) ==
    /\ from \in Live /\ to \in JobState \ {from}
    /\ store[j].state = from /\ store'[j].state = to
    /\ \A k \in Jobs \ {j} : store'[k] = store[k]
    /\ stats' = MoveStat(QueueOf[j], from, to)
    /\ submitted' = submitted
    /\ \/ /\ from = "RetryWaiting" /\ to = "Queued"
          /\ retryQueue # <<>> /\ j = Head(retryQueue) /\ retryQueue' = Tail(retryQueue)
       \/ /\ from = "Running" /\ to = "RetryWaiting"
          /\ \E i \in 1 .. Len(retryQueue) + 1 : retryQueue' = PushAt(retryQueue, i, j)
       \/ /\ to # "RetryWaiting" /\ (from = "RetryWaiting" => to = "Cancelled")
          /\ retryQueue' = retryQueue

\* The timer of a job that was cancelled.
StaleTimer ==
    /\ retryQueue # <<>> /\ store[Head(retryQueue)].state # "RetryWaiting"
    /\ retryQueue' = Tail(retryQueue)
    /\ UNCHANGED <<store, stats, submitted>>

BookStep ==
    \/ UNCHANGED <<store, stats, submitted, retryQueue>>
    \/ StaleTimer
    \/ \E j \in Jobs : Enrolled(j)
    \/ \E j \in Jobs : \E from, to : Moved(j, from, to)

\* A step that touches neither the jobs nor the queues.
LEMMA Untouched ==
    ASSUME UNCHANGED <<store, ready, logged, stats, submitted, retryQueue>>
    PROVE  ReadyStep /\ BookStep
BY Zenon DEF ReadyStep, ReadyKept, SameCounts, BookStep

\* The types these steps use.
LEMMA ReadyTypes ==
    ASSUME SafetyInv
    PROVE  /\ ready \in [Queues -> Seq(Jobs)] /\ retryQueue \in Seq(Jobs)
           /\ dueCount \in Nat
           /\ store \in [Jobs -> JobRecord] /\ logged \in [Jobs -> JobRecord]
           /\ QueueOf \in [Jobs -> Queues]
           /\ {"Queued", "Running", "RetryWaiting"} \subseteq Live
           /\ \A s \in Live : s \in JobState /\ s \notin Terminal
<1>1. {"Queued", "Running", "RetryWaiting"} \subseteq Live
      /\ \A s \in Live : s \in JobState /\ s \notin Terminal
  BY Zenon DEF Live, JobState, Terminal
<1>2. dueCount \in Nat
  BY DEF SafetyInv, TypeOK
<1> QED BY <1>1, <1>2, CoordinatorAssumption, ZenonT(60) DEF SafetyInv, TypeOK

\* process_due_retries.
LEMMA RetryReady == SafetyInv /\ LogShape /\ ProcessDueRetry => ReadyStep /\ BookStep
<1> SUFFICES ASSUME SafetyInv, LogShape, ProcessDueRetry PROVE ReadyStep /\ BookStep
  BY Zenon
<1> DEFINE j == Head(retryQueue)
           n == store[j].attempts
<1>1. /\ logged' = logged /\ submitted' = submitted /\ retryQueue' = Tail(retryQueue)
      /\ IF store[j].state = "RetryWaiting"
         THEN /\ ready' = [ready EXCEPT ![QueueOf[j]] = Append(@, j)]
              /\ stats' = MoveStat(QueueOf[j], "RetryWaiting", "Queued")
         ELSE UNCHANGED <<store, ready, stats>>
  BY Zenon DEF ProcessDueRetry, storageVars
<1>2. /\ j \in Jobs /\ retryQueue # <<>> /\ j = Head(retryQueue)
      /\ store[j].state = "RetryWaiting" =>
            store' = [store EXCEPT ![j] = [state |-> "Queued", attempts |-> n]]
  BY RetryEffect, Zenon
<1> HIDE DEF j, n
<1>3. CASE store[j].state # "RetryWaiting"
  <2>1. ReadyStep
    BY <1>1, <1>3, Zenon DEF ReadyStep, ReadyKept, SameCounts
  <2>2. BookStep
    BY <1>1, <1>2, <1>3, Zenon DEF BookStep, StaleTimer
  <2> QED BY <2>1, <2>2, Zenon
<1>4. CASE store[j].state = "RetryWaiting"
  <2>1. logged[j].attempts # 0
    <3>1. logged[j].state = "RetryWaiting"
      BY <1>2, <1>4, Matched, ZenonT(60)
    <3> QED BY <1>2, <3>1, SMTT(30) DEF LogShape, RecoveredEntry, Absent
  <2>2. /\ store'[j].state = "Queued"
        /\ \A k \in Jobs \ {j} : store'[k] = store[k]
    BY <1>2, <1>4, ReadyTypes, SMTT(30)
  <2>3. ReadyPushed(j)
    BY <1>1, <1>4, <2>1, <2>2, ZenonT(60) DEF ReadyPushed
  <2>4. "RetryWaiting" \in Live /\ "Queued" \in JobState \ {"RetryWaiting"}
    BY ReadyTypes, Zenon
  <2>5. Moved(j, "RetryWaiting", "Queued")
    BY <1>1, <1>2, <1>4, <2>2, <2>4, ZenonT(60) DEF Moved
  <2> QED BY <1>2, <2>3, <2>5, ZenonT(60) DEF ReadyStep, BookStep
<1> QED BY <1>3, <1>4, Zenon

\* do_submit.
LEMMA SubmitReady == SafetyInv /\ AcceptSubmit => ReadyStep /\ BookStep
<1> SUFFICES ASSUME SafetyInv, AcceptSubmit PROVE ReadyStep /\ BookStep
  BY Zenon
<1> DEFINE j == Head(cmds).job
<1>1. /\ ready' = [ready EXCEPT ![QueueOf[j]] = Append(@, j)]
      /\ stats' = [stats EXCEPT ![QueueOf[j]]["Queued"] = @ + 1]
      /\ submitted' = submitted + 1
      /\ retryQueue' = retryQueue
  BY Zenon DEF AcceptSubmit, timerVars
<1>2. /\ j \in Jobs /\ store[j] = Absent /\ logged[j] = Absent
      /\ store' = [store EXCEPT ![j] = [state |-> "Queued", attempts |-> 0]]
      /\ logged' = [logged EXCEPT ![j] = [state |-> "Queued", attempts |-> 0]]
  BY SubmitEffect, Zenon
<1> HIDE DEF j
<1>3. /\ store[j].state # "Queued" /\ store'[j].state = "Queued"
      /\ \A k \in Jobs \ {j} : store'[k] = store[k]
  BY <1>2, ReadyTypes, SMTT(30) DEF Absent
<1>4. ReadyPushed(j)
  BY <1>1, <1>2, <1>3, ZenonT(60) DEF ReadyPushed
<1>5. Enrolled(j)
  BY <1>1, <1>2, <1>3, Zenon DEF Enrolled
<1> QED BY <1>2, <1>4, <1>5, ZenonT(60) DEF ReadyStep, BookStep

\* A lease takes the first job of a queue.
LEMMA LeaseReady ==
    SafetyInv /\ ReadyIsQueued /\ (DispatchParked \/ LeaseToFetcher) => ReadyStep /\ BookStep
<1> SUFFICES ASSUME SafetyInv, ReadyIsQueued, DispatchParked \/ LeaseToFetcher
             PROVE  ReadyStep /\ BookStep
  BY Zenon
<1>1. PICK q \in Queues, w \in Workers : GrantLease(q, w)
  BY LeaseGranted, Zenon
<1> DEFINE j == Head(ready[q])
           n == store[j].attempts
           e == [state |-> "Running", attempts |-> n + 1]
<1>2. /\ ready[q] # <<>> /\ j \in Jobs /\ store[j].state = "Queued"
      /\ store' = [store EXCEPT ![j] = e]
      /\ logged' = [logged EXCEPT ![j] = e]
  BY <1>1, GrantEffect, Zenon
<1>3. /\ ready' = [ready EXCEPT ![q] = Tail(@)]
      /\ stats' = MoveStat(q, "Queued", "Running")
  BY <1>1, Zenon DEF GrantLease, EpochAfter
<1>4. submitted' = submitted /\ retryQueue' = retryQueue
  BY Zenon DEF DispatchParked, LeaseToFetcher, timerVars
<1>5. /\ IsCut(ready[q], ready'[q], 1) /\ 1 \in 1 .. Len(ready[q]) /\ j = ready[q][1]
      /\ \A p \in Queues \ {q} : ready'[p] = ready[p]
  <2>1. ready'[q] = Tail(ready[q]) /\ \A p \in Queues \ {q} : ready'[p] = ready[p]
    BY <1>3, ReadyTypes, Zenon
  <2>2. ready[q] \in Seq(Jobs)
    BY ReadyTypes, Zenon
  <2> QED BY <1>2, <2>1, <2>2, TailCuts, ZenonT(60)
<1>6. QueueOf[j] = q
  <2>1. 1 \in DOMAIN ready[q]
    BY <1>2, ReadyTypes, SeqHeadTail, ZenonT(60)
  <2>2. j \in Range(ready[q])
    BY <1>5, <2>1, ZenonT(60) DEF Range
  <2> QED BY <2>2, Zenon DEF ReadyIsQueued, JobsIn
<1>7. logged[j].attempts = n /\ logged[j] # Absent
  BY <1>2, Matched, SMTT(30) DEF Absent
<1> HIDE DEF j, n
<1>8. /\ store'[j].state = "Running"
      /\ \A k \in Jobs \ {j} : store'[k] = store[k]
  BY <1>2, ReadyTypes, Zenon
<1> HIDE DEF e
<1>9. ReadyCut(q, 1)
  <2>1. e = [state |-> "Running", attempts |-> logged[j].attempts + 1]
    BY <1>7, Zenon DEF e
  <2>2. store'[j].state # "Queued"
    BY <1>8, Zenon
  <2> QED BY <1>2, <1>5, <1>7, <1>8, <2>1, <2>2, ZenonT(60) DEF ReadyCut
<1>10. "Queued" \in Live /\ "Running" \in JobState \ {"Queued"} /\ "Running" # "RetryWaiting"
       /\ "Queued" # "RetryWaiting"
  BY ReadyTypes, Zenon
<1>11. Moved(j, "Queued", "Running")
  BY <1>2, <1>3, <1>4, <1>6, <1>8, <1>10, ZenonT(60) DEF Moved
<1> QED BY <1>2, <1>5, <1>9, <1>11, ZenonT(60) DEF ReadyStep, BookStep

\* do_cancel.
LEMMA CancelReady == SafetyInv /\ ReadyIsQueued /\ AcceptCancel => ReadyStep /\ BookStep
<1> SUFFICES ASSUME SafetyInv, ReadyIsQueued, AcceptCancel PROVE ReadyStep /\ BookStep
  BY Zenon
<1> DEFINE j == Head(cmds).job
           q == QueueOf[j]
           n == store[j].attempts
<1>1. /\ ready' = IF store[j].state = "Queued" THEN DropReady(j) ELSE ready
      /\ stats' = MoveStat(QueueOf[j], store[j].state, "Cancelled")
      /\ submitted' = submitted /\ retryQueue' = retryQueue
  BY Zenon DEF AcceptCancel, timerVars
<1>2. /\ j \in Jobs /\ store[j].state \in Live /\ store[j].state # "Absent"
      /\ store' = [store EXCEPT ![j] = [state |-> "Cancelled", attempts |-> n]]
      /\ logged' = [logged EXCEPT ![j] = [state |-> "Cancelled", attempts |-> n]]
  BY CancelEffect, Zenon
<1>3. logged[j].attempts = n /\ logged[j].state # "Absent"
  BY <1>2, Matched, Zenon
<1> HIDE DEF j, n
<1>4. /\ store'[j].state = "Cancelled"
      /\ \A k \in Jobs \ {j} : store'[k] = store[k]
  BY <1>2, ReadyTypes, Zenon
<1>5. SameCounts
  <2>1. /\ logged'[j].attempts = logged[j].attempts
        /\ logged'[j].state = "Cancelled"
        /\ \A k \in Jobs \ {j} : logged'[k] = logged[k]
    BY <1>2, <1>3, ReadyTypes, ZenonT(60)
  <2> QED BY <1>3, <2>1, SMTT(30) DEF SameCounts, Absent
<1>6. BookStep
  <2>1. /\ store[j].state # "Cancelled" /\ "Cancelled" # "RetryWaiting"
        /\ "Cancelled" \in JobState
    BY <1>2, ReadyTypes, Zenon DEF Terminal, JobState
  <2>2. Moved(j, store[j].state, "Cancelled")
    BY <1>1, <1>2, <1>4, <2>1, ZenonT(60) DEF Moved
  <2> QED BY <1>2, <2>2, Zenon DEF BookStep
<1>7. CASE store[j].state # "Queued"
  BY <1>1, <1>4, <1>5, <1>6, <1>7, ZenonT(60) DEF ReadyStep, ReadyKept
<1>8. CASE store[j].state = "Queued"
  <2>1. q \in Queues /\ ready[q] \in Seq(Jobs)
    BY <1>2, ReadyTypes, Zenon
  <2>2. /\ ready'[q] = Without(ready[q], j)
        /\ \A p \in Queues \ {q} : ready'[p] = ready[p]
    BY <1>1, <1>8, <2>1, ReadyTypes, ZenonT(60) DEF DropReady
  <2>3. j \in Range(ready[q])
    BY <1>2, <1>8, <2>1, ZenonT(60) DEF ReadyIsQueued, JobsIn
  <2>4. PICK i \in 1 .. Len(ready[q]) :
             ready[q][i] = j /\ IsCut(ready[q], Without(ready[q], j), i)
    BY <2>1, <2>3, WithoutCuts, ZenonT(60)
  <2>5. ReadyCut(q, i)
    BY <1>4, <1>5, <2>2, <2>4, ZenonT(60) DEF ReadyCut
  <2> QED BY <1>6, <2>1, <2>4, <2>5, ZenonT(60) DEF ReadyStep
<1> QED BY <1>7, <1>8, Zenon

\* complete_job, dead_job and schedule_retry.
LEMMA OutcomeReady == SafetyInv /\ (SettleTimeout \/ CurrentOutcome) => ReadyStep /\ BookStep
<1> SUFFICES ASSUME SafetyInv, SettleTimeout \/ CurrentOutcome PROVE ReadyStep /\ BookStep
  BY Zenon
<1>1. PICK j \in Jobs, ok \in BOOLEAN,
           type \in {"JobRetryScheduled", "JobCompleted", "JobDead"} :
              leases[j] # NoLease /\ Settle(j, type, ok)
  BY LeaseSettled, Zenon
<1> DEFINE to == TargetState[type]
           n == store[j].attempts
<1>2. ready' = ready /\ submitted' = submitted
  BY <1>1, Zenon DEF Settle
<1>3. /\ store[j].state = "Running" /\ logged[j] = store[j]
      /\ to \in {"RetryWaiting", "Completed", "Dead"}
      /\ ok => /\ store' = [store EXCEPT ![j] = [state |-> to, attempts |-> n]]
               /\ logged' = [logged EXCEPT ![j] = [state |-> to, attempts |-> n]]
               /\ stats' = MoveStat(QueueOf[j], "Running", to)
               /\ IF to = "RetryWaiting"
                  THEN \E i \in dueCount + 1 .. Len(retryQueue) + 1 :
                          retryQueue' = PushAt(retryQueue, i, j)
                  ELSE retryQueue' = retryQueue
      /\ ~ok => UNCHANGED <<store, logged, stats, retryQueue>>
  <2>1. Settled(j, type, ok, to)
    BY <1>1, SettleEffect, Zenon
  <2> HIDE DEF to
  <2> QED BY <2>1, Zenon DEF Settled
<1> HIDE DEF to
<1>4. CASE ~ok
  BY <1>2, <1>3, <1>4, Untouched, ZenonT(60)
<1>5. CASE ok
  <2>1. /\ store'[j].state = to /\ logged'[j].state = to
        /\ logged'[j].attempts = logged[j].attempts
        /\ \A k \in Jobs \ {j} : store'[k] = store[k] /\ logged'[k] = logged[k]
    BY <1>3, <1>5, ReadyTypes, SMTT(30)
  <2>2. SameCounts
    BY <1>3, <2>1, SMTT(30) DEF SameCounts, Absent
  <2>3. ReadyStep
    BY <1>2, <1>3, <2>1, <2>2, ZenonT(60) DEF ReadyStep, ReadyKept
  <2>4. "Running" \in Live /\ to \in JobState \ {"Running"} /\ "Running" # "RetryWaiting"
    BY <1>3, ReadyTypes, Zenon DEF JobState
  <2>5. \A i \in dueCount + 1 .. Len(retryQueue) + 1 : i \in 1 .. Len(retryQueue) + 1
    <3>1. Len(retryQueue) \in Nat /\ dueCount \in Nat
      BY ReadyTypes, SeqLen, Zenon
    <3> QED BY <3>1, SMTT(30)
  <2>6. Moved(j, "Running", to)
    BY <1>2, <1>3, <1>5, <2>1, <2>4, <2>5, ZenonT(60) DEF Moved
  <2> QED BY <2>3, <2>6, Zenon DEF BookStep
<1> QED BY <1>4, <1>5, Zenon

\* All other steps leave the queues, the tables and the books alone.
LEMMA OthersKeepReady ==
    [Next]_vars => \/ ProcessDueRetry \/ AcceptSubmit \/ AcceptCancel
                   \/ DispatchParked \/ LeaseToFetcher
                   \/ SettleTimeout \/ CurrentOutcome
                   \/ UNCHANGED <<store, ready, logged, stats, submitted, retryQueue>>
<1> DEFINE Quiet == UNCHANGED <<store, ready, logged, stats, submitted, retryQueue>>
<1>1. CollectTimeouts \/ EnterSelect \/ WakeOnDeadline \/ CompleteShutdown
          \/ ForceShutdown => Quiet
  BY Zenon DEF CollectTimeouts, EnterSelect, WakeOnDeadline, CompleteShutdown, ForceShutdown,
         Terminate, jobVars, storageVars, statVars, timerVars
<1>2. RejectSubmit \/ ReplySubmit \/ RejectCancel \/ ParkFetcher \/ StaleOutcome
          \/ StartShutdown => Quiet
  BY Zenon DEF RejectSubmit, ReplySubmit, RejectCancel, ParkFetcher, StaleOutcome, StartShutdown,
         jobVars, storageVars, statVars, timerVars
<1>3. RetryBecomesDue \/ DeadlineElapses \/ Stopped \/ UNCHANGED vars \/ SendShutdown
          => Quiet
  BY Zenon DEF RetryBecomesDue, DeadlineElapses, Stopped, SendShutdown, ownVars, vars, jobVars,
         storageVars, statVars, timerVars
<1>4. ASSUME NEW j \in Jobs
      PROVE  AcquirePermit(j) \/ PermitRefused(j) \/ SendSubmit(j) \/ DropSubmit(j)
                 \/ SendCancel(j) \/ LeaseExpires(j) => Quiet
  BY Zenon DEF AcquirePermit, PermitRefused, SendSubmit, DropSubmit, SendCancel, LeaseExpires,
         ownVars, jobVars, storageVars, statVars, timerVars
<1>5. ASSUME NEW w \in Workers
      PROVE  WorkerStep(w) \/ (\E o \in HandlerOutcomes : HandlerEnds(w, o)) => Quiet
  BY Zenon DEF WorkerStep, WorkerCheckToken, WorkerFetch, WorkerStop, WorkerStart,
               HandlerAborted, WorkerReport, HandlerEnds, workerFrame, ownVars, jobVars,
               storageVars, statVars, timerVars
<1> HIDE DEF Quiet
<1>6. [Next]_vars => \/ ProcessDueRetry \/ AcceptSubmit \/ AcceptCancel
                     \/ DispatchParked \/ LeaseToFetcher
                     \/ SettleTimeout \/ CurrentOutcome
                     \/ Quiet
  BY <1>1, <1>2, <1>3, <1>4, <1>5, ZenonT(60) DEF Next, CoordinatorStep
<1> QED BY <1>6, Zenon DEF Quiet

\* Every step is one of the steps ReadyStep and BookStep describe.
LEMMA NextReady ==
    SafetyInv /\ LogShape /\ ReadyIsQueued /\ [Next]_vars => ReadyStep /\ BookStep
BY OthersKeepReady, Untouched, RetryReady, SubmitReady, CancelReady, LeaseReady,
   OutcomeReady, ZenonT(60)

-----------------------------------------------------------------------------
\* The ready queues hold the Queued jobs.

\* The Queued jobs of a queue.
LEMMA QueuedIn ==
    \A q \in Queues : \A k :
        k \in JobsIn(store, q, {"Queued"}) <=>
            k \in Jobs /\ QueueOf[k] = q /\ store[k].state = "Queued"
BY Zenon DEF JobsIn

\* Such a step keeps the ready queues exact.
LEMMA StepReady == TypeOK /\ TypeOK' /\ ReadyIsQueued /\ ReadyStep => ReadyIsQueued'
<1>1. (\A q \in Queues : \A k :
          k \in JobsIn(store, q, {"Queued"}) <=>
              k \in Jobs /\ QueueOf[k] = q /\ store[k].state = "Queued")'
  BY QueuedIn, PTL
<1> SUFFICES ASSUME TypeOK, TypeOK', ReadyIsQueued, ReadyStep, NEW p \in Queues
             PROVE  Range(ready[p])' = JobsIn(store, p, {"Queued"})' /\ IsInjective(ready[p])'
  BY Zenon DEF ReadyIsQueued
<1> DEFINE In(k) == k \in Jobs /\ QueueOf[k] = p /\ store[k].state = "Queued"
           InNow(k) == k \in Jobs /\ QueueOf[k] = p /\ store'[k].state = "Queued"
<1>2. /\ \A k : k \in Range(ready[p]) <=> In(k)
      /\ IsInjective(ready[p])
      /\ ready[p] \in Seq(Jobs) /\ ready'[p] \in Seq(Jobs)
      /\ ready \in [Queues -> Seq(Jobs)]
  <2>1. Range(ready[p]) = JobsIn(store, p, {"Queued"}) /\ IsInjective(ready[p])
    BY Zenon DEF ReadyIsQueued
  <2>2. /\ ready[p] \in Seq(Jobs) /\ ready'[p] \in Seq(Jobs)
        /\ ready \in [Queues -> Seq(Jobs)]
    BY Zenon DEF TypeOK
  <2>3. \A k : k \in Range(ready[p]) <=> In(k)
    BY <2>1, QueuedIn, SMTT(30)
  <2> QED BY <2>1, <2>2, <2>3, Zenon
<1>3. SUFFICES (\A k : k \in Range(ready'[p]) <=> InNow(k)) /\ IsInjective(ready'[p])
  BY <1>1, ZenonT(60)
<1>4. CASE ready'[p] = ready[p] /\ \A k : InNow(k) <=> In(k)
  BY <1>2, <1>4, Zenon
<1>5. CASE ReadyKept
  BY <1>4, <1>5, Zenon DEF ReadyKept
<1>6. ASSUME NEW j \in Jobs, ReadyPushed(j)
      PROVE  (\A k : k \in Range(ready'[p]) <=> InNow(k)) /\ IsInjective(ready'[p])
  <2>1. /\ store[j].state # "Queued" /\ store'[j].state = "Queued"
        /\ \A k \in Jobs \ {j} : store'[k] = store[k]
        /\ ready' = [ready EXCEPT ![QueueOf[j]] = Append(@, j)]
    BY <1>6, Zenon DEF ReadyPushed
  <2>2. CASE QueueOf[j] # p
    <3>1. ready'[p] = ready[p]
      BY <1>2, <2>1, <2>2, ZenonT(60)
    <3>2. \A k : InNow(k) <=> In(k)
      BY <2>1, <2>2, Zenon
    <3> QED BY <1>4, <3>1, <3>2, ZenonT(60)
  <2>3. CASE QueueOf[j] = p
    <3>1. ready'[p] = Append(ready[p], j)
      BY <1>2, <2>1, <2>3, ZenonT(60)
    <3>2. j \notin Range(ready[p])
      BY <1>2, <2>1, Zenon
    <3>3. IsInjective(ready'[p]) /\ Range(ready'[p]) = Range(ready[p]) \cup {j}
      <4>1. ready[p] \in Seq(Jobs) /\ IsInjective(ready[p])
        BY <1>2, Zenon
      <4>2. /\ IsInjective(Append(ready[p], j))
            /\ Range(Append(ready[p], j)) = Range(ready[p]) \cup {j}
        BY <3>2, <4>1, AppendSeq, SMTT(30)
      <4> QED BY <3>1, <4>2, Zenon
    <3>4. \A k : InNow(k) <=> In(k) \/ k = j
      BY <2>1, <2>3, ZenonT(60)
    <3> HIDE DEF In, InNow
    <3> QED BY <1>2, <3>3, <3>4, ZenonT(60)
  <2> QED BY <2>2, <2>3, ZenonT(60)
<1>7. ASSUME NEW q \in Queues, NEW i \in 1 .. Len(ready[q]), ReadyCut(q, i)
      PROVE  (\A k : k \in Range(ready'[p]) <=> InNow(k)) /\ IsInjective(ready'[p])
  <2> DEFINE j == ready[q][i]
  <2>1. /\ store'[j].state # "Queued"
        /\ \A k \in Jobs \ {j} : store'[k] = store[k]
        /\ IsCut(ready[q], ready'[q], i)
        /\ \A r \in Queues \ {q} : ready'[r] = ready[r]
    BY <1>7, Zenon DEF ReadyCut
  <2>2. j \in Jobs /\ QueueOf[j] = q
    <3>1. ready[q] \in Seq(Jobs) /\ i \in DOMAIN ready[q]
      BY <1>2, <1>7, SeqLen, Zenon
    <3>2. j \in Range(ready[q])
      BY <3>1, Zenon DEF Range
    <3> QED BY <3>2, QueuedIn, ZenonT(60) DEF ReadyIsQueued
  <2>3. CASE q # p
    <3>1. ready'[p] = ready[p]
      BY <2>1, <2>3, Zenon
    <3> HIDE DEF j
    <3>2. \A k : InNow(k) <=> In(k)
      BY <2>1, <2>2, <2>3, ZenonT(60)
    <3> QED BY <1>4, <3>1, <3>2, ZenonT(60)
  <2>4. CASE q = p
    <3>1. IsInjective(ready'[p]) /\ Range(ready'[p]) = Range(ready[p]) \ {j}
      <4>1. /\ ready[q] \in Seq(Jobs) /\ ready'[q] \in Seq(Jobs)
            /\ IsInjective(ready[q])
        BY <1>2, <2>4, Zenon
      <4>2. IsInjective(ready'[q]) /\ Range(ready'[q]) = Range(ready[q]) \ {ready[q][i]}
        <5> HIDE DEF j, In, InNow
        <5>1. IsCut(ready[q], ready'[q], i)
          BY <2>1, Zenon
        <5> QED BY <1>7, <4>1, <5>1, CutSeq, ZenonT(60)
      <4> QED BY <2>4, <4>2, Zenon
    <3> HIDE DEF j
    <3>2. \A k : InNow(k) <=> In(k) /\ k # j
      BY <2>1, <2>2, ZenonT(60)
    <3> HIDE DEF In, InNow
    <3> QED BY <1>2, <3>1, <3>2, ZenonT(60)
  <2> QED BY <2>3, <2>4, ZenonT(60)
<1> HIDE DEF InNow
<1> QED BY <1>5, <1>6, <1>7, ZenonT(60) DEF ReadyStep

\* An order of a set holds each of its elements once.
LEMMA OrdersHold ==
    ASSUME NEW S, NEW s \in Orders(S)
    PROVE  Range(s) = S /\ IsInjective(s)
BY Zenon DEF Orders, Bijection, Injection, Surjection, Range

\* Recovery fills the ready queues with the Queued jobs.
LEMMA StartReady ==
    ASSUME NEW jobs, NEW epoch, StartFrom(jobs, epoch)
    PROVE  ReadyIsQueued
<1>1. \A q \in Queues : ready[q] \in Orders(JobsIn(store, q, {"Queued"}))
  BY Zenon DEF StartFrom
<1> QED BY <1>1, OrdersHold, Zenon DEF ReadyIsQueued

\* Every step of a lifetime keeps the ready queues exact.
LEMMA RunReady ==
    ASSUME SafetyInv, LogShape, ReadyIsQueued, TypeOK', [Next]_vars
    PROVE  ReadyIsQueued'
BY NextReady, StepReady, Zenon DEF SafetyInv

-----------------------------------------------------------------------------
\* Places.

\* Without a new job the places stay.
LEMMA PlacesStay ==
    ASSUME Placed, Run, \A k \in Jobs : logged'[k] = Absent <=> logged[k] = Absent
    PROVE  Placed' /\ place' = place
<1>1. place' = [j \in Jobs |-> IF NewlyLogged(j)
                                 THEN Cardinality({k \in Jobs : logged'[k] # Absent})
                                 ELSE place[j]]
  BY Zenon DEF Run, TrackRecord
<1>2. \A j \in Jobs : ~NewlyLogged(j)
  BY Zenon DEF NewlyLogged
<1>3. place' = [j \in Jobs |-> place[j]]
  BY <1>1, <1>2, ZenonT(60)
<1>4. place' = place
  BY <1>3, Zenon DEF Placed
<1>5. Logged' = Logged
  BY Zenon DEF Logged
<1> QED BY <1>4, <1>5, Zenon DEF Placed

\* A new job comes after all others.
LEMMA PlaceNew ==
    ASSUME JobsCount, TypeOK, Placed, Run, NEW j \in Jobs, logged[j] = Absent,
           logged' = [logged EXCEPT ![j] = [state |-> "Queued", attempts |-> 0]]
    PROVE  /\ Placed'
           /\ \A k \in Jobs \ {j} : place'[k] = place[k]
           /\ \A k \in Logged : place[k] < place'[j]
<1>1. place' = [i \in Jobs |-> IF NewlyLogged(i)
                                 THEN Cardinality({k \in Jobs : logged'[k] # Absent})
                                 ELSE place[i]]
  BY Zenon DEF Run, TrackRecord
<1>2. /\ logged'[j] # Absent
      /\ \A k \in Jobs \ {j} : logged'[k] = logged[k]
  BY Zenon DEF TypeOK, Absent
<1>3. Logged' = Logged \cup {j} /\ j \notin Logged
  BY <1>2, Zenon DEF Logged
<1>4. Cardinality(Logged') = Cardinality(Logged) + 1 /\ Cardinality(Logged) \in Nat
  <2>1. Logged \in SUBSET Jobs /\ j \in Jobs \ Logged
    BY <1>3, Zenon DEF Logged
  <2> QED BY <1>3, <2>1, ZenonT(60) DEF JobsCount
<1>5. {k \in Jobs : logged'[k] # Absent} = Logged'
  BY Zenon DEF Logged
<1>6. NewlyLogged(j) /\ \A k \in Jobs \ {j} : ~NewlyLogged(k)
  BY <1>2, Zenon DEF NewlyLogged
<1>7. place'[j] = Cardinality(Logged') /\ \A k \in Jobs \ {j} : place'[k] = place[k]
  BY <1>1, <1>5, <1>6, ZenonT(60)
<1>8. DOMAIN place' = Jobs /\ place' = [i \in Jobs |-> place'[i]]
  BY <1>1, Zenon
<1>9. /\ \A k \in Jobs : place[k] \in Nat
      /\ \A k \in Logged : k \in Jobs /\ place[k] <= Cardinality(Logged)
  BY Zenon DEF Placed, Logged
<1>10. \A k \in Jobs : place'[k] \in Nat
  BY <1>4, <1>7, <1>9, SMTT(30)
<1>11. place' \in [Jobs -> Nat]
  BY <1>8, <1>10, ZenonT(60)
<1>12. \A k \in Logged' : place'[k] <= Cardinality(Logged')
  BY <1>3, <1>4, <1>7, <1>9, SMTT(30)
<1>13. Placed'
  BY <1>11, <1>12, ZenonT(60) DEF Placed
<1>14. \A k \in Logged : place[k] < place'[j]
  BY <1>4, <1>7, <1>9, SMTT(30)
<1> QED BY <1>7, <1>13, <1>14, ZenonT(60)

-----------------------------------------------------------------------------
\* The order of first runs.

\* What is in a ready queue is in the log.
LEMMA ReadyLogged ==
    ASSUME SafetyInv, ReadyIsQueued, NEW q \in Queues, NEW i \in DOMAIN ready[q]
    PROVE  ready[q][i] \in Logged /\ QueueOf[ready[q][i]] = q
<1> DEFINE j == ready[q][i]
<1>1. j \in Range(ready[q])
  BY Zenon DEF Range
<1>2. Range(ready[q]) = JobsIn(store, q, {"Queued"})
  BY Zenon DEF ReadyIsQueued
<1> HIDE DEF j
<1>3. j \in Jobs /\ QueueOf[j] = q /\ store[j].state = "Queued"
  BY <1>1, <1>2, QueuedIn, SMTT(30)
<1>4. store[j] # Absent /\ Absent.state # "RetryWaiting"
  BY <1>3, SMTT(30) DEF Absent
<1>5. logged[j] # Absent
  BY <1>3, <1>4, ZenonT(60) DEF SafetyInv, MemoryMatchesLog
<1>6. j \in Logged
  BY <1>3, <1>5, Zenon DEF Logged
<1> QED BY <1>3, <1>6, Zenon DEF j

\* Every step of a lifetime keeps the places and the order of the ready queues.
LEMMA RunInOrder ==
    ASSUME JobsCount, OrderInv, TypeOK', Run
    PROVE  Placed' /\ InOrder'
<1>1. SafetyInv /\ LogShape /\ ReadyIsQueued /\ Placed /\ InOrder /\ TypeOK
  BY Zenon DEF OrderInv, QueueInv, SafetyInv
<1>2. Next /\ ReadyStep
  BY <1>1, NextReady, ZenonT(60) DEF Run
<1>3. /\ ready \in [Queues -> Seq(Jobs)] /\ ready' \in [Queues -> Seq(Jobs)]
      /\ logged \in [Jobs -> JobRecord]
  BY <1>1, ZenonT(60) DEF TypeOK
\* Nothing joins a queue: what is left of it is still in order.
<1>4. ASSUME \A k \in Jobs : logged'[k] = Absent <=> logged[k] = Absent,
             \A k \in Jobs : logged'[k].attempts = 0 => logged[k].attempts = 0,
             \A q \in Queues : \A a, b \in DOMAIN ready'[q] : a < b =>
                 \/ /\ \E c, d \in DOMAIN ready[q] :
                          c < d /\ ready'[q][a] = ready[q][c] /\ ready'[q][b] = ready[q][d]
                 \/ logged'[ready'[q][b]].attempts # 0
      PROVE  Placed' /\ InOrder'
  <2>1. Placed' /\ place' = place
    BY <1>1, <1>2, <1>4, PlacesStay, ZenonT(60)
  <2>2. ASSUME NEW q \in Queues, NEW a \in DOMAIN ready'[q], NEW b \in DOMAIN ready'[q],
               a < b, logged'[ready'[q][a]].attempts = 0, logged'[ready'[q][b]].attempts = 0
        PROVE  place'[ready'[q][a]] < place'[ready'[q][b]]
    <3>1. PICK c \in DOMAIN ready[q], d \in DOMAIN ready[q] :
                 c < d /\ ready'[q][a] = ready[q][c] /\ ready'[q][b] = ready[q][d]
      BY <1>4, <2>2, ZenonT(60)
    <3>2. ready[q][c] \in Jobs /\ ready[q][d] \in Jobs
      BY <1>1, ReadyLogged, ZenonT(60) DEF Logged
    <3>3. logged[ready[q][c]].attempts = 0 /\ logged[ready[q][d]].attempts = 0
      BY <1>4, <2>2, <3>1, <3>2, ZenonT(60)
    <3>4. place[ready[q][c]] < place[ready[q][d]]
      BY <1>1, <3>1, <3>3, ZenonT(60) DEF InOrder
    <3> QED BY <2>1, <3>1, <3>4, ZenonT(60)
  <2>3. InOrder'
    BY <2>2, Zenon DEF InOrder
  <2> QED BY <2>1, <2>3, ZenonT(60)
<1>5. CASE ReadyKept
  BY <1>4, <1>5, ZenonT(60) DEF ReadyKept, SameCounts
<1>6. ASSUME NEW q \in Queues, NEW i \in 1 .. Len(ready[q]), ReadyCut(q, i)
      PROVE  Placed' /\ InOrder'
  <2> DEFINE j == ready[q][i]
  <2>1. /\ IsCut(ready[q], ready'[q], i)
        /\ \A p \in Queues \ {q} : ready'[p] = ready[p]
        /\ \/ SameCounts
           \/ /\ logged[j] # Absent
              /\ logged' = [logged EXCEPT ![j] = [state    |-> "Running",
                                                  attempts |-> logged[j].attempts + 1]]
    BY <1>6, Zenon DEF ReadyCut
  <2>2. j \in Jobs
    <3>1. i \in DOMAIN ready[q]
      BY <1>3, <1>6, SeqLen, ZenonT(60)
    <3> QED BY <1>1, <3>1, ReadyLogged, ZenonT(60) DEF Logged
  <2>3. \A p \in Queues : KeepsOrder(ready[p], ready'[p])
    <3>1. KeepsOrder(ready[q], ready'[q])
      <4>1. ready[q] \in Seq(Jobs) /\ ready'[q] \in Seq(Jobs)
        BY <1>3, Zenon
      <4>2. IsInjective(ready[q])
        BY <1>1, Zenon DEF ReadyIsQueued
      <4> HIDE DEF j
      <4>3. IsCut(ready[q], ready'[q], i)
        BY <2>1, Zenon
      <4> QED BY <1>6, <4>1, <4>2, <4>3, CutSeq, ZenonT(60)
    <3>2. ASSUME NEW p \in Queues, p # q PROVE KeepsOrder(ready[p], ready'[p])
      <4>1. ready'[p] = ready[p]
        BY <2>1, <3>2, ZenonT(60)
      <4>2. KeepsOrder(ready[p], ready[p])
        BY Zenon DEF KeepsOrder
      <4> QED BY <4>1, <4>2, ZenonT(60)
    <3> QED BY <3>1, <3>2, Zenon
  <2> HIDE DEF j
  <2>4. \A k \in Jobs : /\ logged'[k] = Absent <=> logged[k] = Absent
                        /\ logged'[k].attempts = 0 => logged[k].attempts = 0
    <3>1. CASE SameCounts
      BY <3>1, Zenon DEF SameCounts
    <3>2. CASE /\ logged[j] # Absent
               /\ logged' = [logged EXCEPT ![j] = [state    |-> "Running",
                                                   attempts |-> logged[j].attempts + 1]]
      <4>1. /\ logged'[j].state = "Running"
            /\ logged'[j].attempts = logged[j].attempts + 1
            /\ \A k \in Jobs \ {j} : logged'[k] = logged[k]
        BY <1>3, <2>2, <3>2, ZenonT(60)
      <4>2. logged[j].attempts \in Nat
        BY <1>3, <2>2, ZenonT(60) DEF JobRecord
      <4>3. logged'[j] # Absent /\ logged'[j].attempts # 0
        BY <4>1, <4>2, SMTT(30) DEF Absent
      <4> QED BY <3>2, <4>1, <4>3, ZenonT(60)
    <3> QED BY <2>1, <3>1, <3>2, ZenonT(60)
  <2> QED BY <1>4, <2>3, <2>4, ZenonT(60) DEF KeepsOrder
<1>7. ASSUME NEW j \in Jobs, ReadyPushed(j) PROVE Placed' /\ InOrder'
  <2>1. /\ store[j].state # "Queued"
        /\ ready' = [ready EXCEPT ![QueueOf[j]] = Append(@, j)]
    BY <1>7, ZenonT(60) DEF ReadyPushed
  <2>2. \A q \in Queues : \A a, b \in DOMAIN ready'[q] : a < b =>
           /\ a \in DOMAIN ready[q] /\ ready'[q][a] = ready[q][a]
           /\ \/ b \in DOMAIN ready[q] /\ ready'[q][b] = ready[q][b]
              \/ ready'[q][b] = j
    <3> SUFFICES ASSUME NEW q \in Queues, NEW a \in DOMAIN ready'[q],
                        NEW b \in DOMAIN ready'[q], a < b
                 PROVE  /\ a \in DOMAIN ready[q] /\ ready'[q][a] = ready[q][a]
                        /\ \/ b \in DOMAIN ready[q] /\ ready'[q][b] = ready[q][b]
                           \/ ready'[q][b] = j
      BY Zenon
    <3>1. /\ ready[q] \in Seq(Jobs) /\ ready'[q] \in Seq(Jobs)
          /\ Len(ready[q]) \in Nat /\ Len(ready'[q]) \in Nat
          /\ DOMAIN ready[q] = 1 .. Len(ready[q]) /\ DOMAIN ready'[q] = 1 .. Len(ready'[q])
      BY <1>3, SeqLen, ZenonT(60)
    <3>2. CASE QueueOf[j] # q
      <4>1. ready'[q] = ready[q]
        BY <1>3, <2>1, <3>2, ZenonT(60)
      <4> QED BY <3>1, <4>1, ZenonT(60)
    <3>3. CASE QueueOf[j] = q
      <4>1. ready'[q] = Append(ready[q], j)
        BY <1>3, <2>1, <3>3, ZenonT(60)
      <4>2. /\ Len(ready'[q]) = Len(ready[q]) + 1
            /\ \A k \in 1 .. Len(ready[q]) : ready'[q][k] = ready[q][k]
            /\ ready'[q][Len(ready[q]) + 1] = j
        BY <3>1, <4>1, SeqAppend, SMTT(30)
      <4>3. /\ a \in 1 .. Len(ready[q])
            /\ b \in 1 .. Len(ready[q]) \/ b = Len(ready[q]) + 1
        BY <3>1, <4>2, SMTT(30)
      <4> QED BY <3>1, <4>2, <4>3, ZenonT(60)
    <3> QED BY <3>2, <3>3, ZenonT(60)
  <2>3. CASE logged' = logged /\ logged[j].attempts # 0
    BY <1>4, <2>2, <2>3, ZenonT(60)
  <2>4. CASE /\ logged[j] = Absent
             /\ logged' = [logged EXCEPT ![j] = [state |-> "Queued", attempts |-> 0]]
    <3>1. /\ Placed'
          /\ \A k \in Jobs \ {j} : place'[k] = place[k]
          /\ \A k \in Logged : place[k] < place'[j]
      BY <1>1, <2>4, PlaceNew, ZenonT(60)
    <3>2. ASSUME NEW q \in Queues, NEW a \in DOMAIN ready'[q], NEW b \in DOMAIN ready'[q],
                 a < b, logged'[ready'[q][a]].attempts = 0,
                 logged'[ready'[q][b]].attempts = 0
          PROVE  place'[ready'[q][a]] < place'[ready'[q][b]]
      <4>1. a \in DOMAIN ready[q] /\ ready'[q][a] = ready[q][a]
        BY <2>2, <3>2, ZenonT(60)
      <4>2. ready[q][a] \in Logged /\ ready[q][a] \in Jobs \ {j}
        <5>1. ready[q][a] \in Logged
          BY <1>1, <4>1, ReadyLogged, ZenonT(60)
        <5> QED BY <2>4, <5>1, ZenonT(60) DEF Logged
      <4>3. CASE ready'[q][b] = j
        BY <3>1, <4>1, <4>2, <4>3, ZenonT(60)
      <4>4. CASE b \in DOMAIN ready[q] /\ ready'[q][b] = ready[q][b]
        <5>1. ready[q][b] \in Jobs \ {j}
          <6>1. ready[q][b] \in Logged
            BY <1>1, <4>4, ReadyLogged, ZenonT(60)
          <6> QED BY <2>4, <6>1, ZenonT(60) DEF Logged
        <5>2. logged[ready[q][a]].attempts = 0 /\ logged[ready[q][b]].attempts = 0
          BY <1>3, <2>4, <3>2, <4>1, <4>2, <4>4, <5>1, ZenonT(60)
        <5>3. place[ready[q][a]] < place[ready[q][b]]
          BY <1>1, <3>2, <4>1, <4>4, <5>2, ZenonT(60) DEF InOrder
        <5> QED BY <3>1, <4>1, <4>2, <4>4, <5>1, <5>3, ZenonT(60)
      <4> QED BY <2>2, <3>2, <4>3, <4>4, ZenonT(60)
    <3>3. InOrder'
      BY <3>2, Zenon DEF InOrder
    <3> QED BY <3>1, <3>3, Zenon
  <2> QED BY <1>7, <2>3, <2>4, ZenonT(60) DEF ReadyPushed
<1> QED BY <1>2, <1>5, <1>6, <1>7, ZenonT(60) DEF ReadyStep

\* The first job of a queue, if it has not run, has the first place of those that
\* have not.
LEMMA HeadIsFirst ==
    ASSUME SafetyInv, ReadyIsQueued, Placed, InOrder,
           NEW q \in Queues, 1 \in DOMAIN ready[q], logged[ready[q][1]].attempts = 0,
           NEW i \in Jobs, QueueOf[i] = q,
           logged[i] = [state |-> "Queued", attempts |-> 0]
    PROVE  ~(place[i] < place[ready[q][1]])
<1>1. logged[i].state = "Queued" /\ logged[i].attempts = 0 /\ "Queued" # "RetryWaiting"
  BY SMTT(30)
<1>2. store[i] = logged[i]
  BY <1>1, Zenon DEF SafetyInv, MemoryMatchesLog
<1>3. i \in JobsIn(store, q, {"Queued"})
  BY <1>1, <1>2, QueuedIn, ZenonT(60)
<1>4. Range(ready[q]) = JobsIn(store, q, {"Queued"})
  BY Zenon DEF ReadyIsQueued
<1>5. PICK m \in DOMAIN ready[q] : ready[q][m] = i
  BY <1>3, <1>4, Zenon DEF Range
<1>6. m = 1 \/ 1 < m
  <2>1. ready[q] \in Seq(Jobs)
    BY Zenon DEF SafetyInv, TypeOK
  <2>2. DOMAIN ready[q] = 1 .. Len(ready[q]) /\ Len(ready[q]) \in Nat
    BY <2>1, SeqLen, ZenonT(60)
  <2> QED BY <2>2, SMTT(30)
<1>7. ready[q][1] \in Jobs
  BY ReadyLogged, ZenonT(60) DEF Logged
<1>8. place[i] \in Nat /\ place[ready[q][1]] \in Nat
  BY <1>7, ZenonT(60) DEF Placed
<1>9. CASE m = 1
  BY <1>5, <1>8, <1>9, SMTT(30)
<1>10. CASE 1 < m
  <2>1. place[ready[q][1]] < place[i]
    BY <1>1, <1>5, <1>10, ZenonT(60) DEF InOrder
  <2> QED BY <1>8, <2>1, SMTT(30)
<1> QED BY <1>6, <1>9, <1>10, ZenonT(60)

\* Which job has its first run.
LEMMA FirstRunOf ==
    ASSUME TypeOK, ReadyStep, NEW k \in Jobs,
           logged[k].attempts = 0, logged'[k].attempts = 1
    PROVE  \E q \in Queues : 1 \in DOMAIN ready[q] /\ k = ready[q][1]
<1>1. logged \in [Jobs -> JobRecord] /\ ready \in [Queues -> Seq(Jobs)]
  BY Zenon DEF TypeOK
<1>2. logged'[k].attempts # logged[k].attempts
  BY SMTT(30)
<1>3. ~SameCounts
  BY <1>2, Zenon DEF SameCounts
<1>4. ~ReadyKept
  BY <1>3, Zenon DEF ReadyKept
<1>5. ASSUME NEW j \in Jobs, ReadyPushed(j) PROVE FALSE
  <2>1. logged' # logged
    BY <1>2, Zenon
  <2>2. logged' = [logged EXCEPT ![j] = [state |-> "Queued", attempts |-> 0]]
    BY <1>5, <2>1, Zenon DEF ReadyPushed
  <2>3. CASE k = j
    BY <1>1, <2>2, <2>3, SMTT(30)
  <2>4. CASE k # j
    <3>1. logged'[k] = logged[k]
      BY <1>1, <2>2, <2>4, ZenonT(60)
    <3> QED BY <1>2, <3>1, ZenonT(60)
  <2> QED BY <2>3, <2>4, Zenon
<1>6. ASSUME NEW q \in Queues, NEW n \in 1 .. Len(ready[q]), ReadyCut(q, n)
      PROVE  1 \in DOMAIN ready[q] /\ k = ready[q][1]
  <2>1. n = 1 /\ \E e : logged' = [logged EXCEPT ![ready[q][n]] = e]
    BY <1>3, <1>6, ZenonT(60) DEF ReadyCut
  <2>2. 1 \in DOMAIN ready[q]
    <3>1. DOMAIN ready[q] = 1 .. Len(ready[q])
      BY <1>1, SeqLen, ZenonT(60)
    <3> QED BY <1>6, <2>1, <3>1, ZenonT(60)
  <2>3. CASE k # ready[q][1]
    <3>1. logged'[k] = logged[k]
      BY <1>1, <2>1, <2>3, ZenonT(60)
    <3> QED BY <1>2, <3>1, ZenonT(60)
  <2> QED BY <2>2, <2>3, ZenonT(60)
<1> QED BY <1>4, <1>5, <1>6, ZenonT(60) DEF ReadyStep

-----------------------------------------------------------------------------
\* The counters of do_stats.

\* The jobs of a queue in one state.
LEMMA InState ==
    \A q \in Queues, s \in JobState : \A k :
        k \in JobsIn(store, q, {s}) <=> k \in Jobs /\ QueueOf[k] = q /\ store[k].state = s
BY Zenon DEF JobsIn

\* adjust_stat for a transition, counter by counter.
LEMMA StatMoved ==
    ASSUME stats \in [Queues -> [JobState -> Nat]], NEW q \in Queues,
           NEW from \in JobState, NEW to \in JobState \ {from},
           stats' = MoveStat(q, from, to), NEW p \in Queues, NEW s \in JobState
    PROVE  stats'[p][s] =
              IF p # q THEN stats[p][s]
              ELSE IF s = from THEN IF stats[p][s] > 0 THEN stats[p][s] - 1 ELSE 0
              ELSE IF s = to THEN stats[p][s] + 1
              ELSE stats[p][s]
BY Zenon DEF MoveStat

\* record_submitted adds one.
LEMMA StatAdded ==
    ASSUME stats \in [Queues -> [JobState -> Nat]], NEW q \in Queues,
           NEW to \in JobState, stats' = [stats EXCEPT ![q][to] = @ + 1],
           NEW p \in Queues, NEW s \in JobState
    PROVE  stats'[p][s] = IF p = q /\ s = to THEN stats[p][s] + 1 ELSE stats[p][s]
BY Zenon

\* Counting a set of jobs that loses or gains one.
LEMMA CountChanges ==
    ASSUME JobsCount, NEW T \in SUBSET Jobs, NEW U \in SUBSET Jobs, NEW j \in Jobs
    PROVE  /\ Cardinality(T) \in Nat /\ Cardinality(U) \in Nat
           /\ j \notin T /\ U = T \cup {j} => Cardinality(U) = Cardinality(T) + 1
BY Zenon DEF JobsCount

\* A step that moves a job between states moves it between counters.
LEMMA StepStats ==
    ASSUME JobsCount, TypeOK, StatsMatchStore, BookStep
    PROVE  StatsMatchStore'
<1>1. (\A q \in Queues, s \in JobState : \A k :
          k \in JobsIn(store, q, {s}) <=>
              k \in Jobs /\ QueueOf[k] = q /\ store[k].state = s)'
  BY InState, PTL
<1> DEFINE In(q, s) == JobsIn(store, q, {s})
           InNow(q, s) == JobsIn(store', q, {s})
           All == {k \in Jobs : store[k] # Absent}
           AllNow == {k \in Jobs : store'[k] # Absent}
<1>2. /\ stats \in [Queues -> [JobState -> Nat]] /\ QueueOf \in [Jobs -> Queues]
      /\ \A q \in Queues, s \in JobState : stats[q][s] = Cardinality(In(q, s))
      /\ submitted = Cardinality(All)
  BY CoordinatorAssumption, ZenonT(60) DEF TypeOK, StatsMatchStore
<1>3. SUFFICES /\ \A q \in Queues, s \in JobState : stats'[q][s] = Cardinality(InNow(q, s))
               /\ submitted' = Cardinality(AllNow)
  BY Zenon DEF StatsMatchStore
<1>4. \A q \in Queues, s \in JobState :
          /\ In(q, s) \in SUBSET Jobs /\ InNow(q, s) \in SUBSET Jobs
          /\ \A k : /\ k \in In(q, s) <=>
                          k \in Jobs /\ QueueOf[k] = q /\ store[k].state = s
                    /\ k \in InNow(q, s) <=>
                          k \in Jobs /\ QueueOf[k] = q /\ store'[k].state = s
  BY Zenon DEF JobsIn
<1>5. All \in SUBSET Jobs /\ AllNow \in SUBSET Jobs
  BY Zenon
<1>6. "Queued" \in JobState /\ Live \subseteq JobState /\ "Absent" \notin JobState
      /\ Absent.state = "Absent"
  BY Zenon DEF JobState, Live, Absent
<1>7. CASE UNCHANGED <<store, stats, submitted>>
  BY <1>2, <1>7, ZenonT(60)
<1>8. ASSUME NEW j \in Jobs, Enrolled(j)
      PROVE  /\ \A q \in Queues, s \in JobState : stats'[q][s] = Cardinality(InNow(q, s))
             /\ submitted' = Cardinality(AllNow)
  <2>1. /\ store[j] = Absent /\ store'[j].state = "Queued"
        /\ \A k \in Jobs \ {j} : store'[k] = store[k]
        /\ stats' = [stats EXCEPT ![QueueOf[j]]["Queued"] = @ + 1]
        /\ submitted' = submitted + 1
    BY <1>8, Zenon DEF Enrolled
  <2>2. AllNow = All \cup {j} /\ j \notin All
    BY <1>6, <2>1, ZenonT(60)
  <2> HIDE DEF All, AllNow
  <2>3. Cardinality(AllNow) = Cardinality(All) + 1
    BY <1>5, <2>2, CountChanges, ZenonT(60)
  <2>4. ASSUME NEW q \in Queues, NEW s \in JobState
        PROVE  stats'[q][s] = Cardinality(InNow(q, s))
    <3> HIDE DEF In, InNow
    <3>1. stats'[q][s] = IF q = QueueOf[j] /\ s = "Queued" THEN stats[q][s] + 1
                         ELSE stats[q][s]
      BY <1>2, <1>6, <2>1, StatAdded, ZenonT(60)
    <3>2. CASE q = QueueOf[j] /\ s = "Queued"
      <4>1. InNow(q, s) = In(q, s) \cup {j} /\ j \notin In(q, s)
        BY <1>4, <1>6, <2>1, <3>2, SMTT(30)
      <4>2. Cardinality(InNow(q, s)) = Cardinality(In(q, s)) + 1
        BY <1>4, <4>1, CountChanges, ZenonT(60)
      <4>3. stats'[q][s] = stats[q][s] + 1
        BY <3>1, <3>2, ZenonT(60)
      <4> QED BY <1>2, <4>2, <4>3, ZenonT(60)
    <3>3. CASE ~(q = QueueOf[j] /\ s = "Queued")
      <4>1. InNow(q, s) = In(q, s)
        <5>1. \A k \in Jobs : QueueOf[k] = q =>
                 (store'[k].state = s <=> store[k].state = s)
          BY <1>6, <2>1, <3>3, ZenonT(60)
        <5>2. \A k : k \in InNow(q, s) <=> k \in In(q, s)
          BY <1>4, <5>1, ZenonT(60)
        <5> QED BY <5>2, Zenon
      <4>2. stats'[q][s] = stats[q][s]
        BY <3>1, <3>3, ZenonT(60)
      <4> QED BY <1>2, <4>1, <4>2, ZenonT(60)
    <3> QED BY <3>2, <3>3, ZenonT(60)
  <2> QED BY <1>2, <2>1, <2>3, <2>4, ZenonT(60)
<1>9. ASSUME NEW j \in Jobs, NEW from, NEW to, Moved(j, from, to)
      PROVE  /\ \A q \in Queues, s \in JobState : stats'[q][s] = Cardinality(InNow(q, s))
             /\ submitted' = Cardinality(AllNow)
  <2>1. /\ from \in JobState /\ to \in JobState \ {from}
        /\ store[j].state = from /\ store'[j].state = to
        /\ \A k \in Jobs \ {j} : store'[k] = store[k]
        /\ stats' = MoveStat(QueueOf[j], from, to)
        /\ submitted' = submitted
    BY <1>6, <1>9, ZenonT(60) DEF Moved
  <2>2. AllNow = All
    BY <1>6, <2>1, ZenonT(60)
  <2>3. ASSUME NEW q \in Queues, NEW s \in JobState
        PROVE  stats'[q][s] = Cardinality(InNow(q, s))
    <3> HIDE DEF In, InNow, All, AllNow
    <3>1. stats'[q][s] =
              IF q # QueueOf[j] THEN stats[q][s]
              ELSE IF s = from THEN IF stats[q][s] > 0 THEN stats[q][s] - 1 ELSE 0
              ELSE IF s = to THEN stats[q][s] + 1
              ELSE stats[q][s]
      BY <1>2, <2>1, StatMoved, SMTT(30)
    <3>2. CASE q = QueueOf[j] /\ s = from
      <4>1. In(q, s) = InNow(q, s) \cup {j} /\ j \notin InNow(q, s)
        BY <1>4, <2>1, <3>2, SMTT(30)
      <4>2. /\ Cardinality(In(q, s)) = Cardinality(InNow(q, s)) + 1
            /\ Cardinality(InNow(q, s)) \in Nat
        BY <1>4, <4>1, CountChanges, ZenonT(60)
      <4>3. stats[q][s] = Cardinality(In(q, s))
        BY <1>2, ZenonT(60)
      <4> QED BY <3>1, <3>2, <4>2, <4>3, SMTT(30)
    <3>3. CASE q = QueueOf[j] /\ s = to
      <4>1. InNow(q, s) = In(q, s) \cup {j} /\ j \notin In(q, s)
        BY <1>4, <2>1, <3>3, SMTT(30)
      <4>2. Cardinality(InNow(q, s)) = Cardinality(In(q, s)) + 1
        BY <1>4, <4>1, CountChanges, Zenon
      <4>3. stats'[q][s] = stats[q][s] + 1
        BY <2>1, <3>1, <3>3, ZenonT(60)
      <4> QED BY <1>2, <4>2, <4>3, Zenon
    <3>4. CASE q # QueueOf[j] \/ (s # from /\ s # to)
      <4>1. InNow(q, s) = In(q, s)
        <5>1. \A k \in Jobs : QueueOf[k] = q =>
                 (store'[k].state = s <=> store[k].state = s)
          BY <2>1, <3>4, ZenonT(60)
        <5>2. \A k : k \in InNow(q, s) <=> k \in In(q, s)
          BY <1>4, <5>1, Zenon
        <5> QED BY <5>2, Zenon
      <4>2. stats'[q][s] = stats[q][s]
        BY <3>1, <3>4, ZenonT(60)
      <4> QED BY <1>2, <4>1, <4>2, Zenon
    <3> QED BY <3>2, <3>3, <3>4, ZenonT(60)
  <2> QED BY <1>2, <2>1, <2>2, <2>3, ZenonT(60)
<1> HIDE DEF In, InNow, All, AllNow
<1> QED BY <1>7, <1>8, <1>9, ZenonT(60) DEF BookStep, StaleTimer

\* with_rng_and_recovery counts what it recovers.
LEMMA StartStats ==
    ASSUME NEW jobs, NEW epoch, StartFrom(jobs, epoch)
    PROVE  StatsMatchStore
BY Zenon DEF StartFrom, StatsMatchStore

-----------------------------------------------------------------------------
\* The retry heap.

\* A step that makes a job wait for its retry pushes its timer, and the one
\* that takes a timer off the heap ends the wait.
LEMMA StepTimers ==
    ASSUME TypeOK, TypeOK', RetryTimers, BookStep
    PROVE  RetryTimers'
<1> DEFINE s == retryQueue
           t == retryQueue'
<1>1. s \in Seq(Jobs) /\ t \in Seq(Jobs)
  BY ZenonT(60) DEF TypeOK
<1>2. /\ IsInjective(s)
      /\ \A k \in Range(s) : k \in Jobs /\ store[k].state \in {"RetryWaiting", "Cancelled"}
      /\ \A k \in Jobs : store[k].state = "RetryWaiting" => k \in Range(s)
  BY <1>1, SeqLen, SMTT(30) DEF RetryTimers, Range
<1>3. SUFFICES /\ IsInjective(t)
               /\ \A k \in Range(t) : store'[k].state \in {"RetryWaiting", "Cancelled"}
               /\ \A k \in Jobs : store'[k].state = "RetryWaiting" => k \in Range(t)
  BY Zenon DEF RetryTimers, Range
\* The first timer fires.
<1>4. ASSUME retryQueue # <<>>, retryQueue' = Tail(retryQueue)
      PROVE  IsInjective(t) /\ Range(t) = Range(s) \ {Head(retryQueue)}
  <2>1. IsCut(s, t, 1) /\ 1 \in 1 .. Len(s) /\ Head(s) = s[1]
    BY <1>1, <1>4, TailCuts, ZenonT(60)
  <2> HIDE DEF s, t
  <2>2. IsInjective(t) /\ Range(t) = Range(s) \ {s[1]}
    BY <1>1, <1>2, <2>1, CutSeq, SMTT(30)
  <2> QED BY <2>1, <2>2, ZenonT(60) DEF s
<1>5. CASE UNCHANGED <<store, stats, submitted, retryQueue>>
  BY <1>2, <1>5, ZenonT(60)
<1>6. CASE StaleTimer
  <2>1. /\ retryQueue # <<>> /\ retryQueue' = Tail(retryQueue) /\ store' = store
        /\ store[Head(retryQueue)].state # "RetryWaiting"
    BY <1>6, Zenon DEF StaleTimer
  <2>2. IsInjective(t) /\ Range(t) = Range(s) \ {Head(retryQueue)}
    BY <1>4, <2>1, ZenonT(60)
  <2> HIDE DEF s, t
  <2> QED BY <1>2, <2>1, <2>2, ZenonT(60)
<1>7. ASSUME NEW j \in Jobs, Enrolled(j)
      PROVE  /\ IsInjective(t)
             /\ \A k \in Range(t) : store'[k].state \in {"RetryWaiting", "Cancelled"}
             /\ \A k \in Jobs : store'[k].state = "RetryWaiting" => k \in Range(t)
  <2>1. /\ store[j].state = "Absent" /\ store'[j].state = "Queued"
        /\ \A k \in Jobs \ {j} : store'[k] = store[k]
        /\ t = s
    BY <1>7, SMTT(30) DEF Enrolled, Absent
  <2> HIDE DEF s, t
  <2> QED BY <1>2, <2>1, ZenonT(60)
<1>8. ASSUME NEW j \in Jobs, NEW from, NEW to, Moved(j, from, to)
      PROVE  /\ IsInjective(t)
             /\ \A k \in Range(t) : store'[k].state \in {"RetryWaiting", "Cancelled"}
             /\ \A k \in Jobs : store'[k].state = "RetryWaiting" => k \in Range(t)
  <2>1. /\ store[j].state = from /\ store'[j].state = to /\ from # "Cancelled"
        /\ \A k \in Jobs \ {j} : store'[k] = store[k]
    BY <1>8, Zenon DEF Moved, Live, Terminal
  <2>2. CASE /\ from = "RetryWaiting" /\ to = "Queued"
             /\ retryQueue # <<>> /\ j = Head(retryQueue) /\ retryQueue' = Tail(retryQueue)
    <3>1. IsInjective(t) /\ Range(t) = Range(s) \ {j}
      BY <1>4, <2>2, ZenonT(60)
    <3> HIDE DEF s, t
    <3> QED BY <1>2, <2>1, <2>2, <3>1, ZenonT(60)
  <2>3. ASSUME from = "Running", to = "RetryWaiting",
               NEW i \in 1 .. Len(retryQueue) + 1, retryQueue' = PushAt(retryQueue, i, j)
        PROVE  /\ IsInjective(t)
               /\ \A k \in Range(t) : store'[k].state \in {"RetryWaiting", "Cancelled"}
               /\ \A k \in Jobs : store'[k].state = "RetryWaiting" => k \in Range(t)
    <3>1. IsCut(t, s, i) /\ t[i] = j
      BY <1>1, <2>3, PushAtCuts, ZenonT(60)
    <3>2. i \in 1 .. Len(t)
      <4>1. Len(s) = Len(t) - 1 /\ Len(t) \in Nat /\ Len(s) \in Nat
        BY <1>1, <3>1, SeqLen, ZenonT(60) DEF IsCut
      <4> QED BY <2>3, <4>1, SMTT(30)
    <3>3. j \notin Range(s)
      BY <1>2, <2>1, <2>3, ZenonT(60)
    <3> HIDE DEF s, t
    <3>4. IsInjective(t) /\ Range(t) = Range(s) \cup {j}
      BY <1>1, <1>2, <3>1, <3>2, <3>3, UncutSeq, SMTT(30)
    <3> QED BY <1>2, <2>1, <2>3, <3>4, ZenonT(60)
  <2>4. CASE /\ to # "RetryWaiting" /\ (from = "RetryWaiting" => to = "Cancelled")
             /\ retryQueue' = retryQueue
    <3>1. t = s
      BY <2>4, Zenon
    <3> HIDE DEF s, t
    <3> QED BY <1>2, <2>1, <2>4, <3>1, ZenonT(60)
  <2> HIDE DEF s, t
  <2> QED BY <1>8, <2>2, <2>3, <2>4, ZenonT(60) DEF Moved
<1> HIDE DEF s, t
<1> QED BY <1>5, <1>6, <1>7, <1>8, ZenonT(60) DEF BookStep

\* Recovery gives every RetryWaiting job one timer.
LEMMA StartTimers ==
    ASSUME NEW jobs, NEW epoch, StartFrom(jobs, epoch)
    PROVE  RetryTimers
<1> DEFINE W == {j \in Jobs : store[j].state = "RetryWaiting"}
<1>1. retryQueue \in Orders(W)
  BY Zenon DEF StartFrom
<1>2. Range(retryQueue) = W /\ IsInjective(retryQueue)
  BY <1>1, OrdersHold, ZenonT(60)
<1> QED BY <1>2, Zenon DEF RetryTimers, Range

-----------------------------------------------------------------------------
\* Parked workers.

\* Only the end of a pass of the run loop enters the select, and a worker is
\* parked only while the runtime is open.
SelectStep ==
    /\ \/ EnterSelect
       \/ pc' # "select"
       \/ UNCHANGED <<pc, parked, ready>>
    /\ \/ parked' = <<>>
       \/ shuttingDown' = shuttingDown /\ (parked' = parked \/ ~shuttingDown)

\* Every step is one of the steps SelectStep describes.
LEMMA NextSelect == [Next]_vars => SelectStep
<1>1. CollectTimeouts \/ CompleteShutdown \/ ForceShutdown \/ ProcessDueRetry => SelectStep
  BY Zenon DEF CollectTimeouts, CompleteShutdown, ForceShutdown, Terminate, ProcessDueRetry,
         loopVars, stopVars, SelectStep
<1>2. SettleTimeout \/ DispatchParked \/ EnterSelect \/ WakeOnDeadline => SelectStep
  BY Zenon DEF SettleTimeout, DispatchParked, EnterSelect, WakeOnDeadline, loopVars, stopVars,
         SelectStep
<1>3. RejectSubmit \/ AcceptSubmit \/ ReplySubmit \/ RejectCancel \/ AcceptCancel
          => SelectStep
  BY Zenon DEF RejectSubmit, AcceptSubmit, ReplySubmit, RejectCancel, AcceptCancel, stopVars,
         SelectStep
<1>4. LeaseToFetcher \/ StaleOutcome \/ CurrentOutcome \/ StartShutdown => SelectStep
  BY Zenon DEF LeaseToFetcher, StaleOutcome, CurrentOutcome, StartShutdown, stopVars, SelectStep
<1>5. ParkFetcher => SelectStep
  BY Zenon DEF ParkFetcher, stopVars, SelectStep
<1>6. RetryBecomesDue \/ DeadlineElapses \/ Stopped \/ UNCHANGED vars \/ SendShutdown
          => SelectStep
  BY Zenon DEF RetryBecomesDue, DeadlineElapses, Stopped, SendShutdown, ownVars, vars, jobVars,
         loopVars, stopVars, SelectStep
<1>7. ASSUME NEW j \in Jobs
      PROVE  AcquirePermit(j) \/ PermitRefused(j) \/ SendSubmit(j) \/ DropSubmit(j)
                 \/ SendCancel(j) \/ LeaseExpires(j) => SelectStep
  BY Zenon DEF AcquirePermit, PermitRefused, SendSubmit, DropSubmit, SendCancel, LeaseExpires,
         ownVars, jobVars, loopVars, stopVars, SelectStep
<1>8. ASSUME NEW w \in Workers
      PROVE  WorkerStep(w) \/ (\E o \in HandlerOutcomes : HandlerEnds(w, o)) => SelectStep
  <2>1. WorkerStep(w) \/ (\E o \in HandlerOutcomes : HandlerEnds(w, o))
            => UNCHANGED <<pc, parked, ready, shuttingDown>>
    BY Zenon DEF WorkerStep, WorkerCheckToken, WorkerFetch, WorkerStop, WorkerStart,
                 HandlerAborted, WorkerReport, HandlerEnds, workerFrame, ownVars, jobVars,
                 loopVars, stopVars
  <2> QED BY <2>1, Zenon DEF SelectStep
<1> QED BY <1>1, <1>2, <1>3, <1>4, <1>5, <1>6, <1>7, <1>8, ZenonT(60) DEF Next, CoordinatorStep

\* The run loop dispatches before it waits, when persist does not fail.
LEMMA StepConserves ==
    ASSUME ~PersistMayFail, SafetyInv, ReadyIsQueued, WorkConserving, NoneParkedAtShutdown,
           [Next]_vars
    PROVE  WorkConserving' /\ NoneParkedAtShutdown'
<1>1. SelectStep
  BY NextSelect, Zenon
<1>2. NoneParkedAtShutdown'
  BY <1>1, Zenon DEF SelectStep, NoneParkedAtShutdown
<1>3. CASE EnterSelect
  <2>1. /\ shuttingDown \/ parked = <<>> \/ NothingLeased
        /\ parked' = parked /\ ready' = ready
    BY <1>3, ZenonT(60) DEF EnterSelect, DispatchDone, jobVars
  <2>2. CASE NothingLeased
    <3>1. ASSUME NEW q \in Queues, ready[q] # <<>> PROVE FALSE
      <4>1. ready[q] \in Seq(Jobs)
        BY ReadyTypes, Zenon
      <4>2. 1 \in DOMAIN ready[q] /\ Head(ready[q]) = ready[q][1]
        BY <3>1, <4>1, SeqHeadTail, ZenonT(60)
      <4>3. Head(ready[q]) \in Range(ready[q])
        BY <4>2, ZenonT(60) DEF Range
      <4>4. store[Head(ready[q])].state = "Queued"
        BY <4>3, QueuedIn, SMTT(30) DEF ReadyIsQueued
      <4> QED BY <2>2, <3>1, <4>4, ZenonT(60) DEF NothingLeased, Leaseable
    <3>2. \A q \in Queues : ready'[q] = <<>>
      BY <2>1, <3>1, ZenonT(60)
    <3> QED BY <1>2, <3>2, ZenonT(60) DEF WorkConserving
  <2>3. CASE shuttingDown \/ parked = <<>>
    BY <1>2, <2>1, <2>3, ZenonT(60) DEF WorkConserving, NoneParkedAtShutdown
  <2> QED BY <2>1, <2>2, <2>3, ZenonT(60)
<1>4. CASE pc' # "select"
  BY <1>2, <1>4, ZenonT(60) DEF WorkConserving
<1>5. CASE UNCHANGED <<pc, parked, ready>>
  <2>1. (pc = "select" => parked = <<>> \/ \A q \in Queues : ready[q] = <<>>)
    BY Zenon DEF WorkConserving
  <2>2. (pc' = "select" => parked' = <<>> \/ \A q \in Queues : ready'[q] = <<>>)
    BY <1>5, <2>1, Zenon
  <2> QED BY <1>2, <2>2, Zenon DEF WorkConserving
<1> QED BY <1>1, <1>3, <1>4, <1>5, ZenonT(60) DEF SelectStep

-----------------------------------------------------------------------------
\* Shutdown.

\* A step that has nothing to do with shutdown: it may take another command off
\* the channel or send one, and once shutdown is answered it writes no record.
PlainStep ==
    /\ UNCHANGED <<shutter, shuttingDown>>
    /\ \/ cmds' = cmds
       \/ cmds # <<>> /\ cmds' = Tail(cmds)
       \/ \E cmd \in Command : cmd.kind # "Shutdown" /\ cmds' = Append(cmds, cmd)
    /\ pc = "done" => pc' = "done" /\ logged' = logged
    /\ pc \in {"loop", "work"} /\ shuttingDown /\ NoLeases =>
          pc' \in {"loop", "work"} /\ leases' = leases /\ logged' = logged

\* The steps of the run loop between two commands.
LEMMA LoopPlain ==
    ASSUME SafetyInv,
           \/ ProcessDueRetry \/ CollectTimeouts \/ SettleTimeout \/ DispatchParked
           \/ EnterSelect \/ WakeOnDeadline \/ ReplySubmit
    PROVE  PlainStep
<1>1. UNCHANGED <<shutter, shuttingDown, cmds>>
  BY Zenon DEF ProcessDueRetry, CollectTimeouts, SettleTimeout, DispatchParked, EnterSelect,
               WakeOnDeadline, ReplySubmit, stopVars, actorVars
<1>2. /\ pc # "done"
      /\ pc \in {"loop", "work"} /\ shuttingDown /\ NoLeases =>
            pc' \in {"loop", "work"} /\ leases' = leases /\ logged' = logged
  <2>1. CASE ProcessDueRetry \/ CollectTimeouts
    BY <2>1, Zenon DEF ProcessDueRetry, CollectTimeouts, loopVars, jobVars, storageVars
  <2>2. CASE SettleTimeout
    <3>1. PICK j \in timedOut : TRUE
      BY <2>2, ZenonT(60) DEF SettleTimeout
    <3>2. leases[j] # NoLease /\ j \in Jobs
      BY <3>1, ZenonT(60) DEF SafetyInv, TypeOK, TimedOutAreLeased
    <3> QED BY <2>2, <3>2, ZenonT(60) DEF NoLeases, SettleTimeout
  <2>3. CASE DispatchParked \/ EnterSelect \/ WakeOnDeadline \/ ReplySubmit
    BY <2>3, ZenonT(60) DEF DispatchParked, EnterSelect, WakeOnDeadline, ReplySubmit
  <2> QED BY <2>1, <2>2, <2>3, ZenonT(60)
<1> QED BY <1>1, <1>2, ZenonT(60) DEF PlainStep

\* The commands other than Shutdown.
LEMMA CommandPlain ==
    ASSUME \/ RejectSubmit \/ AcceptSubmit \/ RejectCancel \/ AcceptCancel
           \/ LeaseToFetcher \/ ParkFetcher \/ StaleOutcome \/ CurrentOutcome
    PROVE  PlainStep
<1>1. UNCHANGED <<shutter, shuttingDown>>
  BY Zenon DEF RejectSubmit, AcceptSubmit, RejectCancel, AcceptCancel, LeaseToFetcher,
               ParkFetcher, StaleOutcome, CurrentOutcome, stopVars, actorVars
<1>2. pc = "select" /\ cmds # <<>> /\ cmds' = Tail(cmds)
  BY Zenon DEF RejectSubmit, AcceptSubmit, RejectCancel, AcceptCancel, LeaseToFetcher,
               ParkFetcher, StaleOutcome, CurrentOutcome, Receive
<1> QED BY <1>1, <1>2, ZenonT(60) DEF PlainStep

\* Callers, workers and timers.
LEMMA ActorPlain ==
    ASSUME SafetyInv,
           \/ RetryBecomesDue \/ DeadlineElapses \/ Stopped \/ UNCHANGED vars
           \/ \E j \in Jobs : \/ AcquirePermit(j) \/ PermitRefused(j) \/ SendSubmit(j)
                             \/ DropSubmit(j) \/ SendCancel(j) \/ LeaseExpires(j)
           \/ \E w \in Workers : WorkerStep(w) \/ \E o \in HandlerOutcomes : HandlerEnds(w, o)
    PROVE  PlainStep
<1>0. TypeOK
  BY Zenon DEF SafetyInv
<1> DEFINE Still == UNCHANGED <<pc, shutter, shuttingDown, logged>>
           Sends == \/ cmds' = cmds
                    \/ \E cmd \in Command : cmd.kind # "Shutdown" /\ cmds' = Append(cmds, cmd)
<1>1. CASE RetryBecomesDue \/ DeadlineElapses \/ Stopped \/ UNCHANGED vars
  <2>1. Still /\ cmds' = cmds /\ leases' = leases
    BY <1>1, ZenonT(60) DEF RetryBecomesDue, DeadlineElapses, Stopped, vars, jobVars, loopVars,
                       stopVars, actorVars, storageVars
  <2> QED BY <2>1, Zenon DEF PlainStep
<1>2. ASSUME NEW j \in Jobs,
             AcquirePermit(j) \/ PermitRefused(j) \/ SendSubmit(j) \/ DropSubmit(j)
                 \/ SendCancel(j)
      PROVE  PlainStep
  <2>1. Still /\ leases' = leases
    BY <1>2, ZenonT(60) DEF AcquirePermit, PermitRefused, SendSubmit, DropSubmit, SendCancel,
                       ownVars, jobVars, loopVars, stopVars, storageVars
  <2>2. Sends
    <3>1. /\ [kind |-> "Submit", job |-> j] \in Command
          /\ [kind |-> "Cancel", job |-> j] \in Command
      BY Zenon DEF Command
    <3>2. \/ cmds' = cmds
          \/ cmds' = Append(cmds, [kind |-> "Submit", job |-> j])
          \/ cmds' = Append(cmds, [kind |-> "Cancel", job |-> j])
      BY <1>2, ZenonT(60) DEF AcquirePermit, PermitRefused, SendSubmit, DropSubmit, SendCancel
    <3> QED BY <3>1, <3>2, Zenon
  <2> QED BY <2>1, <2>2, ZenonT(60) DEF PlainStep
<1>3. ASSUME NEW j \in Jobs, LeaseExpires(j) PROVE PlainStep
  <2>1. Still /\ cmds' = cmds /\ leases[j] # NoLease
    BY <1>3, Zenon DEF LeaseExpires, loopVars, stopVars, actorVars, storageVars
  <2>2. ~NoLeases
    BY <2>1, Zenon DEF NoLeases
  <2> QED BY <2>1, <2>2, ZenonT(60) DEF PlainStep
<1>4. ASSUME NEW w \in Workers,
             WorkerStep(w) \/ \E o \in HandlerOutcomes : HandlerEnds(w, o)
      PROVE  PlainStep
  <2>1. Still /\ leases' = leases
    BY <1>4, Zenon DEF WorkerStep, WorkerCheckToken, WorkerFetch, WorkerStop, WorkerStart,
                       HandlerAborted, WorkerReport, HandlerEnds, workerFrame, ownVars,
                       jobVars, loopVars, stopVars, storageVars
  <2>2. Sends
    <3> DEFINE fetch == [kind |-> "FetchWork", worker |-> w]
               report == [kind |-> "WorkerOutcome", work |-> worker[w].work,
                          outcome |-> worker[w].outcome]
    <3>1. \/ cmds' = cmds
          \/ cmds' = Append(cmds, fetch)
          \/ worker[w].at = "reporting" /\ cmds' = Append(cmds, report)
      BY <1>4, ZenonT(60) DEF WorkerStep, WorkerCheckToken, WorkerFetch, WorkerStop, WorkerStart,
                         HandlerAborted, WorkerReport, HandlerEnds
    <3>2. fetch \in Command /\ fetch.kind # "Shutdown"
      BY Zenon DEF Command
    <3>3. worker[w].at = "reporting" => report \in Command /\ report.kind # "Shutdown"
      <4>1. worker[w] \in WorkerState
        BY <1>0, <1>4, ZenonT(60) DEF TypeOK
      <4>2. ASSUME worker[w].at = "reporting" PROVE report \in Command
        BY <4>1, <4>2, ZenonT(60) DEF WorkerState, Command
      <4> QED BY <4>2, ZenonT(60)
    <3> HIDE DEF fetch, report
    <3> QED BY <3>1, <3>2, <3>3, ZenonT(60)
  <2> QED BY <2>1, <2>2, ZenonT(60) DEF PlainStep
<1> QED BY <1>1, <1>2, <1>3, <1>4, ZenonT(60)

\* Every step is one of these, or one of shutdown itself.
LEMMA NextPlain ==
    SafetyInv /\ [Next]_vars =>
        \/ PlainStep
        \/ SendShutdown
        \/ StartShutdown
        \/ CompleteShutdown \/ ForceShutdown
BY LoopPlain, CommandPlain, ActorPlain, ZenonT(60) DEF Next, CoordinatorStep

\* How often Shutdown is in the channel: at most once, or not at all.
AsksOnce(s) ==
    \A i, k \in DOMAIN s : s[i].kind = "Shutdown" /\ s[k].kind = "Shutdown" => i = k

AsksNot(s) == \A i \in DOMAIN s : s[i].kind # "Shutdown"

\* Taking a command off the channel.
LEMMA AsksTail ==
    ASSUME NEW s \in Seq(Command), s # <<>>, AsksOnce(s)
    PROVE  /\ AsksOnce(Tail(s))
           /\ AsksNot(s) => AsksNot(Tail(s))
           /\ Head(s).kind = "Shutdown" => ~AsksNot(s) /\ AsksNot(Tail(s))
<1>1. /\ Len(s) \in Nat \ {0} /\ DOMAIN s = 1 .. Len(s) /\ Head(s) = s[1]
      /\ DOMAIN Tail(s) = 1 .. Len(s) - 1
      /\ \A i \in 1 .. Len(s) - 1 : Tail(s)[i] = s[i + 1]
  BY SMTT(30)
<1> DEFINE t == Tail(s)
<1>2. 1 \in DOMAIN s
  BY <1>1, SMTT(30)
<1>3. \A i \in DOMAIN t : i + 1 \in DOMAIN s /\ i + 1 # 1 /\ t[i] = s[i + 1]
  BY <1>1, SMTT(30)
<1>4. \A i, k \in DOMAIN t : i + 1 = k + 1 => i = k
  BY <1>1, SMTT(30)
<1> HIDE DEF t
<1>5. ASSUME NEW i \in DOMAIN t, NEW k \in DOMAIN t,
             t[i].kind = "Shutdown", t[k].kind = "Shutdown"
      PROVE  i = k
  <2>1. i + 1 = k + 1
    BY <1>3, <1>5, ZenonT(60) DEF AsksOnce
  <2> QED BY <1>4, <2>1, ZenonT(60)
<1>6. ASSUME AsksNot(s) PROVE AsksNot(t)
  BY <1>3, <1>6, ZenonT(60) DEF AsksNot
<1>7. ASSUME Head(s).kind = "Shutdown" PROVE ~AsksNot(s) /\ AsksNot(t)
  <2>1. s[1].kind = "Shutdown"
    BY <1>1, <1>7, ZenonT(60)
  <2>2. ASSUME NEW i \in DOMAIN t PROVE t[i].kind # "Shutdown"
    BY <1>2, <1>3, <2>1, ZenonT(60) DEF AsksOnce
  <2> QED BY <1>2, <2>1, <2>2, ZenonT(60) DEF AsksNot
<1>8. AsksOnce(t)
  BY <1>5, ZenonT(60) DEF AsksOnce
<1> QED BY <1>6, <1>7, <1>8, ZenonT(60) DEF t

\* Sending one.
LEMMA AsksAppend ==
    ASSUME NEW s \in Seq(Command), NEW cmd \in Command, AsksOnce(s)
    PROVE  /\ cmd.kind # "Shutdown" =>
                 AsksOnce(Append(s, cmd)) /\ (AsksNot(s) => AsksNot(Append(s, cmd)))
           /\ AsksNot(s) => AsksOnce(Append(s, cmd))
<1> DEFINE t == Append(s, cmd)
<1>1. /\ Len(s) \in Nat /\ DOMAIN s = 1 .. Len(s)
      /\ DOMAIN t = 1 .. Len(s) + 1 /\ t[Len(s) + 1] = cmd
      /\ \A i \in 1 .. Len(s) : t[i] = s[i]
  BY SMTT(30)
<1>2. \A i \in 1 .. Len(s) + 1 : i \in 1 .. Len(s) \/ i = Len(s) + 1
  BY <1>1, SMTT(30)
<1> HIDE DEF t
<1>3. \A i \in DOMAIN t : (i \in DOMAIN s /\ t[i] = s[i]) \/ (i = Len(s) + 1 /\ t[i] = cmd)
  BY <1>1, <1>2, ZenonT(60)
<1>4. ASSUME cmd.kind # "Shutdown" PROVE AsksOnce(t) /\ (AsksNot(s) => AsksNot(t))
  <2>1. \A i \in DOMAIN t : t[i].kind = "Shutdown" => i \in DOMAIN s /\ s[i].kind = "Shutdown"
    BY <1>3, <1>4, ZenonT(60)
  <2> QED BY <2>1, ZenonT(60) DEF AsksOnce, AsksNot
<1>5. ASSUME AsksNot(s) PROVE AsksOnce(t)
  <2>1. \A i \in DOMAIN t : t[i].kind = "Shutdown" => i = Len(s) + 1
    BY <1>3, <1>5, ZenonT(60) DEF AsksNot
  <2> QED BY <2>1, ZenonT(60) DEF AsksOnce
<1> QED BY <1>4, <1>5, ZenonT(60) DEF t

\* Every step keeps AnsweredLast, and writes no record once shutdown is answered.
LEMMA StepAnswers ==
    ASSUME SafetyInv, AnsweredLast, [Next]_vars
    PROVE  AnsweredLast' /\ (shutter = "replied" => logged' = logged)
<1>0. cmds \in Seq(Command) /\ AsksOnce(cmds) /\ (shutter # "sent" => AsksNot(cmds))
  BY ZenonT(60) DEF SafetyInv, TypeOK, AnsweredLast, AsksOnce, AsksNot
<1>a. ASSUME shutter' \in {"idle", "sent"} => ~shuttingDown',
             AsksOnce(cmds'), shutter' # "sent" => AsksNot(cmds'),
             shutter' = "replied" => \/ pc' = "done"
                                     \/ shuttingDown' /\ NoLeases' /\ pc' \in {"loop", "work"}
      PROVE  AnsweredLast'
  BY <1>a, ZenonT(60) DEF AnsweredLast, AsksOnce, AsksNot
<1>1. CASE PlainStep
  <2>1. shutter' = shutter /\ shuttingDown' = shuttingDown
    BY <1>1, ZenonT(60) DEF PlainStep
  <2>2. shutter' \in {"idle", "sent"} => ~shuttingDown'
    BY <2>1, Zenon DEF AnsweredLast
  <2>3. AsksOnce(cmds') /\ (shutter' # "sent" => AsksNot(cmds'))
    <3>1. CASE cmds' = cmds
      BY <1>0, <2>1, <3>1, ZenonT(60)
    <3>2. CASE cmds # <<>> /\ cmds' = Tail(cmds)
      BY <1>0, <2>1, <3>2, AsksTail, ZenonT(60)
    <3>3. CASE \E cmd \in Command : cmd.kind # "Shutdown" /\ cmds' = Append(cmds, cmd)
      BY <1>0, <2>1, <3>3, AsksAppend, ZenonT(60)
    <3> QED BY <1>1, <3>1, <3>2, <3>3, ZenonT(60) DEF PlainStep
  <2>4. ASSUME shutter = "replied"
        PROVE  /\ logged' = logged
               /\ \/ pc' = "done"
                  \/ shuttingDown' /\ NoLeases' /\ pc' \in {"loop", "work"}
    <3>1. CASE pc = "done"
      BY <1>1, <3>1, ZenonT(60) DEF PlainStep
    <3>2. CASE shuttingDown /\ NoLeases /\ pc \in {"loop", "work"}
      <4>1. pc' \in {"loop", "work"} /\ leases' = leases /\ logged' = logged
        BY <1>1, <3>2, ZenonT(60) DEF PlainStep
      <4>2. NoLeases'
        BY <3>2, <4>1, ZenonT(60) DEF NoLeases
      <4> QED BY <2>1, <3>2, <4>1, <4>2, ZenonT(60)
    <3> QED BY <2>4, <3>1, <3>2, ZenonT(60) DEF AnsweredLast
  <2> QED BY <1>a, <2>1, <2>2, <2>3, <2>4, ZenonT(60)
<1>2. CASE SendShutdown
  <2>1. /\ shutter = "idle" /\ shutter' = "sent" /\ shuttingDown' = shuttingDown
        /\ cmds' = Append(cmds, [kind |-> "Shutdown"])
    BY <1>2, ZenonT(60) DEF SendShutdown, ownVars, stopVars
  <2>2. [kind |-> "Shutdown"] \in Command
    BY Zenon DEF Command
  <2>3. AsksOnce(cmds') /\ (shutter' # "sent" => AsksNot(cmds'))
    BY <1>0, <2>1, <2>2, AsksAppend, ZenonT(60)
  <2>4. ~shuttingDown'
    BY <2>1, ZenonT(60) DEF AnsweredLast
  <2> QED BY <1>a, <2>1, <2>3, <2>4, ZenonT(60)
<1>3. CASE StartShutdown
  <2>1. /\ cmds # <<>> /\ Head(cmds).kind = "Shutdown" /\ cmds' = Tail(cmds)
        /\ shuttingDown' = TRUE /\ shutter' = ShutdownReply /\ pc' = "loop"
        /\ leases' = leases /\ logged' = logged
    BY <1>3, ZenonT(60) DEF StartShutdown, Receive, jobVars, storageVars
  <2>2. shutter = "sent" /\ AsksOnce(cmds') /\ AsksNot(cmds')
    BY <1>0, <2>1, AsksTail, ZenonT(60)
  <2>3. ~shuttingDown
    BY <2>2, ZenonT(60) DEF AnsweredLast
  <2>4. /\ shutter' \in {"held", "replied"}
        /\ shutter' = "replied" => NoLeases
    BY <2>1, <2>3, ZenonT(60) DEF ShutdownReply
  <2>5. NoLeases => NoLeases'
    BY <2>1, ZenonT(60) DEF NoLeases
  <2> QED BY <1>a, <2>1, <2>2, <2>4, <2>5, ZenonT(60)
<1>4. CASE CompleteShutdown \/ ForceShutdown
  <2>1. /\ cmds' = <<>> /\ pc' = "done" /\ logged' = logged
        /\ shuttingDown' = shuttingDown
        /\ shutter' = IF shutter = "idle" THEN "idle" ELSE "replied"
    BY <1>4, ZenonT(60) DEF CompleteShutdown, ForceShutdown, Terminate, stopVars, storageVars
  <2>2. shutter' \in {"idle", "sent"} => ~shuttingDown'
    BY <2>1, ZenonT(60) DEF AnsweredLast
  <2>3. AsksOnce(cmds') /\ (shutter' # "sent" => AsksNot(cmds'))
    BY <2>1, SMTT(30) DEF AsksOnce, AsksNot
  <2> QED BY <1>a, <2>1, <2>2, <2>3, ZenonT(60)
<1> QED BY <1>1, <1>2, <1>3, <1>4, NextPlain, ZenonT(60)

-----------------------------------------------------------------------------
\* What the theorems take from the steps.

\* A step moves next_queue_idx only with a lease, towards the queues it passes.
LEMMA TurnsNearer ==
    ASSUME ~PersistMayFail, SafetyInv, [Next]_vars
    PROVE  \A q \in Queues : Leaseable(q) /\ ready'[q] = ready[q] =>
              IF nextLeaseEpoch' = nextLeaseEpoch THEN Turn(q)' = Turn(q)
              ELSE Turn(q)' < Turn(q)
<1>1. CASE DispatchParked \/ LeaseToFetcher
  <2>1. PICK p \in Queues, w \in Workers : GrantLease(p, w)
    BY <1>1, LeaseGranted, ZenonT(60)
  <2>2. ASSUME NEW q \in Queues, Leaseable(q), ready'[q] = ready[q]
        PROVE  nextLeaseEpoch' # nextLeaseEpoch /\ Turn(q)' < Turn(q)
    BY <2>1, <2>2, LeaseNearer, ZenonT(60) DEF SafetyInv
  <2> QED BY <2>2, ZenonT(60)
<1>2. CASE UNCHANGED <<nextQueueIdx, nextLeaseEpoch>>
  <2>1. \A q \in Queues : Turn(q)' = Turn(q)
    BY <1>2, Zenon DEF Turn
  <2> QED BY <1>2, <2>1, ZenonT(60)
<1> QED BY <1>1, <1>2, OthersKeepTurn, ZenonT(60)

\* A job that runs for the first time leaves no earlier one of its queue behind.
LEMMA FirstBefore ==
    ASSUME SafetyInv, LogShape, ReadyIsQueued, Placed, InOrder, [Next]_vars,
           NEW i \in Jobs, NEW k \in Jobs,
           QueueOf[i] = QueueOf[k], place[i] < place[k],
           logged[k].attempts = 0, logged'[k].attempts = 1
    PROVE  logged[i] # [state |-> "Queued", attempts |-> 0]
<1> SUFFICES ASSUME logged[i] = [state |-> "Queued", attempts |-> 0] PROVE FALSE
  BY SMTT(30)
<1>1. ReadyStep
  BY NextReady, ZenonT(60)
<1>2. PICK q \in Queues : 1 \in DOMAIN ready[q] /\ k = ready[q][1]
  BY <1>1, FirstRunOf, ZenonT(60) DEF SafetyInv
<1>3. QueueOf[k] = q
  BY <1>2, ReadyLogged, ZenonT(60)
<1> QED BY <1>2, <1>3, HeadIsFirst, ZenonT(60)
=============================================================================
