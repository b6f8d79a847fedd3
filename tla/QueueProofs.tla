----------------------------- MODULE QueueProofs -----------------------------
(***************************************************************************)
(* The theorems about the runtime, in one lifetime (Spec of QueueRuntime)  *)
(* and over any number of them (QueueSpec of DurableQueue), from the step  *)
(* lemmas of StepProofs, SafetyProofs, DispatchProofs and HoldingProofs.   *)
(***************************************************************************)
EXTENDS SafetyProofs, DispatchProofs, HoldingProofs, FiniteSetTheorems

-----------------------------------------------------------------------------
\* Finitely many ids: any set of them can be counted.
LEMMA JobsCounted == JobsCount
<1>1. ASSUME NEW T \in SUBSET Jobs PROVE IsFiniteSet(T) /\ Cardinality(T) \in Nat
  BY JobsAssumption, FS_Subset, FS_CardinalityType, ZenonT(60)
<1>2. ASSUME NEW T \in SUBSET Jobs, NEW j \in Jobs \ T
      PROVE  Cardinality(T \cup {j}) = Cardinality(T) + 1
  BY <1>1, FS_AddElement, ZenonT(60)
<1>3. ASSUME NEW T \in SUBSET Jobs, NEW U \in SUBSET Jobs, T \cap U = {}
      PROVE  Cardinality(T \cup U) = Cardinality(T) + Cardinality(U)
  <2>1. Cardinality(T \cup U) = Cardinality(T) + Cardinality(U) - Cardinality(T \cap U)
    BY <1>1, FS_Union, ZenonT(60)
  <2>2. Cardinality(T \cap U) = 0
    BY <1>3, FS_EmptySet, ZenonT(60)
  <2> QED BY <1>1, <2>1, <2>2, SMTT(30)
<1> QED BY <1>1, <1>2, <1>3, ZenonT(60) DEF JobsCount

-----------------------------------------------------------------------------
\* One lifetime.

\* A lifetime starts safe.
LEMMA InitSafe == Init => SafetyInv
BY JobsCounted, StartSafe, RuntimeAssumption, ZenonT(60) DEF Init

\* Every step of a lifetime is safe.
LEMMA SafetyStep == SafetyInv /\ [Next]_vars => SafeStep
<1>1. SafetyInv /\ [Next]_vars => TypeOK'
  BY JobsCounted, TypeStep, ZenonT(60) DEF SafetyInv
<1> QED BY <1>1, NextSafe, ZenonT(60)


\* The inductive invariant of one lifetime.
LEMMA SafetyInvariant == Spec => []SafetyInv
<1>1. SafetyInv /\ [Next]_vars => SafetyInv'
  BY SafetyStep, ZenonT(60) DEF SafeStep
<1> QED BY <1>1, InitSafe, PTL DEF Spec

\* The type invariant of the runtime, for every configuration.
THEOREM TypeCorrect == Spec => []TypeOK
<1>1. SafetyInv => TypeOK
  BY ZenonT(60) DEF SafetyInv
<1> QED BY <1>1, SafetyInvariant, PTL

\* LeaseDiscipline, for every configuration: a lease is out only for a Running
\* job, under the job's latest epoch, which no other job has.
THEOREM LeasesAreDisciplined == Spec => []LeaseDiscipline
<1>1. SafetyInv => LeaseDiscipline
  BY ZenonT(60) DEF SafetyInv
<1> QED BY <1>1, SafetyInvariant, PTL

\* MemoryMatchesLog, for every configuration: the coordinator's job table is what
\* a replay of the confirmed records gives, up to retries that came due.
THEOREM MemoryIsReplayOfLog == Spec => []MemoryMatchesLog
<1>1. SafetyInv => MemoryMatchesLog
  BY ZenonT(60) DEF SafetyInv
<1> QED BY <1>1, SafetyInvariant, PTL

\* AnswersAreDurable, for every configuration: a submitter or a canceller is told
\* Ok only for a record that persist confirmed, and a submitter who is told Err has
\* no confirmed record.
THEOREM AnswersAreTrue == Spec => []AnswersAreDurable
BY AnswersLogged, SafetyInvariant, PTL

\* TerminalIsFinal, for every configuration: no step changes a completed, dead or
\* cancelled job, in memory or in the log.
THEOREM TerminalJobsAreFinal == Spec => TerminalIsFinal
<1> DEFINE Final == \A j \in Jobs :
                       /\ store[j].state \in Terminal => store'[j] = store[j]
                       /\ logged[j].state \in Terminal => logged'[j] = logged[j]
<1>1. SafetyInv /\ [Next]_vars => [Final]_vars
  BY SafetyStep, ZenonT(60) DEF SafeStep, TerminalKept
<1> QED BY <1>1, SafetyInvariant, PTL DEF Spec, TerminalIsFinal

\* CompletedByLatestLease, for every configuration: only the Success reported
\* under its latest lease completes a job.
THEOREM StaleReportsCompleteNothing == Spec => CompletedByLatestLease
<1>1. SafetyInv /\ [Next]_vars => [CompletedByReport]_vars
  BY SafetyStep, ZenonT(60) DEF SafeStep
<1> QED BY <1>1, SafetyInvariant, PTL DEF Spec, CompletedByLatestLease, CompletedByReport

\* ImplementsJobLog, for every configuration: what the coordinator persists is a
\* behaviour of JobLog, so each record is legal for the job as the log shows it,
\* epochs are issued in order, and no retry is scheduled beyond max_attempts.
THEOREM RuntimeImplementsJobLog == Spec => ImplementsJobLog
<1>1. Init => Promise!Init
  BY InitSafe, StartLogged, ZenonT(60)
<1> QED BY <1>1, StepLogged, SafetyInvariant, PTL DEF Spec, ImplementsJobLog, Promise!Spec

\* NoQueueStarves, for any number of queues, when persist does not fail: a lease
\* given to another queue brings the turn of a queue that has work nearer, and
\* nothing else moves next_queue_idx.
THEOREM RoundRobinIsFair ==
    ASSUME ~PersistMayFail
    PROVE  Spec => NoQueueStarves
<1> DEFINE Fair == \A q \in Queues : Leaseable(q) /\ ready'[q] = ready[q] =>
                      IF nextLeaseEpoch' = nextLeaseEpoch THEN Turn(q)' = Turn(q)
                      ELSE Turn(q)' < Turn(q)
<1>1. SafetyInv /\ [Next]_vars => [Fair]_vars
  BY TurnsNearer, ZenonT(60)
<1> QED BY <1>1, SafetyInvariant, PTL DEF Spec, NoQueueStarves

\* With the shape of the log and the ready queues.
LEMMA ReadyInvariant == Spec => [](SafetyInv /\ LogShape /\ ReadyIsQueued)
<1> DEFINE Inv == SafetyInv /\ LogShape /\ ReadyIsQueued
<1>1. Init => Inv
  <2> SUFFICES ASSUME Init PROVE Inv
    BY ZenonT(60)
  <2>1. StartFrom(Recovered, FirstEpoch)
    BY ZenonT(60) DEF Init
  <2>2. LogShape
    BY <2>1, ZenonT(60) DEF StartFrom, LogShape, RecoveredEntry
  <2> QED BY <2>1, <2>2, InitSafe, StartReady, ZenonT(60)
<1>2. Inv /\ [Next]_vars => Inv'
  <2>1. SafetyInv /\ [Next]_vars => SafetyInv' /\ TypeOK'
    BY SafetyStep, ZenonT(60) DEF SafeStep, SafetyInv
  <2> QED BY <2>1, RunShape, RunReady, ZenonT(60)
<1> QED BY <1>1, <1>2, PTL DEF Spec

\* ReadyIsQueued, from every state that recovery may hand over: do_cancel,
\* transition_to_queued and the dispatcher lose no Queued job, and keep none
\* twice.
THEOREM ReadyQueuesAreExact == Spec => []ReadyIsQueued
BY ReadyInvariant, PTL

\* What a step writes into the job table it writes into the books.
LEMMA BooksKept ==
    SafetyInv /\ LogShape /\ ReadyIsQueued /\ [Next]_vars => TypeOK /\ TypeOK' /\ BookStep
<1>1. SafetyInv /\ [Next]_vars => TypeOK /\ TypeOK'
  BY SafetyStep, ZenonT(60) DEF SafeStep, SafetyInv
<1> QED BY <1>1, NextReady, ZenonT(60)

\* StatsMatchStore, for every configuration: no handler forgets or repeats a
\* move_stat, and no decrement ever saturates, so do_stats reports the number of
\* jobs in each state.
THEOREM StatsAreExact == Spec => []StatsMatchStore
<1> DEFINE Inv == SafetyInv /\ LogShape /\ ReadyIsQueued
<1>1. Init => StatsMatchStore
  BY StartStats, ZenonT(60) DEF Init
<1>2. Inv /\ StatsMatchStore /\ [Next]_vars => StatsMatchStore'
  BY BooksKept, JobsCounted, StepStats, ZenonT(60)
<1> QED BY <1>1, <1>2, ReadyInvariant, PTL DEF Spec

\* RetryHasTimer, for every configuration: a job that waits for its retry is in
\* the retry heap exactly once, through failed persists and cancels that leave
\* their entry behind.
THEOREM EveryRetryHasOneTimer == Spec => []RetryHasTimer
<1> DEFINE Inv == SafetyInv /\ LogShape /\ ReadyIsQueued
<1>1. Init => RetryTimers
  BY StartTimers, Zenon DEF Init
<1>2. Inv /\ RetryTimers /\ [Next]_vars => RetryTimers'
  BY BooksKept, StepTimers, ZenonT(60)
<1>3. RetryTimers => RetryHasTimer
  <2> SUFFICES ASSUME RetryTimers, NEW j \in Jobs, store[j].state = "RetryWaiting"
               PROVE  Cardinality({i \in DOMAIN retryQueue : retryQueue[i] = j}) = 1
    BY ZenonT(60) DEF RetryHasTimer
  <2>1. PICK i \in DOMAIN retryQueue : retryQueue[i] = j
    BY ZenonT(60) DEF RetryTimers, Range
  <2>2. {k \in DOMAIN retryQueue : retryQueue[k] = j} = {i}
    BY <2>1, ZenonT(60) DEF RetryTimers, IsInjective
  <2> QED BY <2>2, FS_Singleton, ZenonT(60)
<1> QED BY <1>1, <1>2, <1>3, ReadyInvariant, PTL DEF Spec

\* QuietAfterShutdown, for every configuration: when shutdown is answered no lease
\* is left, and no handler or timer of what the run loop still does writes a
\* record.
THEOREM NothingAfterShutdown == Spec => QuietAfterShutdown
<1>1. Init => AnsweredLast
  <2>1. ASSUME Init PROVE shutter = "idle" /\ ~shuttingDown /\ cmds = <<>>
    BY <2>1, ZenonT(60) DEF Init, StartFrom
  <2>2. ASSUME Init PROVE AnsweredLast
    BY <2>1, <2>2, SMTT(30) DEF AnsweredLast
  <2> QED BY <2>2, ZenonT(60)
<1>2. SafetyInv /\ AnsweredLast /\ [Next]_vars => AnsweredLast'
  BY StepAnswers, ZenonT(60)
<1>3. SafetyInv /\ AnsweredLast /\ [Next]_vars =>
          [shutter = "replied" => logged' = logged]_vars
  BY StepAnswers, ZenonT(60)
<1> QED BY <1>1, <1>2, <1>3, SafetyInvariant, PTL DEF Spec, QuietAfterShutdown

\* WorkConserving, for any number of queues and workers, when persist does not
\* fail: the run loop never waits for a command while a worker is parked and a
\* job is ready.
THEOREM NoWorkerParkedBesideWork ==
    ASSUME ~PersistMayFail
    PROVE  Spec => []WorkConserving
<1> DEFINE Inv == SafetyInv /\ LogShape /\ ReadyIsQueued
           Select == WorkConserving /\ NoneParkedAtShutdown
<1>1. Init => Select
  BY ZenonT(60) DEF Init, StartFrom, WorkConserving, NoneParkedAtShutdown
<1>2. Inv /\ Select /\ [Next]_vars => Select'
  BY StepConserves, ZenonT(60)
<1> QED BY <1>1, <1>2, ReadyInvariant, PTL DEF Spec

\* RunningHasOneHolder, for any number of workers and any capacity of the
\* channel, when persist does not fail: the lease of a Running job is with
\* exactly one worker or in exactly one report on its way.
THEOREM EveryRunHasOneHolder ==
    ASSUME ~PersistMayFail
    PROVE  Spec => []RunningHasOneHolder
<1>1. Init => HolderInv
  BY StartHands, ZenonT(60) DEF Init
<1>2. SafetyInv /\ HolderInv /\ [Next]_vars => HolderInv'
  BY StepHands, ZenonT(60)
<1>3. SafetyInv /\ HolderInv => RunningHasOneHolder
  BY OneHolder, FS_Singleton, ZenonT(60) DEF RunningHasOneHolder
<1> QED BY <1>1, <1>2, <1>3, SafetyInvariant, PTL DEF Spec

-----------------------------------------------------------------------------
\* Any number of lifetimes.

\* A step of a lifetime counts what it starts.
LEMMA RunCounted == SafetyInv /\ LogShape /\ Counted /\ [Next]_vars => Counted'
<1> SUFFICES ASSUME SafetyInv, LogShape, Counted, [Next]_vars PROVE Counted'
  BY ZenonT(60)
<1>1. TypeOK /\ logged \in [Jobs -> JobRecord] /\ nextLeaseEpoch \in Nat
  BY ZenonT(60) DEF SafetyInv, TypeOK
<1>2. CASE UNCHANGED <<logged, nextLeaseEpoch>>
  <2>1. Executions' = Executions
    BY <1>2, SameExecutions, ZenonT(60)
  <2> QED BY <1>2, <2>1, ZenonT(60) DEF Counted
<1>3. ASSUME NEW j \in Jobs, NEW e, NextEntry(j, e), logged' = [logged EXCEPT ![j] = e],
             nextLeaseEpoch' = IF e.state = "Running" THEN nextLeaseEpoch + 1
                               ELSE nextLeaseEpoch
      PROVE  Counted'
  <2>1. logged'[j] = e /\ \A k \in Jobs \ {j} : logged'[k] = logged[k]
    BY <1>1, <1>3, ZenonT(60)
  <2>2. CASE e.state = "Running"
    <3>1. e.attempts = logged[j].attempts + 1
      BY <1>3, <2>2, SMTT(30) DEF NextEntry
    <3> DEFINE x == <<j, logged[j].attempts + 1>>
    <3>2. Executions' = Executions \cup {x} /\ x \notin Executions
      BY <1>1, <2>1, <3>1, OneExecution, ZenonT(60)
    <3> HIDE DEF x
    <3>3. /\ IsFiniteSet(Executions')
          /\ Cardinality(Executions') = Cardinality(Executions) + 1
          /\ Cardinality(Executions) \in Nat
      BY <3>2, FS_AddElement, FS_CardinalityType, ZenonT(60) DEF Counted
    <3>4. nextLeaseEpoch' = nextLeaseEpoch + 1
      BY <1>3, <2>2, ZenonT(60)
    <3>5. FirstEpoch \in Nat
      BY RuntimeAssumption, ZenonT(60)
    <3> QED BY <3>3, <3>4, <3>5, SMTT(30) DEF Counted
  <2>3. CASE e.state # "Running"
    <3>1. e.attempts = logged[j].attempts
      BY <1>3, <2>3, ShapeByState, SMTT(30) DEF NextEntry
    <3>2. Executions' = Executions
      BY <2>1, <3>1, SameExecutions, ZenonT(60)
    <3>3. nextLeaseEpoch' = nextLeaseEpoch
      BY <1>3, <2>3, ZenonT(60)
    <3> QED BY <3>2, <3>3, ZenonT(60) DEF Counted
  <2> QED BY <2>2, <2>3, ZenonT(60)
<1> QED BY <1>2, <1>3, StepEntry, ZenonT(60)

\* The largest of the tracked epochs, with one more.
LEMMA TrackedMax ==
    ASSUME NEW m \in Nat, NEW S \in SUBSET Nat, m \in S, \A f \in S : f <= m
    PROVE  (CHOOSE e \in S : \A f \in S : f <= e) = m
<1> DEFINE P(e) == e \in S /\ \A f \in S : f <= e
<1>1. P(m)
  BY Zenon
<1>2. ASSUME NEW e, P(e) PROVE e = m
  BY <1>2, SMTT(30)
<1>3. (CHOOSE e \in S : \A f \in S : f <= e) = CHOOSE e : P(e)
  BY Zenon
<1> HIDE DEF P
<1> QED BY <1>1, <1>2, <1>3, Zenon

\* A step of a lifetime keeps track of the epoch it issues.
LEMMA RunTracked == SafetyInv /\ Tracked /\ [Next]_vars /\ TrackRecord => Tracked'
<1> SUFFICES ASSUME SafetyInv, Tracked, [Next]_vars, TrackRecord PROVE Tracked'
  BY Zenon
<1> DEFINE S == {maxLeaseEpoch} \cup {lastLease'[k] : k \in Jobs}
<1>1. maxLeaseEpoch' = CHOOSE e \in S : \A f \in S : f <= e
  BY Zenon DEF TrackRecord
<1>2. /\ maxLeaseEpoch \in Nat /\ maxLeaseEpoch + 1 = nextLeaseEpoch
      /\ lastLease \in [Jobs -> Nat] /\ \A k \in Jobs : lastLease[k] <= maxLeaseEpoch
  BY ZenonT(60) DEF Tracked, SafetyInv, TypeOK
<1>3. ASSUME NEW m \in Nat, maxLeaseEpoch <= m, m + 1 = nextLeaseEpoch',
             \A k \in Jobs : lastLease'[k] \in Nat /\ lastLease'[k] <= m, m \in S
      PROVE  Tracked'
  <2>1. S \in SUBSET Nat /\ \A f \in S : f <= m
    BY <1>2, <1>3, Zenon
  <2> HIDE DEF S
  <2>2. maxLeaseEpoch' = m
    BY <1>1, <1>3, <2>1, TrackedMax, Zenon
  <2> QED BY <1>3, <2>2, Zenon DEF Tracked
<1>4. CASE UNCHANGED <<lastLease, nextLeaseEpoch>>
  <2>1. maxLeaseEpoch <= maxLeaseEpoch /\ maxLeaseEpoch \in S
    BY <1>2, SMTT(30)
  <2> QED BY <1>2, <1>3, <1>4, <2>1, Zenon
<1>5. ASSUME NEW j \in Jobs, lastLease' = [lastLease EXCEPT ![j] = nextLeaseEpoch],
             nextLeaseEpoch' = nextLeaseEpoch + 1
      PROVE  Tracked'
  <2>1. lastLease'[j] = nextLeaseEpoch /\ \A k \in Jobs \ {j} : lastLease'[k] = lastLease[k]
    BY <1>2, <1>5, Zenon
  <2>2. nextLeaseEpoch \in S
    BY <2>1, Zenon
  <2>3. nextLeaseEpoch \in Nat /\ maxLeaseEpoch <= nextLeaseEpoch
    BY <1>2, SMTT(30)
  <2>4. ASSUME NEW k \in Jobs PROVE lastLease'[k] \in Nat /\ lastLease'[k] <= nextLeaseEpoch
    BY <1>2, <2>1, <2>3, SMTT(30)
  <2> QED BY <1>3, <1>5, <2>2, <2>3, <2>4, Zenon
<1> QED BY <1>4, <1>5, EpochIssued, Zenon

\* A lifetime is safe wherever it starts.
LEMMA HereSafe ==
    nextLeaseEpoch \in Nat \ {0} /\ StartFrom(Jobs, nextLeaseEpoch) => SafetyInv
BY JobsCounted, StartSafe, ZenonT(60)

\* A restart keeps the invariant.
LEMMA RestartKeeps == QueueInv /\ Restart => QueueInv'
<1>1. (nextLeaseEpoch \in Nat \ {0} /\ StartFrom(Jobs, nextLeaseEpoch) => SafetyInv)'
  BY HereSafe, PTL
<1> SUFFICES ASSUME QueueInv, Restart PROVE QueueInv'
  BY ZenonT(60)
<1>2. SafetyInv /\ LogShape /\ Counted /\ Tracked
  BY ZenonT(60) DEF QueueInv
<1>3. nextLeaseEpoch' = nextLeaseEpoch /\ logged' = Reconciled(logged)
  BY <1>2, ZenonT(60) DEF Restart, Tracked
<1>4. (nextLeaseEpoch \in Nat \ {0})'
  BY <1>2, <1>3, ZenonT(60) DEF SafetyInv, TypeOK
<1>5. SafetyInv'
  BY <1>1, <1>2, <1>4, RestartStarts, ZenonT(60)
<1>6. LogShape'
  BY <1>2, <1>3, ReconciledShape, ZenonT(60) DEF LogShape
<1>7. Executions' = Executions
  BY <1>2, <1>3, ReconciledShape, SameExecutions, ZenonT(60)
<1>8. Counted'
  BY <1>2, <1>3, <1>7, ZenonT(60) DEF Counted
<1>9. Tracked'
  <2>1. maxLeaseEpoch' = maxLeaseEpoch /\ lastLease' = [j \in Jobs |-> 0]
    BY ZenonT(60) DEF Restart, trackerVars
  <2>2. maxLeaseEpoch \in Nat /\ maxLeaseEpoch + 1 = nextLeaseEpoch
    BY <1>2, ZenonT(60) DEF Tracked
  <2>3. \A j \in Jobs : lastLease'[j] = 0
    BY <2>1, ZenonT(60)
  <2>4. 0 <= maxLeaseEpoch
    BY <2>2, SMTT(30)
  <2> QED BY <1>3, <2>1, <2>2, <2>3, <2>4, ZenonT(60) DEF Tracked
<1> QED BY <1>5, <1>6, <1>8, <1>9, ZenonT(60) DEF QueueInv

\* An empty log starts it.
LEMMA QueueStarts == QueueInit => QueueInv
<1> SUFFICES ASSUME QueueInit PROVE QueueInv
  BY Zenon
<1>1. SafetyInv
  BY InitSafe, ZenonT(60) DEF QueueInit
<1>2. \A j \in Jobs : logged[j] = Absent
  BY ZenonT(60) DEF QueueInit
<1>3. LogShape
  BY <1>2, ZenonT(60) DEF LogShape, RecoveredEntry
<1>4. Executions = {}
  <2>1. \A j \in Jobs : 1 .. logged[j].attempts = {}
    BY <1>2, SMTT(30) DEF Absent
  <2> QED BY <2>1, ExecutionsHave, ZenonT(60)
<1>5. nextLeaseEpoch = FirstEpoch /\ FirstEpoch \in Nat
  BY RuntimeAssumption, ZenonT(60) DEF QueueInit, Init, StartFrom
<1>6. IsFiniteSet(Executions) /\ Cardinality(Executions) = 0
  BY <1>4, FS_EmptySet, ZenonT(60)
<1>7. Tracked
  <2>1. maxLeaseEpoch = FirstEpoch - 1 /\ lastLease = [j \in Jobs |-> 0]
    BY ZenonT(60) DEF QueueInit, Init, StartFrom
  <2>2. \A j \in Jobs : lastLease[j] = 0
    BY <2>1, ZenonT(60)
  <2>3. FirstEpoch \in Nat \ {0}
    BY RuntimeAssumption, ZenonT(60)
  <2> QED BY <1>5, <2>1, <2>2, <2>3, SMTT(30) DEF Tracked
<1>8. Counted
  BY <1>5, <1>6, SMTT(30) DEF Counted
<1> QED BY <1>1, <1>3, <1>7, <1>8, ZenonT(60) DEF QueueInv

\* Every step of any lifetime keeps it.
LEMMA QueueStep == QueueInv /\ [QueueNext]_queueVars => QueueInv'
<1>1. QueueInv /\ [Next]_vars => SafetyInv' /\ LogShape' /\ Counted'
  BY SafetyStep, RunShape, RunCounted, ZenonT(60) DEF QueueInv, SafeStep
<1>2. QueueInv /\ Run => QueueInv'
  BY <1>1, RunTracked, ZenonT(60) DEF QueueInv, Run
<1>3. QueueInv /\ UNCHANGED queueVars => QueueInv'
  <2>1. UNCHANGED queueVars => UNCHANGED <<vars, maxLeaseEpoch, lastLease, nextLeaseEpoch>>
    BY ZenonT(60) DEF queueVars, trackerVars, vars, jobVars, storageVars
  <2>2. Tracked /\ UNCHANGED <<maxLeaseEpoch, lastLease, nextLeaseEpoch>> => Tracked'
    BY ZenonT(60) DEF Tracked
  <2> QED BY <1>1, <2>1, <2>2, ZenonT(60) DEF QueueInv
<1> QED BY <1>2, <1>3, RestartKeeps, ZenonT(60) DEF QueueNext

\* The inductive invariant over any number of lifetimes.
LEMMA QueueInvariant == QueueSpec => []QueueInv
BY QueueStarts, QueueStep, PTL DEF QueueSpec

\* RestartsAreInitial, for every configuration and any number of lifetimes:
\* recover() hands Coordinator::with_rng_and_recovery a state that QueueRuntime
\* starts from, so that what is proved of one lifetime is true of each.
THEOREM EveryRestartIsAStart == QueueSpec => RestartsAreInitial
<1> DEFINE Starts == lives' # lives => StartFrom(Jobs, nextLeaseEpoch)'
<1>1. QueueInv /\ [QueueNext]_queueVars => [Starts]_queueVars
  BY RestartStarts, ZenonT(60) DEF QueueInv, QueueNext, Run
<1> QED BY <1>1, QueueInvariant, PTL DEF QueueSpec, RestartsAreInitial

\* ExecutionsBounded, for every configuration: the leases that were ever issued
\* are the attempts in the log, and no job has more than its limit, however
\* often the process ends with executions under way.
THEOREM ExecutionsAreBounded == QueueSpec => []ExecutionsBounded
<1>1. QueueInv => ExecutionsBounded
  <2> SUFFICES ASSUME QueueInv PROVE ExecutionsBounded
    BY ZenonT(60)
  <2>1. \A j \in Jobs : logged[j].attempts <= AttemptLimit(j)
    <3> SUFFICES ASSUME NEW j \in Jobs PROVE logged[j].attempts <= AttemptLimit(j)
      BY ZenonT(60)
    <3>1. CASE logged[j] \in [state : {"Running"}, attempts : 1 .. AttemptLimit(j)]
      BY <3>1, Limits, SMTT(30)
    <3>2. CASE logged[j] \in RecoveredEntry(j)
      BY <3>2, Limits, SMTT(30) DEF RecoveredEntry, Absent
    <3> QED BY <3>1, <3>2, ZenonT(60) DEF QueueInv, LogShape
  <2> QED BY <2>1, ZenonT(60) DEF QueueInv, Counted, ExecutionsBounded
<1> QED BY <1>1, QueueInvariant, PTL

\* TerminalIsFinal, over restarts too: recovery reopens no job that was
\* completed, cancelled or dead.
THEOREM RecoveryReopensNothing == QueueSpec => TerminalIsFinal
<1> DEFINE Final == \A j \in Jobs :
                       /\ store[j].state \in Terminal => store'[j] = store[j]
                       /\ logged[j].state \in Terminal => logged'[j] = logged[j]
<1>1. QueueInv /\ [Next]_vars => [Final]_vars
  BY SafetyStep, ZenonT(60) DEF QueueInv, SafeStep, TerminalKept
<1>2. QueueInv /\ Restart => Final
  <2> SUFFICES ASSUME QueueInv, Restart, NEW j \in Jobs
               PROVE  /\ store[j].state \in Terminal => store'[j] = store[j]
                      /\ logged[j].state \in Terminal => logged'[j] = logged[j]
    BY ZenonT(60)
  <2>1. logged[j].state \in Terminal => logged'[j] = logged[j]
    BY ReconciledShape, ZenonT(60) DEF QueueInv, Restart
  <2>2. store[j].state \in Terminal => store[j] = logged[j]
    <3>1. logged[j] \in JobRecord
      BY ZenonT(60) DEF QueueInv, SafetyInv, TypeOK
    <3>2. CASE store[j] = [logged[j] EXCEPT !.state = "Queued"]
      BY <3>1, <3>2, ZenonT(60) DEF Terminal, JobRecord
    <3> QED BY <3>2, ZenonT(60) DEF QueueInv, SafetyInv, MemoryMatchesLog
  <2>3. store'[j] = logged'[j]
    BY ZenonT(60) DEF Restart
  <2> QED BY <2>1, <2>2, <2>3, ZenonT(60)
<1>3. QueueInv /\ [QueueNext]_queueVars => [Final]_vars
  <2>1. [QueueNext]_queueVars => [Next]_vars \/ Restart
    BY Zenon DEF QueueNext, queueVars, Run
  <2> QED BY <1>1, <1>2, <2>1, ZenonT(60)
<1> QED BY <1>3, QueueInvariant, PTL DEF QueueSpec, TerminalIsFinal

\* What a restart reserves fits the queues.
LEMMA HereFits == StartFrom(Jobs, nextLeaseEpoch) => CapacityInv
BY JobsCounted, StartCapacity, ZenonT(60)

\* The first lifetime starts within capacity.
LEMMA CapacityStarts == Init => CapacityInv
BY JobsCounted, StartCapacity, RuntimeAssumption, ZenonT(60) DEF Init

\* With the permits, over any number of lifetimes.
LEMMA CapacityInvariant == QueueSpec => [](QueueInv /\ CapacityInv)
<1>1. QueueInit => CapacityInv
  BY CapacityStarts, ZenonT(60) DEF QueueInit
<1>2. QueueInv /\ QueueInv' /\ CapacityInv /\ [QueueNext]_queueVars => CapacityInv'
  <2>1. (StartFrom(Jobs, nextLeaseEpoch) => CapacityInv)'
    BY HereFits, PTL
  <2>2. [QueueNext]_queueVars => [Next]_vars \/ Restart
    BY Zenon DEF QueueNext, queueVars, Run
  <2>3. QueueInv /\ Restart => CapacityInv'
    BY <2>1, RestartStarts, ZenonT(60) DEF QueueInv
  <2>4. QueueInv /\ QueueInv' /\ CapacityInv /\ [Next]_vars => CapacityInv'
    <3>1. ((\A q \in Queues : Total(q) <= Capacity[q]) /\ SafetyInv => Fits)'
      <4>1. (\A q \in Queues : Total(q) <= Capacity[q]) /\ SafetyInv => Fits
        BY JobsCounted, TotalFits, ZenonT(60)
      <4> QED BY <4>1, PTL
    <3> QED BY <3>1, JobsCounted, RunCapacity, ZenonT(60) DEF QueueInv
  <2> QED BY <2>2, <2>3, <2>4, ZenonT(60)
<1> QED BY <1>1, <1>2, QueueInvariant, PTL DEF QueueSpec

\* NeverOverCapacity, over restarts and for every configuration: free permits,
\* submissions on their way and live jobs never exceed QueueConfig::capacity.
THEOREM CapacityIsNeverExceeded == QueueSpec => []NeverOverCapacity
<1>1. QueueInv /\ CapacityInv => NeverOverCapacity
  BY JobsCounted, WithinCapacity, ZenonT(60) DEF QueueInv
<1> QED BY <1>1, CapacityInvariant, PTL

\* AlwaysRestartable, for every configuration: whenever the process ends, the
\* live jobs in the log fit the queues, and validate_recovered_state accepts
\* them.
THEOREM QueueAlwaysRestarts == QueueSpec => []AlwaysRestartable
<1>1. QueueInv /\ CapacityInv => AlwaysRestartable
  <2> SUFFICES ASSUME QueueInv, CapacityInv, NEW q \in Queues
               PROVE  Cardinality(JobsIn(Reconciled(logged), q, Live)) <= Capacity[q]
    BY ZenonT(60) DEF AlwaysRestartable, ValidateRecoveredState
  <2> DEFINE R == JobsIn(Reconciled(logged), q, Live)
             L == JobsIn(store, q, Live)
  <2>3. R \in SUBSET L /\ L \in SUBSET Jobs
    BY ReconciledLive, ZenonT(60) DEF QueueInv
  <2>4. Cardinality(L) <= Capacity[q] /\ Capacity[q] \in Nat
    BY CoordinatorAssumption, ZenonT(60) DEF CapacityInv, Fits
  <2> HIDE DEF R, L
  <2>5. Cardinality(R) <= Cardinality(L) /\ Cardinality(R) \in Nat /\ Cardinality(L) \in Nat
    BY <2>3, JobsAssumption, FS_Subset, FS_CardinalityType, ZenonT(60)
  <2>6. Cardinality(R) <= Capacity[q]
    BY <2>4, <2>5, SMTT(30)
  <2> QED BY <2>6, ZenonT(60) DEF R
<1> QED BY <1>1, CapacityInvariant, PTL

\* CapacityIsLiveJobs, for every configuration, in a lifetime that recovers no
\* job: no permit is ever lost or doubled, whichever way a submission or a job
\* ends.
THEOREM NoPermitIsLost == Spec /\ Recovered = {} => []CapacityIsLiveJobs
<1>1. Init /\ Recovered = {} => PermitsInv
  <2> SUFFICES ASSUME Init, Recovered = {} PROVE PermitsInv
    BY ZenonT(60)
  <2>1. \A q \in Queues : Total(q) = Capacity[q]
    BY JobsCounted, StartTotal, RuntimeAssumption, ZenonT(60) DEF Init
  <2>2. \A j \in Jobs : store[j] = Absent
    BY ZenonT(60) DEF Init, StartFrom
  <2>3. Unbacked = {}
    BY <2>2, States, ZenonT(60) DEF Unbacked
  <2> QED BY <2>1, <2>3, ZenonT(60) DEF PermitsInv
<1>2. SafetyInv /\ PermitsInv /\ [Next]_vars => PermitsInv'
  BY JobsCounted, RunPermits, ZenonT(60)
<1>3. SafetyInv /\ PermitsInv => CapacityIsLiveJobs
  BY JobsCounted, PermitsAddUp, ZenonT(60)
<1> QED BY <1>1, <1>2, <1>3, SafetyInvariant, PTL DEF Spec

\* A restart rebuilds the ready queues.
LEMMA HereReady == StartFrom(Jobs, nextLeaseEpoch) => ReadyIsQueued
BY StartReady, ZenonT(60)

\* A restart keeps the places and the order of the ready queues.
LEMMA RestartInOrder == OrderInv /\ Restart => OrderInv'
<1>1. (StartFrom(Jobs, nextLeaseEpoch) => ReadyIsQueued)'
  BY HereReady, PTL
<1> SUFFICES ASSUME OrderInv, Restart PROVE OrderInv'
  BY Zenon
<1>2. QueueInv /\ LogShape /\ Placed
  BY ZenonT(60) DEF OrderInv, QueueInv
<1>3. QueueInv'
  BY <1>2, RestartKeeps, ZenonT(60)
<1>4. ReadyIsQueued'
  BY <1>1, <1>2, RestartStarts, ZenonT(60)
<1>5. /\ logged' = Reconciled(logged) /\ place' = place
      /\ \A q \in Queues : ready'[q] \in QueuedJobs(logged', q)
  BY ZenonT(60) DEF Restart, trackerVars
<1>6. \A j \in Jobs : logged'[j] = Absent <=> logged[j] = Absent
  BY <1>2, <1>5, ReconciledShape, ZenonT(60)
<1>7. Logged' = Logged
  BY <1>6, ZenonT(60) DEF Logged
<1>8. Placed'
  BY <1>2, <1>5, <1>7, ZenonT(60) DEF Placed
<1>9. \A q \in Queues : \A i, k \in DOMAIN ready'[q] :
          i < k => place[ready'[q][i]] < place[ready'[q][k]]
  BY <1>5, ZenonT(60) DEF QueuedJobs
<1>10. InOrder'
  BY <1>5, <1>9, ZenonT(60) DEF InOrder
<1> QED BY <1>3, <1>4, <1>8, <1>10, ZenonT(60) DEF OrderInv

\* An empty log has no order to keep.
LEMMA OrderStarts == QueueInit => OrderInv
<1> SUFFICES ASSUME QueueInit PROVE OrderInv
  BY Zenon
<1>1. QueueInv
  BY QueueStarts, ZenonT(60)
<1>2. StartFrom(Recovered, FirstEpoch) /\ \A j \in Jobs : logged[j] = Absent
  BY ZenonT(60) DEF QueueInit, Init
<1>3. ReadyIsQueued
  BY <1>2, StartReady, ZenonT(60)
<1>4. Logged = {} /\ place = [j \in Jobs |-> 0]
  BY <1>2, ZenonT(60) DEF Logged, QueueInit
<1>5. Placed
  BY <1>4, ZenonT(60) DEF Placed
<1>6. \A q \in Queues : DOMAIN ready[q] = {}
  BY <1>1, <1>3, <1>4, ReadyLogged, ZenonT(60) DEF QueueInv
<1>7. InOrder
  BY <1>6, ZenonT(60) DEF InOrder
<1> QED BY <1>1, <1>3, <1>5, <1>7, ZenonT(60) DEF OrderInv

\* Every step of any lifetime keeps the order.
LEMMA OrderStep == OrderInv /\ [QueueNext]_queueVars => OrderInv'
<1> SUFFICES ASSUME OrderInv, [QueueNext]_queueVars PROVE OrderInv'
  BY ZenonT(60)
<1>1. CASE Restart
  BY <1>1, RestartInOrder, ZenonT(60)
<1>2. CASE Run
  <2>1. QueueInv'
    BY <1>2, QueueStep, ZenonT(60) DEF OrderInv, QueueNext
  <2>2. ReadyIsQueued'
    <3>1. TypeOK'
      BY <2>1, ZenonT(60) DEF QueueInv, SafetyInv
    <3> QED BY <1>2, <3>1, RunReady, ZenonT(60) DEF OrderInv, QueueInv, Run
  <2>3. Placed' /\ InOrder'
    <3>1. TypeOK'
      BY <2>1, Zenon DEF QueueInv, SafetyInv
    <3> QED BY <1>2, <3>1, JobsCounted, RunInOrder, ZenonT(60)
  <2> QED BY <2>1, <2>2, <2>3, ZenonT(60) DEF OrderInv
<1>3. CASE UNCHANGED queueVars
  <2>1. QueueInv'
    BY <1>3, QueueStep, ZenonT(60) DEF OrderInv
  <2>2. UNCHANGED <<store, ready, logged, place>>
    BY <1>3, ZenonT(60) DEF queueVars, trackerVars, vars, jobVars, storageVars
  <2>3. ReadyIsQueued'
    BY <2>2, ZenonT(60) DEF OrderInv, ReadyIsQueued, JobsIn
  <2>4. Placed' /\ InOrder'
    BY <2>2, ZenonT(60) DEF OrderInv, Placed, InOrder, Logged
  <2> QED BY <2>1, <2>3, <2>4, Zenon DEF OrderInv
<1> QED BY <1>1, <1>2, <1>3, ZenonT(60) DEF QueueNext

\* With the places of the jobs, over any number of lifetimes.
LEMMA OrderInvariant == QueueSpec => []OrderInv
BY OrderStarts, OrderStep, PTL DEF QueueSpec

\* FirstRunsInOrder, for every configuration and any number of lifetimes.
THEOREM FirstInFirstRun == QueueSpec => FirstRunsInOrder
<1> DEFINE Pass(i, k) ==
              /\ QueueOf[i] = QueueOf[k]
              /\ place[i] < place[k]
              /\ logged[k].attempts = 0
              /\ logged'[k].attempts = 1
           Ordered == \A i, k \in Jobs :
                         Pass(i, k) => logged[i] # [state |-> "Queued", attempts |-> 0]
<1>1. ASSUME OrderInv, Run PROVE Ordered
  <2> SUFFICES ASSUME NEW i \in Jobs, NEW k \in Jobs, Pass(i, k),
                      logged[i] = [state |-> "Queued", attempts |-> 0]
               PROVE  FALSE
    BY ZenonT(60)
  <2>1. SafetyInv /\ LogShape /\ ReadyIsQueued /\ Placed /\ InOrder
    BY <1>1, ZenonT(60) DEF OrderInv, QueueInv
  <2>2. /\ QueueOf[i] = QueueOf[k] /\ place[i] < place[k]
        /\ logged[k].attempts = 0 /\ logged'[k].attempts = 1
    BY ZenonT(60)
  <2> QED BY <1>1, <2>1, <2>2, FirstBefore, ZenonT(60) DEF Run
<1>2. ASSUME OrderInv, Restart PROVE Ordered
  <2>1. \A k \in Jobs : logged'[k].attempts = logged[k].attempts
    BY <1>2, ReconciledShape, ZenonT(60) DEF OrderInv, QueueInv, Restart
  <2> SUFFICES ASSUME NEW i \in Jobs, NEW k \in Jobs, Pass(i, k) PROVE FALSE
    BY ZenonT(60)
  <2>2. logged'[k].attempts = 1 /\ logged[k].attempts = 0
    BY ZenonT(60)
  <2> HIDE DEF Pass
  <2> QED BY <2>1, <2>2, SMTT(30)
<1>3. OrderInv /\ [QueueNext]_queueVars => [Ordered]_queueVars
  BY <1>1, <1>2, ZenonT(60) DEF QueueNext
<1> QED BY <1>3, OrderInvariant, PTL DEF QueueSpec, FirstRunsInOrder
=============================================================================
