--------------------------- MODULE HoldingProofs ---------------------------
(***************************************************************************)
(* Who will report for a lease: what a step does to the one pair of hands  *)
(* every Running job is in.                                                *)
(***************************************************************************)
EXTENDS StepProofs

-----------------------------------------------------------------------------
\* Who will report for a lease.

Holding == {"offered", "executing", "reporting"}

\* Every command of these kinds was in the channel before, each in one place.
Carried(f, kinds) ==
    /\ \A i \in DOMAIN cmds' : cmds'[i].kind \in kinds =>
          f[i] \in DOMAIN cmds /\ cmds[f[i]] = cmds'[i]
    /\ \A i, k \in DOMAIN cmds' : f[i] = f[k] => i = k

\* No job starts to run, and no running job's lease changes.
RunsKept ==
    \A j \in Jobs : store'[j].state = "Running" =>
        /\ store[j].state = "Running"
        /\ leases'[j].epoch = leases[j].epoch
        /\ leases[j] # NoLease => leases'[j] # NoLease

\* A report leaves the channel only when it is not the one a running job waits
\* for.
ReportsKept ==
    \A i \in DOMAIN cmds : cmds[i].kind = "WorkerOutcome" =>
        \/ \E k \in DOMAIN cmds' : cmds'[k] = cmds[i]
        \/ \A j \in Jobs : store'[j].state = "Running" =>
              cmds[i].work # [job |-> j, lease |-> leases'[j].epoch]

\* A step that hands nothing over.
HandsKept ==
    /\ \A w \in Workers : /\ worker'[w].work = worker[w].work
                          /\ worker[w].at \in Holding => worker'[w].at \in Holding
    /\ nextLeaseEpoch' = nextLeaseEpoch
    /\ \E f : Carried(f, {"WorkerOutcome"})
    /\ pc' # "done" => pc # "done" /\ RunsKept /\ ReportsKept

\* A step in which no worker asks for work or is answered, or the last of them.
RequestsKept ==
    pc' # "done" /\ ~shuttingDown' =>
        /\ pc # "done" /\ ~shuttingDown
        /\ parked' = parked
        /\ \A w \in Workers : worker[w].at = "waiting" => worker'[w].at = "waiting"
        /\ \E f : Carried(f, {"FetchWork"})

\* Such a step leaves every lease where it is.
LEMMA HandsHold ==
    ASSUME WorkInHand, OneReport, RunningIsHeld, HandsKept
    PROVE  WorkInHand' /\ OneReport' /\ RunningIsHeld'
<1>1. /\ \A w \in Workers : /\ worker'[w].work = worker[w].work
                            /\ worker[w].at \in Holding => worker'[w].at \in Holding
      /\ nextLeaseEpoch' = nextLeaseEpoch
  BY Zenon DEF HandsKept
<1>2. PICK f : Carried(f, {"WorkerOutcome"})
  BY Zenon DEF HandsKept
<1>3. /\ \A i \in DOMAIN cmds' : cmds'[i].kind = "WorkerOutcome" =>
            f[i] \in DOMAIN cmds /\ cmds[f[i]] = cmds'[i]
      /\ \A i, k \in DOMAIN cmds' : f[i] = f[k] => i = k
  BY <1>2, Zenon DEF Carried
<1>4. WorkInHand'
  BY <1>1, Zenon DEF WorkInHand, Holding
<1>5. OneReport'
  <2>1. ASSUME NEW w \in Workers, worker'[w].work # None
        PROVE  /\ worker'[w].work.lease < nextLeaseEpoch'
               /\ \A v \in Workers : worker'[v].work = worker'[w].work => v = w
               /\ \A i \in DOMAIN cmds' : ~IsReport(cmds'[i], worker'[w].work)
    <3>1. /\ worker[w].work.lease < nextLeaseEpoch
          /\ \A v \in Workers : worker[v].work = worker[w].work => v = w
          /\ \A i \in DOMAIN cmds : ~IsReport(cmds[i], worker[w].work)
      BY <1>1, <2>1, Zenon DEF OneReport
    <3>2. \A i \in DOMAIN cmds' : ~IsReport(cmds'[i], worker[w].work)
      BY <1>3, <3>1, ZenonT(60) DEF IsReport
    <3> QED BY <1>1, <3>1, <3>2, Zenon
  <2>2. ASSUME NEW i \in DOMAIN cmds', cmds'[i].kind = "WorkerOutcome"
        PROVE  /\ cmds'[i].work.lease < nextLeaseEpoch'
               /\ \A k \in DOMAIN cmds' : IsReport(cmds'[k], cmds'[i].work) => k = i
    <3>1. f[i] \in DOMAIN cmds /\ cmds[f[i]] = cmds'[i]
      BY <1>3, <2>2, Zenon
    <3>2. /\ cmds[f[i]].work.lease < nextLeaseEpoch
          /\ \A k \in DOMAIN cmds : IsReport(cmds[k], cmds[f[i]].work) => k = f[i]
      BY <2>2, <3>1, Zenon DEF OneReport
    <3>3. ASSUME NEW k \in DOMAIN cmds', IsReport(cmds'[k], cmds'[i].work)
          PROVE  k = i
      <4>1. f[k] \in DOMAIN cmds /\ cmds[f[k]] = cmds'[k]
        BY <1>3, <3>3, Zenon DEF IsReport
      <4>2. f[k] = f[i]
        BY <3>1, <3>2, <3>3, <4>1, ZenonT(60)
      <4> QED BY <1>3, <4>2, Zenon
    <3> QED BY <1>1, <3>1, <3>2, <3>3, Zenon
  <2> QED BY <2>1, <2>2, Zenon DEF OneReport
<1>6. RunningIsHeld'
  <2> SUFFICES ASSUME pc' # "done", NEW j \in Jobs, store'[j].state = "Running"
               PROVE  /\ leases'[j] # NoLease
                      /\ LET work == [job |-> j, lease |-> leases'[j].epoch]
                         IN \/ \E w \in Workers : worker'[w].work = work
                            \/ \E i \in DOMAIN cmds' : IsReport(cmds'[i], work)
    BY Zenon DEF RunningIsHeld
  <2> DEFINE work == [job |-> j, lease |-> leases[j].epoch]
             workNow == [job |-> j, lease |-> leases'[j].epoch]
  <2>1. /\ pc # "done" /\ ReportsKept
        /\ store[j].state = "Running"
        /\ leases'[j].epoch = leases[j].epoch
        /\ leases[j] # NoLease => leases'[j] # NoLease
    BY Zenon DEF HandsKept, RunsKept
  <2>2. /\ leases[j] # NoLease
        /\ \/ \E w \in Workers : worker[w].work = work
           \/ \E i \in DOMAIN cmds : IsReport(cmds[i], work)
    BY <2>1, Zenon DEF RunningIsHeld
  <2>3. workNow = work
    BY <2>1, Zenon
  <2>4. \A i \in DOMAIN cmds : IsReport(cmds[i], workNow) =>
            \E k \in DOMAIN cmds' : IsReport(cmds'[k], workNow)
    <3> HIDE DEF work
    <3> QED BY <2>1, Zenon DEF ReportsKept, IsReport
  <2> HIDE DEF work, workNow
  <2>5. \/ \E w \in Workers : worker'[w].work = workNow
        \/ \E i \in DOMAIN cmds' : IsReport(cmds'[i], workNow)
    BY <1>1, <2>2, <2>3, <2>4, ZenonT(60)
  <2> QED BY <2>1, <2>2, <2>5, Zenon DEF workNow
<1> QED BY <1>4, <1>5, <1>6, Zenon

\* Such a step leaves every request where it is.
LEMMA RequestsHold ==
    ASSUME TypeOK, OneRequest, RequestsKept
    PROVE  OneRequest'
<1> SUFFICES ASSUME pc' # "done", ~shuttingDown'
             PROVE  /\ IsInjective(parked')
                    /\ \A i \in DOMAIN parked' : worker'[parked'[i]].at = "waiting"
                    /\ \A i \in DOMAIN cmds' : cmds'[i].kind = "FetchWork" =>
                          /\ worker'[cmds'[i].worker].at = "waiting"
                          /\ \A k \in DOMAIN cmds' :
                                IsFetch(cmds'[k], cmds'[i].worker) => k = i
                          /\ \A k \in DOMAIN parked' : parked'[k] # cmds'[i].worker
  BY Zenon DEF OneRequest
<1>1. /\ pc # "done" /\ ~shuttingDown /\ parked' = parked
      /\ \A w \in Workers : worker[w].at = "waiting" => worker'[w].at = "waiting"
  BY Zenon DEF RequestsKept
<1>2. PICK f : Carried(f, {"FetchWork"})
  BY Zenon DEF RequestsKept
<1>3. /\ \A i \in DOMAIN cmds' : cmds'[i].kind = "FetchWork" =>
            f[i] \in DOMAIN cmds /\ cmds[f[i]] = cmds'[i]
      /\ \A i, k \in DOMAIN cmds' : f[i] = f[k] => i = k
  BY <1>2, Zenon DEF Carried
<1>4. /\ \A i \in DOMAIN parked : parked[i] \in Workers
      /\ \A i \in DOMAIN cmds : cmds[i] \in Command
  <2>1. parked \in Seq(Workers) /\ cmds \in Seq(Command)
    BY Zenon DEF TypeOK
  <2> QED BY <2>1, SeqLen, Zenon
<1>5. /\ IsInjective(parked)
      /\ \A i \in DOMAIN parked : worker[parked[i]].at = "waiting"
      /\ \A i \in DOMAIN cmds : cmds[i].kind = "FetchWork" =>
            /\ worker[cmds[i].worker].at = "waiting"
            /\ \A k \in DOMAIN cmds : IsFetch(cmds[k], cmds[i].worker) => k = i
            /\ \A k \in DOMAIN parked : parked[k] # cmds[i].worker
  BY <1>1, Zenon DEF OneRequest
<1>6. ASSUME NEW i \in DOMAIN cmds', cmds'[i].kind = "FetchWork"
      PROVE  /\ worker'[cmds'[i].worker].at = "waiting"
             /\ \A k \in DOMAIN cmds' : IsFetch(cmds'[k], cmds'[i].worker) => k = i
             /\ \A k \in DOMAIN parked' : parked'[k] # cmds'[i].worker
  <2>1. f[i] \in DOMAIN cmds /\ cmds[f[i]] = cmds'[i]
    BY <1>3, <1>6, Zenon
  <2>2. cmds[f[i]].worker \in Workers
    BY <1>4, <1>6, <2>1, CommandFields, Zenon
  <2>3. ASSUME NEW k \in DOMAIN cmds', IsFetch(cmds'[k], cmds'[i].worker)
        PROVE  k = i
    <3>1. f[k] \in DOMAIN cmds /\ cmds[f[k]] = cmds'[k]
      BY <1>3, <2>3, Zenon DEF IsFetch
    <3>2. f[k] = f[i]
      BY <1>5, <1>6, <2>1, <2>3, <3>1, ZenonT(60)
    <3> QED BY <1>3, <3>2, Zenon
  <2>4. worker[cmds[f[i]].worker].at = "waiting"
    BY <1>5, <1>6, <2>1, Zenon
  <2>5. \A k \in DOMAIN parked : parked[k] # cmds[f[i]].worker
    BY <1>5, <1>6, <2>1, Zenon
  <2> QED BY <1>1, <2>1, <2>2, <2>3, <2>4, <2>5, ZenonT(60)
<1> QED BY <1>1, <1>4, <1>5, <1>6, Zenon

\* What sending and receiving do to the channel.
LEMMA SameCarried ==
    ASSUME cmds' = cmds \/ cmds' = <<>>, NEW kinds
    PROVE  \E f : Carried(f, kinds)
<1> DEFINE f == [i \in DOMAIN cmds' |-> i]
<1>1. Carried(f, kinds)
  BY DEF Carried
<1> QED BY <1>1, Zenon

\* Receiving: the other commands move one place forward.
LEMMA TailCarried ==
    ASSUME TypeOK, cmds # <<>>, cmds' = Tail(cmds), NEW kinds
    PROVE  \E f : Carried(f, kinds)
<1> DEFINE f == [i \in DOMAIN cmds' |-> i + 1]
<1>1. cmds \in Seq(Command)
  BY Zenon DEF TypeOK
<1>2. Len(cmds) \in Nat /\ DOMAIN cmds = 1 .. Len(cmds)
  BY <1>1, SeqLen, Zenon
<1>3. /\ DOMAIN cmds' = 1 .. Len(cmds')
      /\ Len(cmds') = Len(cmds) - 1
      /\ \A i \in 1 .. Len(cmds') : cmds'[i] = cmds[i + 1]
  BY <1>1, SeqHeadTail, SeqLen, Zenon
<1>4. \A i \in DOMAIN cmds' : i \in Nat /\ i + 1 \in DOMAIN cmds
  <2>1. ASSUME NEW n \in Nat, NEW m, m = n - 1, NEW i \in 1 .. m
        PROVE  i \in Nat /\ i + 1 \in 1 .. n
    BY <2>1, SMTT(30)
  <2> QED BY <1>2, <1>3, <2>1, Zenon
<1>5. \A i, k \in DOMAIN cmds' : i + 1 = k + 1 => i = k
  BY <1>4, SMTT(30)
<1>6. Carried(f, kinds)
  BY <1>3, <1>4, <1>5, Zenon DEF Carried
<1> QED BY <1>6, Zenon

\* Sending: the commands of other kinds stay.
LEMMA AppendCarried ==
    ASSUME TypeOK, NEW c \in Command, cmds' = Append(cmds, c), NEW kinds, c.kind \notin kinds
    PROVE  \E f : Carried(f, kinds)
<1> DEFINE f == [i \in DOMAIN cmds' |-> i]
<1>1. cmds \in Seq(Command)
  BY Zenon DEF TypeOK
<1>2. Len(cmds) \in Nat /\ DOMAIN cmds = 1 .. Len(cmds)
  BY <1>1, SeqLen, Zenon
<1>3. /\ cmds' \in Seq(Command) /\ Len(cmds') = Len(cmds) + 1
      /\ \A i \in 1 .. Len(cmds) : cmds'[i] = cmds[i]
      /\ cmds'[Len(cmds) + 1] = c
  BY <1>1, SeqAppend, SMTT(30)
<1>4. DOMAIN cmds' = 1 .. Len(cmds) + 1
  BY <1>3, SeqLen, Zenon
<1>5. ASSUME NEW i \in DOMAIN cmds', cmds'[i].kind \in kinds
      PROVE  i \in DOMAIN cmds /\ cmds[i] = cmds'[i]
  <2>1. i # Len(cmds) + 1
    BY <1>3, <1>5, Zenon
  <2>2. ASSUME NEW n \in Nat, NEW m \in 1 .. n + 1, m # n + 1
        PROVE  m \in 1 .. n
    BY <2>2, SMTT(30)
  <2>3. i \in 1 .. Len(cmds)
    BY <1>2, <1>4, <2>1, <2>2, ZenonT(60)
  <2> QED BY <1>2, <1>3, <2>3, Zenon
<1>6. Carried(f, kinds)
  BY <1>5, Zenon DEF Carried
<1> QED BY <1>6, Zenon

\* Only the received command leaves the channel.
LEMMA OthersStay ==
    ASSUME TypeOK, cmds # <<>>, cmds' = Tail(cmds), NEW i \in DOMAIN cmds, cmds[i] # Head(cmds)
    PROVE  \E k \in DOMAIN cmds' : cmds'[k] = cmds[i]
<1>1. cmds \in Seq(Command) /\ Len(cmds) \in Nat /\ DOMAIN cmds = 1 .. Len(cmds)
  BY SeqLen, Zenon DEF TypeOK
<1>2. /\ DOMAIN cmds' = 1 .. Len(cmds')
      /\ Len(cmds') = Len(cmds) - 1
      /\ Head(cmds) = cmds[1]
      /\ \A n \in 1 .. Len(cmds') : cmds'[n] = cmds[n + 1]
  BY <1>1, SeqHeadTail, SeqLen, Zenon
<1>3. i # 1
  BY <1>2, Zenon
<1>4. i - 1 \in DOMAIN cmds' /\ cmds'[i - 1] = cmds[i]
  BY <1>1, <1>2, <1>3, SMTT(30)
<1> QED BY <1>4, Zenon

\* What is in the channel stays when a command is sent.
LEMMA AppendStays ==
    ASSUME TypeOK, NEW c \in Command, cmds' = Append(cmds, c)
    PROVE  \A i \in DOMAIN cmds : i \in DOMAIN cmds' /\ cmds'[i] = cmds[i]
<1>1. cmds \in Seq(Command)
  BY Zenon DEF TypeOK
<1>2. Len(cmds) \in Nat /\ DOMAIN cmds = 1 .. Len(cmds)
  BY <1>1, SeqLen, Zenon
<1>3. /\ cmds' \in Seq(Command) /\ Len(cmds') = Len(cmds) + 1
      /\ \A i \in 1 .. Len(cmds) : cmds'[i] = cmds[i]
  BY <1>1, SeqAppend, ZenonT(60)
<1>4. DOMAIN cmds' = 1 .. Len(cmds) + 1
  BY <1>3, SeqLen, Zenon
<1>5. 1 .. Len(cmds) \subseteq 1 .. Len(cmds) + 1
  BY <1>2
<1> QED BY <1>2, <1>3, <1>4, <1>5, ZenonT(60)

-----------------------------------------------------------------------------
\* The steps that hand nothing over.

WorksKept ==
    \A w \in Workers : /\ worker'[w].work = worker[w].work
                       /\ worker[w].at \in Holding => worker'[w].at \in Holding

WaitersKept == \A w \in Workers : worker[w].at = "waiting" => worker'[w].at = "waiting"

\* The channel stays, or is closed for good.
LEMMA SameHands ==
    ASSUME cmds' = cmds \/ (pc' = "done" /\ cmds' = <<>>),
           nextLeaseEpoch' = nextLeaseEpoch, WorksKept,
           pc' # "done" => pc # "done" /\ RunsKept
    PROVE  HandsKept
<1>1. \E f : Carried(f, {"WorkerOutcome"})
  BY SameCarried, Zenon
<1>2. pc' # "done" => ReportsKept
  BY Zenon DEF ReportsKept
<1> QED BY <1>1, <1>2, Zenon DEF HandsKept, WorksKept

\* The channel and the parked workers stay.
LEMMA SameRequests ==
    ASSUME cmds' = cmds, parked' = parked,
           pc' # "done" => pc # "done", shuttingDown' = shuttingDown,
           pc # "done" /\ ~shuttingDown => WaitersKept
    PROVE  RequestsKept
<1>1. \E f : Carried(f, {"FetchWork"})
  BY SameCarried, Zenon
<1> QED BY <1>1, Zenon DEF RequestsKept, WaitersKept

\* A command is received, and no report that a Running job waits for.
LEMMA TailHands ==
    ASSUME TypeOK, cmds # <<>>, cmds' = Tail(cmds), pc # "done",
           nextLeaseEpoch' = nextLeaseEpoch, WorksKept, RunsKept,
           Head(cmds).kind = "WorkerOutcome" =>
              \A j \in Jobs : store'[j].state = "Running" =>
                 Head(cmds).work # [job |-> j, lease |-> leases'[j].epoch]
    PROVE  HandsKept
<1>1. \E f : Carried(f, {"WorkerOutcome"})
  BY TailCarried, Zenon
<1>2. ReportsKept
  <2> SUFFICES ASSUME NEW i \in DOMAIN cmds, cmds[i].kind = "WorkerOutcome"
               PROVE  \/ \E k \in DOMAIN cmds' : cmds'[k] = cmds[i]
                      \/ \A j \in Jobs : store'[j].state = "Running" =>
                            cmds[i].work # [job |-> j, lease |-> leases'[j].epoch]
    BY Zenon DEF ReportsKept
  <2>1. CASE cmds[i] = Head(cmds)
    BY <2>1, Zenon
  <2>2. CASE cmds[i] # Head(cmds)
    BY <2>2, OthersStay, Zenon
  <2> QED BY <2>1, <2>2, Zenon
<1> QED BY <1>1, <1>2, Zenon DEF HandsKept, WorksKept

\* A command is received, and no request, or the runtime shuts down.
LEMMA TailRequests ==
    ASSUME TypeOK, cmds # <<>>, cmds' = Tail(cmds), pc # "done",
           shuttingDown' \/ (~shuttingDown /\ parked' = parked /\ WaitersKept)
    PROVE  RequestsKept
<1>1. \E f : Carried(f, {"FetchWork"})
  BY TailCarried, Zenon
<1> QED BY <1>1, Zenon DEF RequestsKept, WaitersKept

\* A command other than a report is sent.
LEMMA AppendHands ==
    ASSUME TypeOK, NEW c \in Command, c.kind # "WorkerOutcome", cmds' = Append(cmds, c),
           pc # "done", nextLeaseEpoch' = nextLeaseEpoch, WorksKept, RunsKept
    PROVE  HandsKept
<1>1. c.kind \notin {"WorkerOutcome"}
  BY Zenon
<1>2. \E f : Carried(f, {"WorkerOutcome"})
  BY <1>1, AppendCarried, Zenon
<1>3. ReportsKept
  <2>1. ASSUME NEW i \in DOMAIN cmds
        PROVE  i \in DOMAIN cmds' /\ cmds'[i] = cmds[i]
    BY AppendStays, Zenon
  <2> QED BY <2>1, Zenon DEF ReportsKept
<1> QED BY <1>2, <1>3, Zenon DEF HandsKept, WorksKept

\* A command other than a request is sent.
LEMMA AppendRequests ==
    ASSUME TypeOK, NEW c \in Command, c.kind # "FetchWork", cmds' = Append(cmds, c),
           pc # "done", shuttingDown' = shuttingDown, parked' = parked, WaitersKept
    PROVE  RequestsKept
<1>1. c.kind \notin {"FetchWork"}
  BY Zenon
<1>2. \E f : Carried(f, {"FetchWork"})
  BY <1>1, AppendCarried, Zenon
<1> QED BY <1>2, Zenon DEF RequestsKept, WaitersKept

\* A lease that is settled: its job no longer runs, the others go on.
LEMMA SettledRuns ==
    ASSUME SafetyInv, NEW j \in Jobs, leases[j] # NoLease,
           NEW type \in {"JobRetryScheduled", "JobCompleted", "JobDead"},
           NEW ok \in BOOLEAN, ok, Settle(j, type, ok)
    PROVE  RunsKept /\ store'[j].state # "Running"
<1> DEFINE to == TargetState[type]
<1>1. /\ to \in {"RetryWaiting", "Completed", "Dead"}
      /\ store' = [store EXCEPT ![j] = [state |-> to, attempts |-> store[j].attempts]]
  <2>1. Settled(j, type, ok, to)
    BY SettleEffect, Zenon
  <2> HIDE DEF to
  <2> QED BY <2>1, Zenon DEF Settled
<1>2. leases' = [leases EXCEPT ![j] = NoLease]
  BY Zenon DEF Settle, DropLease
<1> HIDE DEF to
<1>3. to # "Running"
  BY <1>1, ZenonT(60)
<1>4. /\ store \in [Jobs -> JobRecord]
      /\ leases \in [Jobs -> [epoch : Nat, expired : BOOLEAN]]
  BY Zenon DEF SafetyInv, TypeOK
<1>5. store'[j].state = to
  BY <1>1, <1>4, Zenon
<1>6. \A k \in Jobs \ {j} : store'[k] = store[k] /\ leases'[k] = leases[k]
  BY <1>1, <1>2, <1>4, ZenonT(60)
<1> QED BY <1>3, <1>5, <1>6, ZenonT(60) DEF RunsKept

\* The quiet steps of the coordinator, the clients and the clock.
LEMMA QuietHands ==
    ASSUME SafetyInv, ~PersistMayFail,
           \/ ProcessDueRetry \/ CollectTimeouts \/ SettleTimeout \/ EnterSelect
           \/ WakeOnDeadline \/ ReplySubmit \/ RetryBecomesDue \/ DeadlineElapses
           \/ \E j \in Jobs : \/ AcquirePermit(j) \/ PermitRefused(j) \/ DropSubmit(j)
                              \/ LeaseExpires(j)
    PROVE  HandsKept /\ RequestsKept
<1>1. /\ UNCHANGED <<cmds, worker, parked, nextLeaseEpoch, shuttingDown>>
      /\ pc' # "done" => pc # "done"
  <2>1. CASE ProcessDueRetry \/ CollectTimeouts \/ EnterSelect \/ WakeOnDeadline \/ ReplySubmit
    BY <2>1, ZenonT(60) DEF ProcessDueRetry, CollectTimeouts, EnterSelect, WakeOnDeadline, ReplySubmit,
                jobVars, stopVars, actorVars, loopVars
  <2>2. CASE SettleTimeout
    BY <2>2, Zenon DEF SettleTimeout, Settle, stopVars, actorVars
  <2>3. CASE RetryBecomesDue \/ DeadlineElapses
    BY <2>3, Zenon DEF RetryBecomesDue, DeadlineElapses, jobVars, stopVars, actorVars, loopVars
  <2>4. ASSUME NEW j \in Jobs,
               AcquirePermit(j) \/ PermitRefused(j) \/ DropSubmit(j) \/ LeaseExpires(j)
        PROVE  /\ UNCHANGED <<cmds, worker, parked, nextLeaseEpoch, shuttingDown>>
               /\ pc' # "done" => pc # "done"
    BY <2>4, Zenon DEF AcquirePermit, PermitRefused, DropSubmit, LeaseExpires, ownVars, jobVars,
                loopVars, stopVars, actorVars
  <2> QED BY <2>1, <2>2, <2>3, <2>4, ZenonT(60)
<1>2. RunsKept
  <2>1. CASE UNCHANGED <<store, leases>>
    BY <2>1, Zenon DEF RunsKept
  <2>2. CASE ProcessDueRetry
    <3> DEFINE j == Head(retryQueue)
    <3>1. leases' = leases /\ (store' = store \/ store' = [store EXCEPT ![j].state = "Queued"])
      BY <2>2, ZenonT(60) DEF ProcessDueRetry, TransitionToQueued
    <3>2. store \in [Jobs -> JobRecord]
      BY Zenon DEF SafetyInv, TypeOK
    <3> HIDE DEF j
    <3>3. ASSUME NEW k \in Jobs, store'[k].state = "Running"
          PROVE  store[k].state = "Running"
      BY <3>1, <3>2, <3>3, ZenonT(60) DEF JobRecord
    <3> QED BY <3>1, <3>3, ZenonT(60) DEF RunsKept
  <2>3. CASE SettleTimeout
    <3>1. PICK j \in Jobs, ok \in BOOLEAN,
               type \in {"JobRetryScheduled", "JobCompleted", "JobDead"} :
                  leases[j] # NoLease /\ Settle(j, type, ok) /\ ok
      BY <2>3, LeaseSettled, Zenon
    <3> QED BY <3>1, SettledRuns, Zenon
  <2>4. ASSUME NEW j \in Jobs, LeaseExpires(j)
        PROVE  RunsKept
    <3>1. store' = store /\ leases' = [leases EXCEPT ![j].expired = TRUE]
      BY <2>4, Zenon DEF LeaseExpires
    <3>2. leases \in [Jobs -> [epoch : Nat, expired : BOOLEAN]]
      BY Zenon DEF SafetyInv, TypeOK
    <3>3. ASSUME NEW k \in Jobs
          PROVE  /\ leases'[k].epoch = leases[k].epoch
                 /\ leases[k] # NoLease => leases'[k] # NoLease
      BY <3>1, <3>2, Zenon DEF NoLease
    <3> QED BY <3>1, <3>3, Zenon DEF RunsKept
  <2>5. CASE CollectTimeouts \/ EnterSelect \/ WakeOnDeadline \/ ReplySubmit
    <3>1. UNCHANGED <<store, leases>>
      BY <2>5, ZenonT(60) DEF CollectTimeouts, EnterSelect, WakeOnDeadline, ReplySubmit, jobVars
    <3> QED BY <2>1, <3>1, Zenon
  <2>6. CASE RetryBecomesDue \/ DeadlineElapses
    <3>1. UNCHANGED <<store, leases>>
      BY <2>6, Zenon DEF RetryBecomesDue, DeadlineElapses, jobVars
    <3> QED BY <2>1, <3>1, Zenon
  <2>7. ASSUME NEW j \in Jobs, AcquirePermit(j) \/ PermitRefused(j) \/ DropSubmit(j)
        PROVE  RunsKept
    <3>1. UNCHANGED <<store, leases>>
      BY <2>7, Zenon DEF AcquirePermit, PermitRefused, DropSubmit, ownVars, jobVars
    <3> QED BY <2>1, <3>1, Zenon
  <2> QED BY <2>2, <2>3, <2>4, <2>5, <2>6, <2>7, ZenonT(60)
<1>3. WorksKept /\ WaitersKept
  BY <1>1, Zenon DEF WorksKept, WaitersKept
<1>4. HandsKept
  <2>1. /\ cmds' = cmds /\ nextLeaseEpoch' = nextLeaseEpoch
        /\ pc' # "done" => pc # "done" /\ RunsKept
    BY <1>1, <1>2, Zenon
  <2> QED BY <1>3, <2>1, SameHands, ZenonT(60)
<1>5. RequestsKept
  BY <1>1, <1>3, SameRequests, ZenonT(60)
<1> QED BY <1>4, <1>5, Zenon

\* The commands that are received, a FetchWork without shutdown aside.
LEMMA ReceiveHands ==
    ASSUME SafetyInv, ~PersistMayFail,
           \/ RejectSubmit \/ AcceptSubmit \/ RejectCancel \/ AcceptCancel
           \/ StaleOutcome \/ CurrentOutcome \/ StartShutdown
    PROVE  HandsKept /\ RequestsKept
<1>1. /\ TypeOK /\ store \in [Jobs -> JobRecord] /\ worker \in [Workers -> WorkerState]
      /\ leases \in [Jobs -> [epoch : Nat, expired : BOOLEAN]]
  BY Zenon DEF SafetyInv, TypeOK
<1>2. PICK kind : Receive(kind) /\ kind \in {"Submit", "Cancel", "WorkerOutcome", "Shutdown"}
  BY Zenon DEF RejectSubmit, AcceptSubmit, RejectCancel, AcceptCancel, StaleOutcome,
               CurrentOutcome, StartShutdown
<1>3. cmds # <<>> /\ cmds' = Tail(cmds) /\ pc # "done" /\ Head(cmds).kind = kind
  BY <1>2, Zenon DEF Receive
<1>4. nextLeaseEpoch' = nextLeaseEpoch
  <2>1. CASE RejectSubmit \/ RejectCancel \/ StaleOutcome \/ StartShutdown
    BY <2>1, Zenon DEF RejectSubmit, RejectCancel, StaleOutcome, StartShutdown, jobVars
  <2>2. CASE AcceptSubmit \/ AcceptCancel \/ CurrentOutcome
    BY <2>2, Zenon DEF AcceptSubmit, AcceptCancel, CurrentOutcome, Settle
  <2> QED BY <2>1, <2>2, Zenon
<1>5. CASE ~StartShutdown
  <2>1. UNCHANGED <<worker, parked, shuttingDown>>
    BY <1>5, Zenon DEF RejectSubmit, AcceptSubmit, RejectCancel, AcceptCancel, StaleOutcome,
                       CurrentOutcome, actorVars, stopVars
  <2>2. WorksKept /\ WaitersKept
    BY <2>1, Zenon DEF WorksKept, WaitersKept
  <2>3. RequestsKept
    <3>1. shuttingDown' \/ (~shuttingDown /\ parked' = parked /\ WaitersKept)
      BY <2>1, <2>2, Zenon
    <3> QED BY <1>1, <1>3, <3>1, TailRequests, ZenonT(60)
  <2>4. /\ RunsKept
        /\ Head(cmds).kind = "WorkerOutcome" =>
              \A j \in Jobs : store'[j].state = "Running" =>
                 Head(cmds).work # [job |-> j, lease |-> leases'[j].epoch]
    <3>1. CASE RejectSubmit \/ RejectCancel
      <4>1. UNCHANGED <<store, leases>> /\ Head(cmds).kind # "WorkerOutcome"
        BY <3>1, Zenon DEF RejectSubmit, RejectCancel, Receive, jobVars
      <4> QED BY <4>1, ZenonT(60) DEF RunsKept
    <3>2. CASE AcceptSubmit
      <4> DEFINE j == Head(cmds).job
      <4>1. /\ store' = [store EXCEPT ![j] = [state |-> "Queued", attempts |-> 0]]
            /\ j \in Jobs
        BY <3>2, SubmitEffect, ZenonT(60)
      <4>2. leases' = leases /\ Head(cmds).kind # "WorkerOutcome"
        BY <3>2, Zenon DEF AcceptSubmit, Receive
      <4> HIDE DEF j
      <4>3. ASSUME NEW k \in Jobs, store'[k].state = "Running"
            PROVE  store[k].state = "Running"
        BY <1>1, <4>1, <4>3, ZenonT(60)
      <4> QED BY <4>2, <4>3, Zenon DEF RunsKept
    <3>3. CASE AcceptCancel
      <4> DEFINE j == Head(cmds).job
                 n == store[j].attempts
      <4>1. /\ store' = [store EXCEPT ![j] = [state |-> "Cancelled", attempts |-> n]]
            /\ j \in Jobs
        BY <3>3, CancelEffect, ZenonT(60)
      <4>2. /\ leases' = leases \/ leases' = [leases EXCEPT ![j] = NoLease]
            /\ Head(cmds).kind # "WorkerOutcome"
        BY <3>3, Zenon DEF AcceptCancel, Receive, DropLease
      <4> HIDE DEF j, n
      <4>3. ASSUME NEW k \in Jobs, store'[k].state = "Running"
            PROVE  store[k].state = "Running" /\ leases'[k] = leases[k]
        <5>1. k # j
          BY <1>1, <4>1, <4>3, ZenonT(60)
        <5> QED BY <1>1, <4>1, <4>2, <4>3, <5>1, ZenonT(60)
      <4> QED BY <4>2, <4>3, ZenonT(60) DEF RunsKept
    <3>4. CASE StaleOutcome
      <4>1. UNCHANGED <<store, leases>> /\ leases[Head(cmds).work.job].epoch # Head(cmds).work.lease
        BY <3>4, Zenon DEF StaleOutcome, IsCurrent, jobVars
      <4>2. ASSUME NEW j, Head(cmds).work = [job |-> j, lease |-> leases'[j].epoch]
            PROVE  FALSE
        BY <4>1, <4>2, SMTT(30)
      <4> QED BY <4>1, <4>2, Zenon DEF RunsKept
    <3>5. CASE CurrentOutcome
      <4> DEFINE work == Head(cmds).work
      <4>1. /\ \E ok \in PersistOutcome :
                  Settle(work.job, OutcomeRecord(work.job, Head(cmds).outcome), ok)
            /\ leases[work.job].epoch = work.lease
        BY <3>5, Zenon DEF CurrentOutcome, IsCurrent
      <4>2. PICK j \in Jobs, ok \in BOOLEAN,
                 type \in {"JobRetryScheduled", "JobCompleted", "JobDead"} :
                    leases[j] # NoLease /\ Settle(j, type, ok) /\ ok
        BY <3>5, LeaseSettled, Zenon
      <4>3. RunsKept /\ store'[j].state # "Running"
        BY <4>2, SettledRuns, ZenonT(60)
      <4>4. leases' = [leases EXCEPT ![j] = NoLease]
        BY <4>2, Zenon DEF Settle, DropLease
      <4>5. leases' = [leases EXCEPT ![work.job] = NoLease]
        BY <4>1, Zenon DEF Settle, DropLease
      <4> HIDE DEF work
      <4>6. work.job = j
        BY <1>1, <4>2, <4>4, <4>5, ZenonT(60) DEF NoLease
      <4>7. ASSUME NEW k \in Jobs, store'[k].state = "Running",
                   work = [job |-> k, lease |-> leases'[k].epoch]
            PROVE  FALSE
        BY <4>3, <4>6, <4>7, ZenonT(60)
      <4> QED BY <4>3, <4>7, Zenon DEF work
    <3> QED BY <1>5, <3>1, <3>2, <3>3, <3>4, <3>5, ZenonT(60)
  <2>5. HandsKept
    BY <1>1, <1>3, <1>4, <2>2, <2>4, TailHands, ZenonT(60)
  <2> QED BY <2>3, <2>5, Zenon
<1>6. CASE StartShutdown
  <2>1. /\ shuttingDown' /\ UNCHANGED <<store, leases>> /\ Head(cmds).kind # "WorkerOutcome"
        /\ worker' = [w \in Workers |->
                         IF w \in Range(parked) /\ worker[w].at = "waiting"
                         THEN [worker[w] EXCEPT !.at = "refused"]
                         ELSE worker[w]]
    BY <1>6, Zenon DEF StartShutdown, Receive, jobVars
  <2>2. WorksKept
    <3> SUFFICES ASSUME NEW w \in Workers
                 PROVE  /\ worker'[w].work = worker[w].work
                        /\ worker[w].at \in Holding => worker'[w].at \in Holding
      BY Zenon DEF WorksKept
    <3>1. worker'[w] = worker[w] \/ (worker[w].at = "waiting"
                                     /\ worker'[w] = [worker[w] EXCEPT !.at = "refused"])
      BY <2>1, Zenon
    <3>2. worker[w] \in WorkerState
      BY <1>1, Zenon
    <3> QED BY <3>1, <3>2, Zenon DEF WorkerState, Holding
  <2>3. RunsKept
    BY <2>1, Zenon DEF RunsKept
  <2>4. HandsKept
    BY <1>1, <1>3, <1>4, <2>1, <2>2, <2>3, TailHands, ZenonT(60)
  <2>5. RequestsKept
    BY <2>1, Zenon DEF RequestsKept
  <2> QED BY <2>4, <2>5, Zenon
<1> QED BY <1>5, <1>6, ZenonT(60)

\* A command that is sent goes to the one new place.
LEMMA AppendLast ==
    ASSUME TypeOK, NEW c \in Command, cmds' = Append(cmds, c)
    PROVE  \E n : /\ \A i \in DOMAIN cmds' : i \in DOMAIN cmds \/ i = n
                  /\ n \notin DOMAIN cmds /\ n \in DOMAIN cmds' /\ cmds'[n] = c
<1>1. cmds \in Seq(Command)
  BY Zenon DEF TypeOK
<1>2. Len(cmds) \in Nat /\ DOMAIN cmds = 1 .. Len(cmds)
  BY <1>1, SeqLen, Zenon
<1>3. /\ cmds' \in Seq(Command) /\ Len(cmds') = Len(cmds) + 1
      /\ cmds'[Len(cmds) + 1] = c
  BY <1>1, SeqAppend, ZenonT(60)
<1>4. DOMAIN cmds' = 1 .. Len(cmds) + 1
  BY <1>3, SeqLen, Zenon
<1>5. ASSUME NEW n \in Nat
      PROVE  /\ \A i \in 1 .. n + 1 : i \in 1 .. n \/ i = n + 1
             /\ n + 1 \notin 1 .. n /\ n + 1 \in 1 .. n + 1
  OBVIOUS
<1> QED BY <1>2, <1>3, <1>4, <1>5, ZenonT(60)

\* What the clients send.
LEMMA SendHands ==
    ASSUME SafetyInv, SendShutdown \/ \E j \in Jobs : SendSubmit(j) \/ SendCancel(j)
    PROVE  HandsKept /\ RequestsKept
<1>1. /\ UNCHANGED <<worker, parked, shuttingDown, nextLeaseEpoch, store, leases>>
      /\ pc # "done"
  <2>1. CASE SendShutdown
    BY <2>1, Zenon DEF SendShutdown, CanSend, ChannelOpen, ownVars, jobVars, stopVars
  <2>2. ASSUME NEW j \in Jobs, SendSubmit(j) \/ SendCancel(j)
        PROVE  /\ UNCHANGED <<worker, parked, shuttingDown, nextLeaseEpoch, store, leases>>
               /\ pc # "done"
    BY <2>2, Zenon DEF SendSubmit, SendCancel, CanSend, ChannelOpen, ownVars, jobVars, stopVars
  <2> QED BY <2>1, <2>2, Zenon
<1>2. PICK c \in Command : /\ cmds' = Append(cmds, c)
                           /\ c.kind # "WorkerOutcome" /\ c.kind # "FetchWork"
  <2>1. CASE SendShutdown
    <3>1. cmds' = Append(cmds, [kind |-> "Shutdown"])
      BY <2>1, Zenon DEF SendShutdown
    <3>2. [kind |-> "Shutdown"] \in Command
      BY Zenon DEF Command
    <3> QED BY <3>1, <3>2, Zenon
  <2>2. ASSUME NEW j \in Jobs, NEW kind \in {"Submit", "Cancel"},
               cmds' = Append(cmds, [kind |-> kind, job |-> j])
        PROVE  \E c \in Command : /\ cmds' = Append(cmds, c)
                                  /\ c.kind # "WorkerOutcome" /\ c.kind # "FetchWork"
    <3> DEFINE c == [kind |-> kind, job |-> j]
    <3>1. c \in Command /\ c.kind # "WorkerOutcome" /\ c.kind # "FetchWork"
      BY Zenon DEF Command
    <3> HIDE DEF c
    <3>2. cmds' = Append(cmds, c)
      BY <2>2, Zenon DEF c
    <3> QED BY <3>1, <3>2, Zenon
  <2>3. ASSUME NEW j \in Jobs, SendSubmit(j) \/ SendCancel(j)
        PROVE  \E kind \in {"Submit", "Cancel"} : cmds' = Append(cmds, [kind |-> kind, job |-> j])
    BY <2>3, Zenon DEF SendSubmit, SendCancel
  <2> QED BY <2>1, <2>2, <2>3, ZenonT(60)
<1>3. TypeOK
  BY Zenon DEF SafetyInv
<1>4. WorksKept /\ WaitersKept /\ RunsKept
  BY <1>1, Zenon DEF WorksKept, WaitersKept, RunsKept
<1>5. HandsKept
  BY <1>1, <1>2, <1>3, <1>4, AppendHands, ZenonT(60)
<1>6. RequestsKept
  BY <1>1, <1>2, <1>3, <1>4, AppendRequests, ZenonT(60)
<1> QED BY <1>5, <1>6, Zenon

\* A worker that neither asks nor reports.
LEMMA WorkerHands ==
    ASSUME SafetyInv, NEW w \in Workers,
           \/ WorkerCheckToken(w) \/ WorkerStop(w) \/ WorkerStart(w) \/ HandlerAborted(w)
           \/ \E o \in HandlerOutcomes : HandlerEnds(w, o)
    PROVE  HandsKept /\ RequestsKept
<1>1. UNCHANGED <<cmds, parked, shuttingDown, nextLeaseEpoch, store, leases, pc>>
  BY Zenon DEF WorkerCheckToken, WorkerStop, WorkerStart, HandlerAborted, HandlerEnds,
               workerFrame, ownVars, jobVars, loopVars, stopVars
<1>2. PICK s : /\ worker' = [worker EXCEPT ![w] = s]
               /\ s.work = worker[w].work
               /\ worker[w].at \in Holding => s.at \in Holding
               /\ worker[w].at = "waiting" => shuttingDown \/ pc = "done"
  <2>1. worker[w] \in WorkerState /\ worker \in [Workers -> WorkerState]
    BY Zenon DEF SafetyInv, TypeOK
  <2>2. CASE WorkerCheckToken(w) \/ WorkerStop(w) \/ WorkerStart(w)
    <3>1. PICK at : /\ worker' = [worker EXCEPT ![w].at = at]
                    /\ worker[w].at \in Holding => at \in Holding
                    /\ worker[w].at = "waiting" => shuttingDown \/ pc = "done"
      BY <2>2, Zenon DEF WorkerCheckToken, WorkerStop, WorkerStart, ChannelOpen, Holding
    <3>2. worker' = [worker EXCEPT ![w] = [worker[w] EXCEPT !.at = at]]
      BY <3>1, Zenon
    <3>3. /\ [worker[w] EXCEPT !.at = at].work = worker[w].work
          /\ [worker[w] EXCEPT !.at = at].at = at
      BY <2>1, Zenon DEF WorkerState
    <3> QED BY <3>1, <3>2, <3>3, ZenonT(60)
  <2>3. CASE HandlerAborted(w) \/ \E o \in HandlerOutcomes : HandlerEnds(w, o)
    <3>1. PICK o : /\ worker' = [worker EXCEPT ![w].at = "reporting", ![w].outcome = o]
                   /\ worker[w].at = "executing"
      BY <2>3, Zenon DEF HandlerAborted, HandlerEnds
    <3> DEFINE s == [worker[w] EXCEPT !.at = "reporting", !.outcome = o]
    <3>2. worker' = [worker EXCEPT ![w] = s]
      BY <2>1, <3>1, Zenon
    <3>3. s.work = worker[w].work /\ s.at \in Holding
      BY <2>1, Zenon DEF WorkerState, Holding
    <3>4. worker[w].at # "waiting"
      BY <3>1, ZenonT(60)
    <3> HIDE DEF s
    <3> QED BY <3>2, <3>3, <3>4, ZenonT(60)
  <2> QED BY <2>2, <2>3, ZenonT(60)
<1>3. /\ worker'[w] = s
      /\ \A v \in Workers \ {w} : worker'[v] = worker[v]
  BY <1>2, ZenonT(60) DEF SafetyInv, TypeOK
<1>4. WorksKept
  BY <1>2, <1>3, Zenon DEF WorksKept
<1>5. pc # "done" /\ ~shuttingDown => WaitersKept
  BY <1>2, <1>3, Zenon DEF WaitersKept
<1>6. RunsKept
  BY <1>1, Zenon DEF RunsKept
<1>7. HandsKept
  <2>1. /\ cmds' = cmds /\ nextLeaseEpoch' = nextLeaseEpoch
        /\ pc' # "done" => pc # "done" /\ RunsKept
    BY <1>1, <1>6, Zenon
  <2> QED BY <1>4, <2>1, SameHands, ZenonT(60)
<1>8. RequestsKept
  BY <1>1, <1>5, SameRequests, ZenonT(60)
<1> QED BY <1>7, <1>8, ZenonT(60)

\* The end of the run loop.
LEMMA EndHands ==
    ASSUME CompleteShutdown \/ ForceShutdown
    PROVE  HandsKept /\ RequestsKept
<1>1. pc' = "done" /\ cmds' = <<>> /\ UNCHANGED <<worker, nextLeaseEpoch>>
  BY Zenon DEF CompleteShutdown, ForceShutdown, Terminate
<1>2. WorksKept
  BY <1>1, Zenon DEF WorksKept
<1>3. HandsKept
  BY <1>1, <1>2, SameHands, ZenonT(60)
<1>4. RequestsKept
  BY <1>1, Zenon DEF RequestsKept
<1> QED BY <1>3, <1>4, Zenon

-----------------------------------------------------------------------------
\* Asking for work, and parking.

\* A worker asks for work: it was not waiting, so no other request is its own.
LEMMA FetchHands ==
    ASSUME SafetyInv, OneRequest, NEW w \in Workers, WorkerFetch(w)
    PROVE  HandsKept /\ OneRequest'
<1> DEFINE c == [kind |-> "FetchWork", worker |-> w]
<1>1. /\ worker[w].at = "sending" /\ pc # "done" /\ cmds' = Append(cmds, c)
      /\ worker' = [worker EXCEPT ![w].at = "waiting"]
      /\ UNCHANGED <<parked, shuttingDown, nextLeaseEpoch, store, leases, pc>>
  BY Zenon DEF WorkerFetch, CanSend, ChannelOpen, workerFrame, ownVars, jobVars, loopVars, stopVars
<1>2. c \in Command /\ c.kind = "FetchWork" /\ c.worker = w
  BY Zenon DEF Command
<1> HIDE DEF c
<1>3. /\ TypeOK /\ worker \in [Workers -> WorkerState] /\ cmds \in Seq(Command)
      /\ parked \in Seq(Workers)
  BY Zenon DEF SafetyInv, TypeOK
<1>4. /\ \A v \in Workers \ {w} : worker'[v] = worker[v]
      /\ worker'[w].at = "waiting" /\ worker'[w].work = worker[w].work
  BY <1>1, <1>3, Zenon DEF WorkerState
<1>5. WorksKept /\ WaitersKept
  BY <1>1, <1>4, Zenon DEF WorksKept, WaitersKept, Holding
<1>6. HandsKept
  <2>1. c.kind # "WorkerOutcome" /\ RunsKept
    BY <1>1, <1>2, Zenon DEF RunsKept
  <2> QED BY <1>1, <1>2, <1>3, <1>5, <2>1, AppendHands, ZenonT(60)
<1>7. OneRequest'
  <2> SUFFICES ASSUME ~shuttingDown
               PROVE  /\ IsInjective(parked)
                      /\ \A i \in DOMAIN parked : worker'[parked[i]].at = "waiting"
                      /\ \A i \in DOMAIN cmds' : cmds'[i].kind = "FetchWork" =>
                            /\ worker'[cmds'[i].worker].at = "waiting"
                            /\ \A k \in DOMAIN cmds' :
                                  IsFetch(cmds'[k], cmds'[i].worker) => k = i
                            /\ \A k \in DOMAIN parked : parked[k] # cmds'[i].worker
    BY <1>1, Zenon DEF OneRequest
  <2>1. /\ IsInjective(parked)
        /\ \A i \in DOMAIN parked : worker[parked[i]].at = "waiting"
        /\ \A i \in DOMAIN cmds : cmds[i].kind = "FetchWork" =>
              /\ worker[cmds[i].worker].at = "waiting"
              /\ \A k \in DOMAIN cmds : IsFetch(cmds[k], cmds[i].worker) => k = i
              /\ \A k \in DOMAIN parked : parked[k] # cmds[i].worker
    BY <1>1, Zenon DEF OneRequest
  <2>2. /\ \A i \in DOMAIN parked : parked[i] \in Workers
        /\ \A i \in DOMAIN cmds : cmds[i] \in Command
    BY <1>3, SeqLen, SMTT(30)
  <2>3. worker[w].at # "waiting"
    BY <1>1, Zenon
  <2>4. \A i \in DOMAIN parked : parked[i] # w
    BY <2>1, <2>3, Zenon
  <2>5. \A i \in DOMAIN cmds : cmds[i].kind = "FetchWork" =>
            cmds[i].worker # w /\ cmds[i].worker \in Workers
    BY <2>1, <2>2, <2>3, CommandFields, ZenonT(60)
  <2>6. PICK n : /\ \A i \in DOMAIN cmds' : i \in DOMAIN cmds \/ i = n
                 /\ n \notin DOMAIN cmds /\ cmds'[n] = c
    BY <1>1, <1>2, <1>3, AppendLast, ZenonT(60)
  <2>7. \A i \in DOMAIN cmds : cmds'[i] = cmds[i]
    BY <1>1, <1>2, <1>3, AppendStays, ZenonT(60)
  <2>8. ASSUME NEW i \in DOMAIN cmds', cmds'[i].kind = "FetchWork"
        PROVE  /\ worker'[cmds'[i].worker].at = "waiting"
               /\ \A k \in DOMAIN cmds' : IsFetch(cmds'[k], cmds'[i].worker) => k = i
               /\ \A k \in DOMAIN parked : parked[k] # cmds'[i].worker
    <3>1. CASE i = n
      <4>1. cmds'[i].worker = w
        BY <1>2, <2>6, <3>1, Zenon
      <4>2. \A k \in DOMAIN cmds' : IsFetch(cmds'[k], w) => k = n
        BY <2>5, <2>6, <2>7, ZenonT(60) DEF IsFetch
      <4> QED BY <1>4, <2>4, <3>1, <4>1, <4>2, ZenonT(60)
    <3>2. CASE i \in DOMAIN cmds
      <4>1. /\ cmds'[i] = cmds[i] /\ cmds[i].kind = "FetchWork"
            /\ cmds[i].worker # w /\ cmds[i].worker \in Workers
        BY <2>5, <2>7, <2>8, <3>2, Zenon
      <4>2. \A k \in DOMAIN cmds' : IsFetch(cmds'[k], cmds[i].worker) => k = i
        BY <1>2, <2>1, <2>6, <2>7, <3>2, <4>1, ZenonT(60) DEF IsFetch
      <4> QED BY <1>4, <2>1, <3>2, <4>1, <4>2, ZenonT(60)
    <3> QED BY <2>6, <3>1, <3>2, ZenonT(60)
  <2>9. \A i \in DOMAIN parked : worker'[parked[i]].at = "waiting"
    BY <1>4, <2>1, <2>2, <2>4, ZenonT(60)
  <2> QED BY <2>1, <2>8, <2>9, ZenonT(60)
<1> QED BY <1>6, <1>7, Zenon

\* Reporting: the worker's lease moves into the channel.
LEMMA ReportHands ==
    ASSUME SafetyInv, WorkInHand, OneReport, RunningIsHeld, NEW w \in Workers, WorkerReport(w)
    PROVE  WorkInHand' /\ OneReport' /\ RunningIsHeld' /\ RequestsKept
<1> DEFINE work == worker[w].work
           c == [kind |-> "WorkerOutcome", work |-> work, outcome |-> worker[w].outcome]
<1>1. /\ worker[w].at = "reporting"
      /\ worker' = [worker EXCEPT ![w] = IdleWorker]
      /\ UNCHANGED <<parked, shuttingDown, nextLeaseEpoch, store, leases, pc>>
      /\ pc # "done" => cmds' = Append(cmds, c)
      /\ pc = "done" => cmds' = cmds
  BY Zenon DEF WorkerReport, CanSend, ChannelOpen, workerFrame, ownVars, jobVars, loopVars, stopVars
<1>2. /\ TypeOK /\ worker \in [Workers -> WorkerState] /\ worker[w] \in WorkerState
  BY Zenon DEF SafetyInv, TypeOK
<1>3. work \in LeasedJob /\ worker[w].outcome \in WorkerOutcome
  BY <1>1, <1>2, ZenonT(60) DEF WorkerState
<1>4. c \in Command /\ c.kind = "WorkerOutcome" /\ c.work = work
  BY <1>3, Zenon DEF Command
<1>5. work # None
  BY <1>3, RuntimeAssumption, Zenon
<1> HIDE DEF c
<1>6. /\ \A v \in Workers \ {w} : worker'[v] = worker[v]
      /\ worker'[w].at = "top" /\ worker'[w].work = None
  BY <1>1, <1>2, Zenon DEF IdleWorker
<1>7. /\ work.lease < nextLeaseEpoch
      /\ \A v \in Workers : worker[v].work = work => v = w
      /\ \A i \in DOMAIN cmds : ~IsReport(cmds[i], work)
  BY <1>5, Zenon DEF OneReport
<1> HIDE DEF work
<1>8. WorkInHand'
  BY <1>6, Zenon DEF WorkInHand
<1>9. WaitersKept
  BY <1>1, <1>6, Zenon DEF WaitersKept
<1>10. CASE pc = "done"
  <2>1. OneReport'
    <3>1. cmds' = cmds /\ nextLeaseEpoch' = nextLeaseEpoch
      BY <1>1, <1>10, Zenon
    <3>2. ASSUME NEW v \in Workers, worker'[v].work # None
          PROVE  worker'[v].work = worker[v].work
      BY <1>6, <3>2, Zenon
    <3> QED BY <3>1, <3>2, Zenon DEF OneReport
  <2>2. RunningIsHeld'
    BY <1>1, <1>10, Zenon DEF RunningIsHeld
  <2>3. RequestsKept
    BY <1>1, <1>10, SameRequests, ZenonT(60)
  <2> QED BY <1>8, <2>1, <2>2, <2>3, ZenonT(60)
<1>11. CASE pc # "done"
  <2>1. cmds' = Append(cmds, c)
    BY <1>1, <1>11, Zenon
  <2>2. PICK n : /\ \A i \in DOMAIN cmds' : i \in DOMAIN cmds \/ i = n
                 /\ n \notin DOMAIN cmds /\ n \in DOMAIN cmds' /\ cmds'[n] = c
    BY <1>2, <1>4, <2>1, AppendLast, ZenonT(60)
  <2>3. \A i \in DOMAIN cmds : i \in DOMAIN cmds' /\ cmds'[i] = cmds[i]
    BY <1>2, <1>4, <2>1, AppendStays, ZenonT(60)
  <2>4. OneReport'
    <3>1. ASSUME NEW v \in Workers, worker'[v].work # None
          PROVE  /\ worker'[v].work.lease < nextLeaseEpoch'
                 /\ \A u \in Workers : worker'[u].work = worker'[v].work => u = v
                 /\ \A i \in DOMAIN cmds' : ~IsReport(cmds'[i], worker'[v].work)
      <4>1. v # w /\ worker'[v].work = worker[v].work
        BY <1>6, <3>1, Zenon
      <4>2. /\ worker[v].work.lease < nextLeaseEpoch
            /\ \A u \in Workers : worker[u].work = worker[v].work => u = v
            /\ \A i \in DOMAIN cmds : ~IsReport(cmds[i], worker[v].work)
        BY <3>1, <4>1, Zenon DEF OneReport
      <4>3. worker[v].work # work
        BY <1>7, <4>1, Zenon
      <4>4. \A i \in DOMAIN cmds' : ~IsReport(cmds'[i], worker[v].work)
        BY <1>4, <2>2, <2>3, <4>2, <4>3, ZenonT(60) DEF IsReport
      <4>5. \A u \in Workers : worker'[u].work = worker[v].work => u = v
        BY <1>6, <3>1, <4>1, <4>2, ZenonT(60)
      <4> QED BY <1>1, <4>1, <4>2, <4>4, <4>5, ZenonT(60)
    <3>2. ASSUME NEW i \in DOMAIN cmds', cmds'[i].kind = "WorkerOutcome"
          PROVE  /\ cmds'[i].work.lease < nextLeaseEpoch'
                 /\ \A k \in DOMAIN cmds' : IsReport(cmds'[k], cmds'[i].work) => k = i
      <4>1. CASE i = n
        <5>1. cmds'[i].work = work
          BY <1>4, <2>2, <4>1, ZenonT(60)
        <5>2. \A k \in DOMAIN cmds' : IsReport(cmds'[k], work) => k = i
          BY <1>7, <2>2, <2>3, <4>1, ZenonT(60)
        <5> QED BY <1>1, <1>7, <5>1, <5>2, ZenonT(60)
      <4>2. CASE i \in DOMAIN cmds
        <5>1. cmds'[i] = cmds[i] /\ cmds[i].kind = "WorkerOutcome"
          BY <2>3, <3>2, <4>2, ZenonT(60)
        <5>2. /\ cmds[i].work.lease < nextLeaseEpoch
              /\ \A k \in DOMAIN cmds : IsReport(cmds[k], cmds[i].work) => k = i
          BY <4>2, <5>1, Zenon DEF OneReport
        <5>3. cmds[i].work # work
          BY <1>7, <4>2, <5>1, ZenonT(60) DEF IsReport
        <5>4. \A k \in DOMAIN cmds' : IsReport(cmds'[k], cmds[i].work) => k = i
          BY <1>4, <2>2, <2>3, <5>2, <5>3, ZenonT(60) DEF IsReport
        <5> QED BY <1>1, <5>1, <5>2, <5>4, ZenonT(60)
      <4> QED BY <2>2, <4>1, <4>2, ZenonT(60)
    <3> QED BY <3>1, <3>2, ZenonT(60) DEF OneReport
  <2>5. RunningIsHeld'
    <3> SUFFICES ASSUME NEW j \in Jobs, store[j].state = "Running"
                 PROVE  /\ leases[j] # NoLease
                        /\ LET x == [job |-> j, lease |-> leases[j].epoch]
                           IN \/ \E v \in Workers : worker'[v].work = x
                              \/ \E i \in DOMAIN cmds' : IsReport(cmds'[i], x)
      BY <1>1, Zenon DEF RunningIsHeld
    <3> DEFINE x == [job |-> j, lease |-> leases[j].epoch]
    <3>1. /\ leases[j] # NoLease
          /\ \/ \E v \in Workers : worker[v].work = x
             \/ \E i \in DOMAIN cmds : IsReport(cmds[i], x)
      BY <1>11, Zenon DEF RunningIsHeld
    <3> HIDE DEF x
    <3>2. \/ \E v \in Workers : worker'[v].work = x
          \/ \E i \in DOMAIN cmds' : IsReport(cmds'[i], x)
      <4>1. IsReport(cmds'[n], work)
        BY <1>4, <2>2, Zenon DEF IsReport
      <4>2. ASSUME NEW v \in Workers, worker[v].work = x
            PROVE  \/ worker'[v].work = x
                   \/ \E i \in DOMAIN cmds' : IsReport(cmds'[i], x)
        <5>1. CASE v = w
          <6>1. x = work
            BY <4>2, <5>1, Zenon DEF work
          <6> QED BY <2>2, <4>1, <6>1, ZenonT(60)
        <5>2. CASE v # w
          BY <1>6, <4>2, <5>2, ZenonT(60)
        <5> QED BY <5>1, <5>2, Zenon
      <4> QED BY <2>3, <3>1, <4>2, ZenonT(60)
    <3> QED BY <3>1, <3>2, Zenon DEF x
  <2>6. RequestsKept
    <3>1. c.kind # "FetchWork"
      BY <1>4, Zenon
    <3> QED BY <1>1, <1>2, <1>4, <1>9, <1>11, <2>1, <3>1, AppendRequests, ZenonT(60)
  <2> QED BY <1>8, <2>4, <2>5, <2>6, Zenon
<1> QED BY <1>10, <1>11, ZenonT(60)

-----------------------------------------------------------------------------
\* Answering a request.

\* The received command was in the first place, the others in the places after.
LEMMA TailPlaces ==
    ASSUME TypeOK, cmds # <<>>, cmds' = Tail(cmds)
    PROVE  /\ 1 \in DOMAIN cmds /\ cmds[1] = Head(cmds)
           /\ \A i \in DOMAIN cmds' : /\ i + 1 \in DOMAIN cmds /\ i + 1 # 1
                                      /\ cmds'[i] = cmds[i + 1]
<1>1. cmds \in Seq(Command)
  BY Zenon DEF TypeOK
<1>2. Len(cmds) \in Nat \ {0} /\ DOMAIN cmds = 1 .. Len(cmds)
  BY <1>1, SeqLen, Zenon
<1>3. /\ DOMAIN cmds' = 1 .. Len(cmds')
      /\ Len(cmds') = Len(cmds) - 1
      /\ Head(cmds) = cmds[1]
      /\ \A i \in 1 .. Len(cmds') : cmds'[i] = cmds[i + 1]
  BY <1>1, SeqHeadTail, SeqLen, ZenonT(60)
<1>4. ASSUME NEW n \in Nat \ {0}
      PROVE  /\ 1 \in 1 .. n
             /\ \A i \in 1 .. n - 1 : i + 1 \in 1 .. n /\ i + 1 # 1
  BY SMTT(30)
<1> QED BY <1>2, <1>3, <1>4, ZenonT(60)

\* The requests that are left still have one place each.
LEMMA RequestsLeft ==
    ASSUME OneRequest, pc # "done", ~shuttingDown,
           \E f : Carried(f, {"FetchWork"}), IsInjective(parked'),
           \A i \in DOMAIN parked' : worker'[parked'[i]].at = "waiting",
           \A i \in DOMAIN cmds' : cmds'[i].kind = "FetchWork" =>
              /\ worker'[cmds'[i].worker].at = "waiting"
              /\ \A k \in DOMAIN parked' : parked'[k] # cmds'[i].worker
    PROVE  OneRequest'
<1>1. PICK f : Carried(f, {"FetchWork"})
  BY Zenon
<1>2. /\ \A i \in DOMAIN cmds' : cmds'[i].kind = "FetchWork" =>
            f[i] \in DOMAIN cmds /\ cmds[f[i]] = cmds'[i]
      /\ \A i, k \in DOMAIN cmds' : f[i] = f[k] => i = k
  BY <1>1, Zenon DEF Carried
<1>3. ASSUME NEW i \in DOMAIN cmds', cmds'[i].kind = "FetchWork",
             NEW k \in DOMAIN cmds', IsFetch(cmds'[k], cmds'[i].worker)
      PROVE  k = i
  <2>1. /\ f[i] \in DOMAIN cmds /\ cmds[f[i]] = cmds'[i]
        /\ f[k] \in DOMAIN cmds /\ cmds[f[k]] = cmds'[k]
    BY <1>2, <1>3, ZenonT(60) DEF IsFetch
  <2>2. f[k] = f[i]
    BY <1>3, <2>1, ZenonT(60) DEF OneRequest
  <2> QED BY <1>2, <2>2, ZenonT(60)
<1> QED BY <1>3, Zenon DEF OneRequest

\* A fetcher that is parked, or told to stop.
LEMMA ParkHands ==
    ASSUME SafetyInv, OneRequest, ParkFetcher
    PROVE  HandsKept /\ OneRequest'
<1> DEFINE w == Head(cmds).worker
<1>1. /\ Receive("FetchWork") /\ cmds # <<>> /\ cmds' = Tail(cmds) /\ pc = "select"
      /\ pc' = "loop" /\ UNCHANGED <<nextLeaseEpoch, store, leases, shuttingDown>>
  BY Zenon DEF ParkFetcher, Receive, jobVars, stopVars
<1>2. TypeOK /\ worker \in [Workers -> WorkerState] /\ parked \in Seq(Workers)
  BY Zenon DEF SafetyInv, TypeOK
<1>3. w \in Workers /\ Head(cmds).kind = "FetchWork"
  BY <1>1, <1>2, ReceiveType, CommandFields, ZenonT(60)
<1>4. /\ shuttingDown => /\ worker' = [worker EXCEPT
                               ![w].at = IF @ = "waiting" THEN "refused" ELSE @]
      /\ ~shuttingDown => worker' = worker /\ parked' = Append(parked, w)
  BY Zenon DEF ParkFetcher
<1> HIDE DEF w
<1>5. WorksKept
  <2>1. CASE shuttingDown
    BY <1>2, <1>3, <1>4, <2>1, SMTT(30) DEF WorksKept, Holding, WorkerState
  <2>2. CASE ~shuttingDown
    BY <1>4, <2>2, Zenon DEF WorksKept
  <2> QED BY <2>1, <2>2, ZenonT(60)
<1>6. HandsKept
  <2>1. pc # "done" /\ RunsKept /\ Head(cmds).kind # "WorkerOutcome"
    BY <1>1, <1>3, Zenon DEF RunsKept
  <2> QED BY <1>1, <1>2, <1>5, <2>1, TailHands, ZenonT(60)
<1>7. CASE shuttingDown
  BY <1>1, <1>6, <1>7, ZenonT(60) DEF OneRequest
<1>8. CASE ~shuttingDown
  <2>1. pc # "done" /\ worker' = worker /\ parked' = Append(parked, w)
    BY <1>1, <1>4, <1>8, ZenonT(60)
  <2>2. /\ 1 \in DOMAIN cmds /\ cmds[1] = Head(cmds)
        /\ \A i \in DOMAIN cmds' : /\ i + 1 \in DOMAIN cmds /\ i + 1 # 1
                                   /\ cmds'[i] = cmds[i + 1]
    BY <1>1, <1>2, TailPlaces, ZenonT(60)
  <2>3. /\ IsInjective(parked)
        /\ \A i \in DOMAIN parked : worker[parked[i]].at = "waiting"
        /\ \A i \in DOMAIN cmds : cmds[i].kind = "FetchWork" =>
              /\ worker[cmds[i].worker].at = "waiting"
              /\ \A k \in DOMAIN cmds : IsFetch(cmds[k], cmds[i].worker) => k = i
              /\ \A k \in DOMAIN parked : parked[k] # cmds[i].worker
    BY <1>8, <2>1, ZenonT(60) DEF OneRequest
  <2>4. /\ worker[w].at = "waiting"
        /\ \A k \in DOMAIN cmds : IsFetch(cmds[k], w) => k = 1
        /\ \A k \in DOMAIN parked : parked[k] # w
    BY <1>3, <2>2, <2>3, ZenonT(60) DEF w
  <2>5. w \notin Range(parked)
    BY <2>4, Zenon DEF Range
  <2>6. IsInjective(parked') /\ Range(parked') = Range(parked) \cup {w}
    <3>1. IsInjective(Append(parked, w)) /\ Range(Append(parked, w)) = Range(parked) \cup {w}
      BY <1>2, <1>3, <2>3, <2>5, AppendSeq, SMTT(30)
    <3> QED BY <2>1, <3>1, ZenonT(60)
  <2>7. \A i \in DOMAIN parked' : parked'[i] = w \/ \E k \in DOMAIN parked : parked'[i] = parked[k]
    BY <2>6, Zenon DEF Range
  <2>8. \A i \in DOMAIN parked' : worker'[parked'[i]].at = "waiting"
    BY <2>1, <2>3, <2>4, <2>7, ZenonT(60)
  <2>9. ASSUME NEW i \in DOMAIN cmds', cmds'[i].kind = "FetchWork"
        PROVE  /\ worker'[cmds'[i].worker].at = "waiting"
               /\ \A k \in DOMAIN parked' : parked'[k] # cmds'[i].worker
    <3>1. cmds'[i].worker # w
      BY <2>2, <2>4, <2>9, ZenonT(60) DEF IsFetch
    <3>2. /\ worker[cmds'[i].worker].at = "waiting"
          /\ \A k \in DOMAIN parked : parked[k] # cmds'[i].worker
      <4>1. i + 1 \in DOMAIN cmds /\ cmds'[i] = cmds[i + 1] /\ cmds[i + 1].kind = "FetchWork"
        BY <2>2, <2>9, ZenonT(60)
      <4> QED BY <2>3, <4>1, ZenonT(60)
    <3> QED BY <2>1, <2>7, <3>1, <3>2, ZenonT(60)
  <2>10. \E f : Carried(f, {"FetchWork"})
    BY <1>1, <1>2, TailCarried, ZenonT(60)
  <2>11. OneRequest'
    BY <1>8, <2>1, <2>6, <2>8, <2>9, <2>10, RequestsLeft, ZenonT(60)
  <2> QED BY <1>6, <2>11, Zenon
<1> QED BY <1>7, <1>8, Zenon

\* A granted lease: a new epoch, in the hands of the worker that was waiting.
LEMMA GrantHands ==
    ASSUME SafetyInv, WorkInHand, OneReport, RunningIsHeld, pc # "done",
           NEW q \in Queues, NEW w \in Workers, GrantLease(q, w), worker[w].at = "waiting",
           \E f : Carried(f, {"WorkerOutcome"}),
           \A i \in DOMAIN cmds : cmds[i].kind = "WorkerOutcome" =>
              \E k \in DOMAIN cmds' : cmds'[k] = cmds[i]
    PROVE  WorkInHand' /\ OneReport' /\ RunningIsHeld'
<1> DEFINE j == Head(ready[q])
           work == [job |-> j, lease |-> nextLeaseEpoch]
<1>1. /\ leases' = [leases EXCEPT ![j] = [epoch |-> nextLeaseEpoch, expired |-> FALSE]]
      /\ worker' = [worker EXCEPT ![w].at = "offered", ![w].work = work]
      /\ nextLeaseEpoch' = nextLeaseEpoch + 1
  BY Zenon DEF GrantLease, EpochAfter
<1>2. /\ worker \in [Workers -> WorkerState] /\ nextLeaseEpoch \in Nat \ {0}
      /\ leases \in [Jobs -> [epoch : Nat, expired : BOOLEAN]]
      /\ store \in [Jobs -> JobRecord] /\ cmds \in Seq(Command)
  BY Zenon DEF SafetyInv, TypeOK
<1>3. /\ j \in Jobs
      /\ store' = [store EXCEPT ![j] = [state    |-> "Running",
                                        attempts |-> store[j].attempts + 1]]
  BY GrantEffect, Zenon
<1>4. PICK f : Carried(f, {"WorkerOutcome"})
  BY Zenon
<1>5. /\ \A i \in DOMAIN cmds' : cmds'[i].kind = "WorkerOutcome" =>
            f[i] \in DOMAIN cmds /\ cmds[f[i]] = cmds'[i]
      /\ \A i, k \in DOMAIN cmds' : f[i] = f[k] => i = k
  BY <1>4, Zenon DEF Carried
<1>6. work.lease = nextLeaseEpoch /\ work.job = j /\ work # None
  <2>1. work \in LeasedJob
    BY <1>2, <1>3, Zenon DEF LeasedJob
  <2> QED BY <2>1, RuntimeAssumption, Zenon
<1> HIDE DEF j
<1>7. /\ \A v \in Workers \ {w} : worker'[v] = worker[v]
      /\ worker'[w].at = "offered" /\ worker'[w].work = work
      /\ worker[w].work = None
  <2> HIDE DEF work
  <2>1. worker[w].work = None
    BY Zenon DEF WorkInHand
  <2>2. \A v \in Workers : worker[v] \in WorkerState
    BY <1>2, Zenon
  <2> QED BY <1>1, <1>2, <2>1, <2>2, ZenonT(60) DEF WorkerState
<1>8. WorkInHand'
  <2> HIDE DEF work
  <2> QED BY <1>7, Zenon DEF WorkInHand
<1>9. /\ \A v \in Workers : worker[v].work # None => worker[v].work.lease \in Nat
      /\ \A i \in DOMAIN cmds : cmds[i].kind = "WorkerOutcome" => cmds[i].work.lease \in Nat
  <2>1. \A i \in DOMAIN cmds : cmds[i] \in Command
    BY <1>2, SeqLen, SMTT(30)
  <2>2. \A v \in Workers : worker[v].work # None => worker[v].work \in LeasedJob
    BY <1>2, Zenon DEF WorkerState
  <2>3. \A i \in DOMAIN cmds : cmds[i].kind = "WorkerOutcome" => cmds[i].work \in LeasedJob
    BY <2>1, CommandFields, Zenon
  <2>4. \A x \in LeasedJob : x.lease \in Nat
    BY Zenon DEF LeasedJob
  <2> QED BY <2>2, <2>3, <2>4, ZenonT(60)
<1>10. /\ \A v \in Workers : worker[v].work # None =>
             worker[v].work.lease < nextLeaseEpoch' /\ worker[v].work # work
       /\ \A i \in DOMAIN cmds : cmds[i].kind = "WorkerOutcome" =>
             cmds[i].work.lease < nextLeaseEpoch' /\ cmds[i].work # work
  <2>1. ASSUME NEW x, x.lease \in Nat, x.lease < nextLeaseEpoch
        PROVE  x.lease < nextLeaseEpoch' /\ x # work
    <3>1. x.lease < nextLeaseEpoch' /\ x.lease # work.lease
      <4> HIDE DEF work
      <4> QED BY <1>1, <1>2, <1>6, <2>1, SMTT(30)
    <3> QED BY <3>1, Zenon
  <2>2. /\ \A v \in Workers : worker[v].work # None => worker[v].work.lease < nextLeaseEpoch
        /\ \A i \in DOMAIN cmds : cmds[i].kind = "WorkerOutcome" =>
              cmds[i].work.lease < nextLeaseEpoch
    BY Zenon DEF OneReport
  <2> HIDE DEF work
  <2> QED BY <1>9, <2>1, <2>2, ZenonT(60)
<1>11. work.lease < nextLeaseEpoch'
  <2> HIDE DEF work
  <2> QED BY <1>1, <1>2, <1>6, SMTT(30)
<1>12. OneReport'
  <2> HIDE DEF work
  <2>1. ASSUME NEW v \in Workers, worker'[v].work # None
        PROVE  /\ worker'[v].work.lease < nextLeaseEpoch'
               /\ \A u \in Workers : worker'[u].work = worker'[v].work => u = v
               /\ \A i \in DOMAIN cmds' : ~IsReport(cmds'[i], worker'[v].work)
    <3>1. CASE v = w
      <4>1. worker'[v].work = work
        BY <1>7, <3>1, ZenonT(60)
      <4>2. \A u \in Workers : worker'[u].work = work => u = w
        BY <1>6, <1>7, <1>10, ZenonT(60)
      <4>3. \A i \in DOMAIN cmds' : ~IsReport(cmds'[i], work)
        <5> SUFFICES ASSUME NEW i \in DOMAIN cmds', IsReport(cmds'[i], work) PROVE FALSE
          BY Zenon
        <5>1. /\ f[i] \in DOMAIN cmds /\ cmds[f[i]].kind = "WorkerOutcome"
              /\ cmds[f[i]].work = work
          BY <1>5, Zenon DEF IsReport
        <5> QED BY <1>10, <5>1, ZenonT(60)
      <4> QED BY <1>11, <3>1, <4>1, <4>2, <4>3, ZenonT(60)
    <3>2. CASE v # w
      <4>1. worker'[v].work = worker[v].work
        BY <1>7, <3>2, Zenon
      <4>2. /\ worker[v].work # None
            /\ \A u \in Workers : worker[u].work = worker[v].work => u = v
            /\ \A i \in DOMAIN cmds : ~IsReport(cmds[i], worker[v].work)
        BY <2>1, <4>1, ZenonT(60) DEF OneReport
      <4>3. \A u \in Workers : worker'[u].work = worker[v].work => u = v
        BY <1>7, <1>10, <4>2, ZenonT(60)
      <4>4. \A i \in DOMAIN cmds' : ~IsReport(cmds'[i], worker[v].work)
        <5> SUFFICES ASSUME NEW i \in DOMAIN cmds', IsReport(cmds'[i], worker[v].work)
                     PROVE  FALSE
          BY Zenon
        <5>1. f[i] \in DOMAIN cmds /\ IsReport(cmds[f[i]], worker[v].work)
          BY <1>5, Zenon DEF IsReport
        <5> QED BY <4>2, <5>1, ZenonT(60)
      <4> QED BY <1>10, <4>1, <4>2, <4>3, <4>4, ZenonT(60)
    <3> QED BY <3>1, <3>2, ZenonT(60)
  <2>2. ASSUME NEW i \in DOMAIN cmds', cmds'[i].kind = "WorkerOutcome"
        PROVE  /\ cmds'[i].work.lease < nextLeaseEpoch'
               /\ \A k \in DOMAIN cmds' : IsReport(cmds'[k], cmds'[i].work) => k = i
    <3>1. f[i] \in DOMAIN cmds /\ cmds[f[i]] = cmds'[i]
      BY <1>5, <2>2, ZenonT(60)
    <3>2. \A k \in DOMAIN cmds : IsReport(cmds[k], cmds[f[i]].work) => k = f[i]
      BY <2>2, <3>1, ZenonT(60) DEF OneReport
    <3>3. ASSUME NEW k \in DOMAIN cmds', IsReport(cmds'[k], cmds'[i].work)
          PROVE  k = i
      <4>1. f[k] \in DOMAIN cmds /\ cmds[f[k]] = cmds'[k]
        BY <1>5, <3>3, ZenonT(60) DEF IsReport
      <4>2. f[k] = f[i]
        BY <3>1, <3>2, <3>3, <4>1, ZenonT(60)
      <4> QED BY <1>5, <4>2, ZenonT(60)
    <3>4. cmds'[i].work.lease < nextLeaseEpoch'
      BY <1>10, <2>2, <3>1, ZenonT(60)
    <3> QED BY <3>3, <3>4, ZenonT(60)
  <2> QED BY <2>1, <2>2, ZenonT(60) DEF OneReport
<1>13. RunningIsHeld'
  <2> SUFFICES ASSUME NEW k \in Jobs, store'[k].state = "Running"
               PROVE  /\ leases'[k] # NoLease
                      /\ LET x == [job |-> k, lease |-> leases'[k].epoch]
                         IN \/ \E v \in Workers : worker'[v].work = x
                            \/ \E i \in DOMAIN cmds' : IsReport(cmds'[i], x)
    BY Zenon DEF RunningIsHeld
  <2>1. CASE k = j
    <3>1. leases'[k] = [epoch |-> nextLeaseEpoch, expired |-> FALSE]
      BY <1>1, <1>2, <2>1, ZenonT(60)
    <3>2. leases'[k].epoch = nextLeaseEpoch /\ leases'[k] # NoLease
      BY <1>2, <3>1, SMTT(30) DEF NoLease
    <3>3. [job |-> k, lease |-> leases'[k].epoch] = work
      BY <2>1, <3>2, ZenonT(60)
    <3> HIDE DEF work
    <3> QED BY <1>7, <3>2, <3>3, ZenonT(60)
  <2>2. CASE k # j
    <3> DEFINE x == [job |-> k, lease |-> leases[k].epoch]
    <3>1. leases'[k] = leases[k] /\ store[k].state = "Running"
      BY <1>1, <1>2, <1>3, <2>2, ZenonT(60)
    <3>2. /\ leases[k] # NoLease
          /\ \/ \E v \in Workers : worker[v].work = x
             \/ \E i \in DOMAIN cmds : IsReport(cmds[i], x)
      BY <3>1, Zenon DEF RunningIsHeld
    <3>3. x # None
      <4>1. leases[k].epoch \in Nat \ {0}
        BY <1>2, <3>2, SMTT(30) DEF SafetyInv, LeaseDiscipline
      <4>2. x \in LeasedJob
        BY <4>1, Zenon DEF LeasedJob
      <4> HIDE DEF x
      <4> QED BY <4>2, RuntimeAssumption, ZenonT(60)
    <3> HIDE DEF x
    <3>4. ASSUME NEW v \in Workers, worker[v].work = x
          PROVE  worker'[v].work = x
      BY <1>7, <3>3, <3>4, ZenonT(60)
    <3>5. \/ \E v \in Workers : worker'[v].work = x
          \/ \E i \in DOMAIN cmds' : IsReport(cmds'[i], x)
      BY <3>2, <3>4, ZenonT(60) DEF IsReport
    <3>6. x = [job |-> k, lease |-> leases'[k].epoch]
      BY <3>1, Zenon DEF x
    <3> QED BY <3>1, <3>2, <3>5, <3>6, ZenonT(60)
  <2> QED BY <2>1, <2>2, ZenonT(60)
<1> QED BY <1>8, <1>12, <1>13, ZenonT(60)

\* The lease goes to the first worker that is parked, or to the one that asks.
LEMMA DispatchHands ==
    ASSUME SafetyInv, HolderInv, DispatchParked
    PROVE  HolderInv'
<1> DEFINE w == Head(parked)
<1>1. /\ pc # "done" /\ ~shuttingDown /\ parked # <<>> /\ parked' = Tail(parked) /\ cmds' = cmds
      /\ \E q \in Queues : GrantLease(q, w)
  BY ZenonT(60) DEF DispatchParked
<1>2. /\ TypeOK /\ parked \in Seq(Workers) /\ worker \in [Workers -> WorkerState]
      /\ cmds \in Seq(Command)
  BY Zenon DEF SafetyInv, TypeOK
<1>3. w \in Workers /\ parked' \in Seq(Workers)
  BY <1>1, <1>2, SeqHeadTail, ZenonT(60)
<1>4. /\ IsInjective(parked)
      /\ \A i \in DOMAIN parked : worker[parked[i]].at = "waiting"
      /\ \A i \in DOMAIN cmds : cmds[i].kind = "FetchWork" =>
            /\ worker[cmds[i].worker].at = "waiting"
            /\ \A k \in DOMAIN cmds : IsFetch(cmds[k], cmds[i].worker) => k = i
            /\ \A k \in DOMAIN parked : parked[k] # cmds[i].worker
  BY <1>1, Zenon DEF HolderInv, OneRequest
<1>5. /\ 1 \in DOMAIN parked /\ w = parked[1]
      /\ IsInjective(parked') /\ Range(parked') = Range(parked) \ {w}
  <2>1. IsCut(parked, parked', 1) /\ 1 \in 1 .. Len(parked) /\ w = parked[1]
    BY <1>1, <1>2, TailCuts, ZenonT(60)
  <2>2. IsInjective(parked') /\ Range(parked') = Range(parked) \ {parked[1]}
    <3>1. IsInjective(parked)
      BY <1>4, Zenon
    <3> QED BY <1>2, <1>3, <2>1, <3>1, CutSeq, ZenonT(60)
  <2>3. DOMAIN parked = 1 .. Len(parked)
    BY <1>2, SeqLen, Zenon
  <2> HIDE DEF w
  <2> QED BY <2>1, <2>2, <2>3, ZenonT(60)
<1>6. PICK q \in Queues : GrantLease(q, w)
  BY <1>1, Zenon
<1> HIDE DEF w
<1>7. worker[w].at = "waiting"
  BY <1>4, <1>5, ZenonT(60)
<1>8. WorkInHand' /\ OneReport' /\ RunningIsHeld'
  <2>1. \E f : Carried(f, {"WorkerOutcome"})
    BY <1>1, SameCarried, ZenonT(60)
  <2>2. \A i \in DOMAIN cmds : \E k \in DOMAIN cmds' : cmds'[k] = cmds[i]
    BY <1>1, Zenon
  <2> QED BY <1>1, <1>3, <1>6, <1>7, <2>1, <2>2, GrantHands, ZenonT(60) DEF HolderInv
<1>9. \A v \in Workers \ {w} : worker'[v] = worker[v]
  BY <1>2, <1>6, ZenonT(60) DEF GrantLease, EpochAfter
<1>10. OneRequest'
  <2>1. \A i \in DOMAIN parked' :
            parked'[i] \in Workers \ {w} /\ \E k \in DOMAIN parked : parked'[i] = parked[k]
    <3>1. \A i \in DOMAIN parked' : parked'[i] \in Workers
      BY <1>3, SeqLen, ZenonT(60)
    <3>2. \A i \in DOMAIN parked' : parked'[i] \in Range(parked) \ {w}
      BY <1>5, Zenon DEF Range
    <3> QED BY <3>1, <3>2, Zenon DEF Range
  <2>2. ASSUME NEW i \in DOMAIN parked'
        PROVE  worker'[parked'[i]].at = "waiting"
    <3>1. worker'[parked'[i]] = worker[parked'[i]]
      BY <1>9, <2>1, ZenonT(60)
    <3>2. PICK k \in DOMAIN parked : parked'[i] = parked[k]
      BY <2>1, Zenon
    <3>3. worker[parked[k]].at = "waiting"
      BY <1>4, Zenon
    <3> QED BY <3>1, <3>2, <3>3, ZenonT(60)
  <2>3. ASSUME NEW i \in DOMAIN cmds', cmds'[i].kind = "FetchWork"
        PROVE  /\ worker'[cmds'[i].worker].at = "waiting"
               /\ \A k \in DOMAIN parked' : parked'[k] # cmds'[i].worker
    <3>1. /\ cmds'[i] = cmds[i] /\ i \in DOMAIN cmds /\ cmds[i].kind = "FetchWork"
      BY <1>1, <2>3, ZenonT(60)
    <3>2. cmds[i].worker \in Workers \ {w}
      <4>1. cmds[i] \in Command
        BY <1>2, <3>1, SeqLen, ZenonT(60)
      <4> QED BY <1>4, <1>5, <3>1, <4>1, CommandFields, ZenonT(60)
    <3>3. worker'[cmds[i].worker] = worker[cmds[i].worker]
      BY <1>9, <3>2, ZenonT(60)
    <3>4. /\ worker[cmds[i].worker].at = "waiting"
          /\ \A k \in DOMAIN parked : parked[k] # cmds[i].worker
      BY <1>4, <3>1, ZenonT(60)
    <3> QED BY <2>1, <3>1, <3>3, <3>4, ZenonT(60)
  <2>4. \E f : Carried(f, {"FetchWork"})
    BY <1>1, SameCarried, ZenonT(60)
  <2> QED BY <1>1, <1>5, <2>2, <2>3, <2>4, RequestsLeft, ZenonT(60) DEF HolderInv
<1> QED BY <1>8, <1>10, ZenonT(60) DEF HolderInv

\* do_fetch_work leases to the worker that asks.
LEMMA FetcherHands ==
    ASSUME SafetyInv, HolderInv, LeaseToFetcher
    PROVE  HolderInv'
<1> DEFINE w == Head(cmds).worker
<1>1. /\ Receive("FetchWork") /\ cmds # <<>> /\ cmds' = Tail(cmds) /\ pc # "done"
      /\ ~shuttingDown /\ parked' = parked
      /\ \E q \in Queues : GrantLease(q, w)
  BY Zenon DEF LeaseToFetcher, Receive
<1>2. /\ TypeOK /\ worker \in [Workers -> WorkerState] /\ parked \in Seq(Workers)
      /\ cmds \in Seq(Command)
  BY ZenonT(60) DEF SafetyInv, TypeOK
<1>3. w \in Workers /\ Head(cmds).kind = "FetchWork"
  BY <1>1, <1>2, ReceiveType, CommandFields, ZenonT(60)
<1>4. /\ IsInjective(parked)
      /\ \A i \in DOMAIN parked : worker[parked[i]].at = "waiting"
      /\ \A i \in DOMAIN cmds : cmds[i].kind = "FetchWork" =>
            /\ worker[cmds[i].worker].at = "waiting"
            /\ \A k \in DOMAIN cmds : IsFetch(cmds[k], cmds[i].worker) => k = i
            /\ \A k \in DOMAIN parked : parked[k] # cmds[i].worker
  BY <1>1, Zenon DEF HolderInv, OneRequest
<1>5. /\ 1 \in DOMAIN cmds /\ cmds[1] = Head(cmds)
      /\ \A i \in DOMAIN cmds' : /\ i + 1 \in DOMAIN cmds /\ i + 1 # 1
                                 /\ cmds'[i] = cmds[i + 1]
  BY <1>1, <1>2, TailPlaces, ZenonT(60)
<1>6. PICK q \in Queues : GrantLease(q, w)
  BY <1>1, Zenon
<1>7. /\ worker[w].at = "waiting"
      /\ \A k \in DOMAIN cmds : IsFetch(cmds[k], w) => k = 1
      /\ \A k \in DOMAIN parked : parked[k] # w
  BY <1>3, <1>4, <1>5, ZenonT(60)
<1> HIDE DEF w
<1>8. WorkInHand' /\ OneReport' /\ RunningIsHeld'
  <2>1. \E f : Carried(f, {"WorkerOutcome"})
    BY <1>1, <1>2, TailCarried, ZenonT(60)
  <2>2. ASSUME NEW i \in DOMAIN cmds, cmds[i].kind = "WorkerOutcome"
        PROVE  \E k \in DOMAIN cmds' : cmds'[k] = cmds[i]
    <3>1. cmds[i] # Head(cmds)
      BY <1>3, <2>2, ZenonT(60)
    <3> QED BY <1>1, <1>2, <3>1, OthersStay, ZenonT(60)
  <2> QED BY <1>1, <1>3, <1>6, <1>7, <2>1, <2>2, GrantHands, ZenonT(60) DEF HolderInv
<1>9. \A v \in Workers \ {w} : worker'[v] = worker[v]
  BY <1>2, <1>6, ZenonT(60) DEF GrantLease, EpochAfter
<1>10. OneRequest'
  <2>1. \A i \in DOMAIN parked' : worker'[parked'[i]].at = "waiting"
    <3>1. \A i \in DOMAIN parked : parked[i] \in Workers
      BY <1>2, SeqLen, ZenonT(60)
    <3> QED BY <1>1, <1>4, <1>7, <1>9, <3>1, ZenonT(60)
  <2>2. ASSUME NEW i \in DOMAIN cmds', cmds'[i].kind = "FetchWork"
        PROVE  /\ worker'[cmds'[i].worker].at = "waiting"
               /\ \A k \in DOMAIN parked' : parked'[k] # cmds'[i].worker
    <3>1. PICK n \in DOMAIN cmds : n # 1 /\ cmds'[i] = cmds[n]
      BY <1>5, Zenon
    <3>2. cmds[n].worker \in Workers \ {w}
      <4>1. cmds[n] \in Command
        BY <1>2, SeqLen, ZenonT(60)
      <4> QED BY <1>7, <2>2, <3>1, <4>1, CommandFields, ZenonT(60) DEF IsFetch
    <3>3. worker'[cmds[n].worker] = worker[cmds[n].worker]
      BY <1>9, <3>2, ZenonT(60)
    <3>4. /\ worker[cmds[n].worker].at = "waiting"
          /\ \A k \in DOMAIN parked : parked[k] # cmds[n].worker
      BY <1>4, <2>2, <3>1, ZenonT(60)
    <3> QED BY <1>1, <3>1, <3>3, <3>4, ZenonT(60)
  <2>3. \E f : Carried(f, {"FetchWork"})
    BY <1>1, <1>2, TailCarried, ZenonT(60)
  <2>4. IsInjective(parked')
    BY <1>1, <1>4, ZenonT(60)
  <2> QED BY <1>1, <2>1, <2>2, <2>3, <2>4, RequestsLeft, ZenonT(60) DEF HolderInv
<1> QED BY <1>8, <1>10, Zenon DEF HolderInv

-----------------------------------------------------------------------------
\* Every lease stays in one pair of hands, when persist does not fail.
LEMMA StepHands ==
    ASSUME SafetyInv, HolderInv, ~PersistMayFail, [Next]_vars
    PROVE  HolderInv'
<1>1. TypeOK /\ OneRequest /\ WorkInHand /\ OneReport /\ RunningIsHeld
  BY Zenon DEF SafetyInv, HolderInv
<1>2. ASSUME HandsKept PROVE WorkInHand' /\ OneReport' /\ RunningIsHeld'
  BY <1>1, <1>2, HandsHold, ZenonT(60)
<1>3. ASSUME RequestsKept PROVE OneRequest'
  BY <1>1, <1>3, RequestsHold, ZenonT(60)
<1>4. CASE \/ ProcessDueRetry \/ CollectTimeouts \/ SettleTimeout \/ EnterSelect
           \/ WakeOnDeadline \/ ReplySubmit \/ RetryBecomesDue \/ DeadlineElapses
           \/ \E j \in Jobs : \/ AcquirePermit(j) \/ PermitRefused(j) \/ DropSubmit(j)
                              \/ LeaseExpires(j)
  BY <1>2, <1>3, <1>4, QuietHands, ZenonT(60) DEF HolderInv
<1>5. CASE \/ RejectSubmit \/ AcceptSubmit \/ RejectCancel \/ AcceptCancel
           \/ StaleOutcome \/ CurrentOutcome \/ StartShutdown
  BY <1>2, <1>3, <1>5, ReceiveHands, ZenonT(60) DEF HolderInv
<1>6. CASE SendShutdown \/ \E j \in Jobs : SendSubmit(j) \/ SendCancel(j)
  BY <1>2, <1>3, <1>6, SendHands, ZenonT(60) DEF HolderInv
<1>7. CASE CompleteShutdown \/ ForceShutdown
  BY <1>2, <1>3, <1>7, EndHands, ZenonT(60) DEF HolderInv
<1>8. CASE DispatchParked \/ LeaseToFetcher
  BY <1>8, DispatchHands, FetcherHands, ZenonT(60)
<1>9. CASE ParkFetcher
  BY <1>1, <1>2, <1>9, ParkHands, ZenonT(60) DEF HolderInv
<1>10. ASSUME NEW w \in Workers, WorkerStep(w) \/ \E o \in HandlerOutcomes : HandlerEnds(w, o)
       PROVE  HolderInv'
  <2>1. CASE \/ WorkerCheckToken(w) \/ WorkerStop(w) \/ WorkerStart(w) \/ HandlerAborted(w)
             \/ \E o \in HandlerOutcomes : HandlerEnds(w, o)
    BY <1>2, <1>3, <2>1, WorkerHands, ZenonT(60) DEF HolderInv
  <2>2. CASE WorkerFetch(w)
    BY <1>1, <1>2, <2>2, FetchHands, ZenonT(60) DEF HolderInv
  <2>3. CASE WorkerReport(w)
    BY <1>1, <1>3, <2>3, ReportHands, ZenonT(60) DEF HolderInv
  <2> QED BY <1>10, <2>1, <2>2, <2>3, ZenonT(60) DEF WorkerStep
<1>11. CASE UNCHANGED <<cmds, parked, worker, shuttingDown, nextLeaseEpoch, store, leases, pc>>
  BY <1>1, <1>11, ZenonT(60) DEF HolderInv, OneRequest, WorkInHand, OneReport, RunningIsHeld
<1>12. UNCHANGED vars =>
          UNCHANGED <<cmds, parked, worker, shuttingDown, nextLeaseEpoch, store, leases, pc>>
  BY Zenon DEF vars, storageVars, jobVars, loopVars, stopVars, actorVars
<1> QED BY <1>4, <1>5, <1>6, <1>7, <1>8, <1>9, <1>10, <1>11, <1>12, ZenonT(60)
           DEF Next, CoordinatorStep, Stopped

\* A lifetime starts with every worker idle.
LEMMA StartHands ==
    ASSUME NEW jobs, NEW epoch, StartFrom(jobs, epoch)
    PROVE  HolderInv
<1>1. ASSUME NEW j \in Jobs
      PROVE  store[j].state # "Running"
  <2>1. store[j] \in RecoveredEntry(j) \cup {Absent}
    BY ZenonT(60) DEF StartFrom
  <2> QED BY <2>1, SMTT(30) DEF RecoveredEntry, Absent
<1>2. /\ DOMAIN cmds = {} /\ DOMAIN parked = {}
      /\ IsInjective(parked)
      /\ \A w \in Workers : worker[w].work = None
  BY SMTT(30) DEF StartFrom, IsInjective, IdleWorker
<1> QED BY <1>1, <1>2, ZenonT(60) DEF HolderInv, OneRequest, WorkInHand, OneReport, RunningIsHeld

\* The one that will report for a Running job.
LEMMA OneHolder ==
    ASSUME SafetyInv, HolderInv, pc # "done", NEW j \in Jobs, store[j].state = "Running"
    PROVE  /\ leases[j] # NoLease
           /\ \E h : HoldersOf([job |-> j, lease |-> leases[j].epoch]) = {h}
<1> DEFINE work == [job |-> j, lease |-> leases[j].epoch]
<1>1. /\ leases[j] # NoLease
      /\ \/ \E w \in Workers : worker[w].work = work
         \/ \E i \in DOMAIN cmds : IsReport(cmds[i], work)
  BY Zenon DEF HolderInv, RunningIsHeld
<1>2. work \in LeasedJob
  <2>1. leases[j].epoch \in Nat \ {0}
    BY <1>1, SMTT(30) DEF SafetyInv, TypeOK, LeaseDiscipline
  <2> QED BY <2>1, ZenonT(60) DEF LeasedJob
<1> HIDE DEF work
<1>3. work # None
  BY <1>2, RuntimeAssumption, ZenonT(60)
<1>4. HoldersOf(work) = {w \in Workers : worker[w].work = work}
                           \cup {i \in DOMAIN cmds : IsReport(cmds[i], work)}
  BY Zenon DEF HoldersOf, IsReport
<1>5. ASSUME NEW w \in Workers, worker[w].work = work
      PROVE  HoldersOf(work) = {w}
  <2>1. /\ \A v \in Workers : worker[v].work = work => v = w
        /\ \A i \in DOMAIN cmds : ~IsReport(cmds[i], work)
    BY <1>3, <1>5, ZenonT(60) DEF HolderInv, OneReport
  <2> QED BY <1>4, <1>5, <2>1, ZenonT(60)
<1>6. ASSUME NEW i \in DOMAIN cmds, IsReport(cmds[i], work)
      PROVE  HoldersOf(work) = {i}
  <2>1. \A w \in Workers : worker[w].work # work
    BY <1>3, <1>6, ZenonT(60) DEF HolderInv, OneReport
  <2>2. \A k \in DOMAIN cmds : IsReport(cmds[k], work) => k = i
    BY <1>6, Zenon DEF HolderInv, OneReport, IsReport
  <2> QED BY <1>4, <1>6, <2>1, <2>2, ZenonT(60)
<1>7. \E h : HoldersOf(work) = {h}
  BY <1>1, <1>5, <1>6, ZenonT(60)
<1> QED BY <1>1, <1>7, ZenonT(60) DEF work
=============================================================================
