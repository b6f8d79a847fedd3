# Verification of rust-durable-queue

TLA+ models of the queue in `src/src`, TLC configurations that check them on
small instances, and TLAPS proofs of the most important properties for every
instance. Paths below are relative to the directory that holds `src/`.

## The system

| Part | Source | Modelled in |
|---|---|---|
| Coordinator: single owner of jobs, ready queues, leases, retry heap, permits | `src/src/coordinator.rs` | `Coordinator` |
| Job table, states, records | `src/src/store.rs`, `types.rs`, `wal/record.rs` | `JobStore` |
| Worker pool | `src/src/worker.rs`, `handler.rs` | `QueueRuntime` |
| Runtime, callers, semaphores | `src/src/runtime.rs`, `lib.rs`, `handle.rs` | `QueueRuntime`; starts and restarts in `DurableQueue` |
| Storage: `persist` | `src/src/store.rs` | `Coordinator` (one step), `JobLog` (contract), `Wal` + `Recovery` (file) |
| WAL writer, scanner, repair, codec | `src/src/wal/` | `FrameScan`, `Wal`, `Recovery` (frames), `DataDir` (bytes) |
| Recovery and reconciliation | `src/src/recovery.rs` | `Recovery` (file), `DurableQueue` (what the next lifetime starts from) |
| Data directory: `LOCK`, who may read and write `wal.log` | `recovery.rs`, `wal/writer.rs`, `bin/rdq.rs` | `DataDir` |
| Retry backoff, its two clocks | `src/src/config.rs`, `coordinator.rs` | `RetryTime` |
| Error and statistics types | `error.rs`, `wal/error.rs`, `stats.rs` | not modelled: plain data |

Callers take a permit from their queue's semaphore and send a command through
one bounded channel. Workers send `FetchWork`, get a lease or are parked, run
the handler and send the outcome back. The coordinator handles one command at a
time; before each it requeues due retries, settles expired leases and gives
ready jobs to parked workers. Every change of a job is a record that `persist`
appends to the log and syncs; only then is it applied. When a process ends, by
a crash or after `shutdown`, the next one locks the directory, scans, repairs
and replays the log, writes a record for every job that was Running, and builds
queues, timers, permits and counters from the result.

## Modules

- **`JobStore`**: job states, the six records, `apply_record` with its
  transition check (`Applicable`, `ApplyRecord`), the unchecked
  `apply_record_for_recovery`, `transition_to_queued`. No state of its own.
- **`Coordinator`**: the coordinator's fields as variables, one action per
  command and per step of the run loop. Handlers run on one task and nobody
  else sees their state, so a handler is one step, split only where it makes
  several `persist` calls (timed-out leases one by one, parked workers one by
  one). `pc` says where the run loop is: `loop` (retries), `work` (timeouts,
  dispatch, exit tests), `select`, `submit` (the dispatch inside `do_submit`),
  `done`.
- **`QueueRuntime`**: adds the worker loop, the callers, the clock, the states a
  lifetime starts from (`StartFrom`: fresh, or what recovery may hand over),
  `Next`, fairness and the properties of one lifetime.
- **`DurableQueue`**: composes lifetimes. `Run` is a step of the current one,
  `Restart` ends it at any moment and starts the next from the log: it
  reconciles (`Reconciled`), validates (`ValidateRecoveredState`) and rebuilds
  (`QueuedJobs`, `ReservePermits`) as `Runtime::start` does. `place` and
  `maxLeaseEpoch` are what `RecoveryTracker` will find in the log, kept up record
  by record (`TrackRecord`): where a job's `JobSubmitted` record is among the
  others, and the last epoch, from which the next lifetime continues.
- **`JobLog`**: what the coordinator promises of its log, everything else
  hidden. `QueueRuntime` implements it (`ImplementsJobLog`), `Recovery` assumes
  it of the process that appends.
- **`FrameScan`**: what the scan makes of a log, said of whole and torn frames.
  `Recovery` uses it; `DataDir` shows that the scan of the bytes does this.
- **`Wal`**: frames of `wal.log`, writing and syncing, what a crash leaves.
  **`Recovery`**: `recover()` step by step, appends, close, crash, I/O errors.
- **`DataDir`**: the directory shared by users of four kinds (a `Runtime`, a
  `QueueHandle`, a `WalWriter` opened by itself, the tools `inspect` and
  `verify`). One action per system call or per frame of a scan: lock, create,
  scan, repair, append, sync, close of the writer thread, kill, power loss.
- **`RetryTime`**: one job's retries, in nanoseconds: `cap_for_attempt`
  iteration by iteration, jitter, `available_at` in wall-clock milliseconds, the
  live timer and the recovered one, over crashes and changes of the wall clock.
- **`QueueInvariants`**: the inductive invariants of `QueueRuntime` and
  `DurableQueue`. **`StepProofs`**, **`SafetyProofs`**, **`DispatchProofs`**,
  **`HoldingProofs`**: what one step keeps of them. **`QueueProofs`**: the
  theorems about the two specifications. **`RecoveryProofs`**,
  **`RetryProofs`**, **`DataDirProofs`**: those about the other three.
- **`MC...`**: instances for TLC.

Operators called "Mutant of X" state a plausible bug in X. Each property of a
passing run is violated when the mutant named for it in `PROJECT.json` takes
X's place.

### Abstractions

- *Time in the coordinator* is what a comparison with `now` can tell: how many
  retry entries are due (`dueCount`), which leases have expired, whether the
  shutdown deadline has elapsed. The retry heap is a sequence by due time; a new
  entry may come in anywhere behind the due ones. `RetryTime` has the numbers.
- *Round robin*: `try_lease_job`'s loop over the queues is stated as the queue
  it ends at (`Turn`, `ReachesQueue`). When `persist` may fail, any ready queue
  visited before may have been skipped.
- *Storage in `QueueRuntime`*: `logged` is the job table that the records
  `persist` has confirmed would build. A `persist` that returns an error confirms
  nothing and leaves `logged` alone. The file is another matter: when only
  `sync_data` fails, the frame stays in it, whole, and the next start replays a
  record whose caller was told that it failed. What is said of `logged` after a
  failed `persist`, in `QueueRuntime` and `DurableQueue`, is about confirmed
  records only. `Recovery` has the file: `RefusedIsLast` says that while the
  queue is open only the last record it would accept can be an unconfirmed one,
  and the runs `sync_failure` and `torn_append` show what further appends do.
- *Permits*: `avail` counts the free permits of each semaphore; a permit is also
  with a caller, in a command, in `permits`, or forgotten (recovered jobs).
- *Callers*: each job id is one submission. `try_submit` and `submit` differ
  only in what they do when no permit is free. A caller may also drop the
  future before the command is sent. Callers may race `shutdown`;
  `Runtime::shutdown` takes the runtime by value, so this is more than that API
  allows, but the coordinator does not rely on it.
- *Restart in `DurableQueue`* is one step from the log to the running state;
  that a crash inside it changes nothing is what `Recovery` checks. A submission
  that left no record may be made again.
- *Aborting a handler* is one step; tokio aborts at the handler's next await
  point, so its last side effects may come later than the model shows. No
  property is about them.
- *Frames* in `Wal` and `Recovery` are whole or torn. In `DataDir` they are
  ranges of bytes: a torn one lacks its last bytes and takes those of the next
  for its own. A checksum accepts what was encoded and nothing else.
- *Power loss*: the synced bytes stay, then any prefix of what was written, cut
  anywhere. Data is taken to reach the disk in the order it was written, and the
  directory entry to be durable once the header is synced. `set_len` in the
  repair cuts the tail off or fails before it does (`RepairFails`); a cut whose
  `sync_all` failed is not undone by a later power loss.
- *LOCK* is `fs4`'s exclusive lock: whoever does not get it returns at once, and
  the operating system frees it when its file is closed or its process ends.

## Runs

| Run | Instance | Shows |
|---|---|---|
| `dispatch` | 3 jobs, 2 queues of capacity 1 (two jobs compete for one permit), 2 workers, channel of 1, one cancel | `LeaseDiscipline`, `ReadyIsQueued`, `RetryHasTimer`, `CapacityIsLiveJobs`, `RunningHasOneHolder`, `WorkConserving`, `CompletedByLatestLease`, `NoQueueStarves` |
| `faults` | 3 jobs (one payload too large), 1 worker, any `persist` may fail, cancel, shutdown | `MemoryMatchesLog`, `CapacityIsLiveJobs`, `StatsMatchStore`, `AnswersAreDurable`, `TerminalIsFinal`, `ImplementsJobLog`, `QuietAfterShutdown` |
| `lifetimes` | 3 jobs, 1 queue of capacity 2, 1 worker, a restart at any moment, cancel, shutdown | `AlwaysRestartable`, `NeverOverCapacity`, `RunningHasOneHolder`, `ExecutionsBounded`, `RestartsAreInitial`, `FirstRunsInOrder`, `TerminalIsFinal` |
| `liveness` | 2 jobs, 1 worker, channel of 1, a restart at any moment, shutdown, fair scheduling | `JobsSettle`, `LeaseReclaimed`, `ShutdownEnds` |
| `crashes` | 2 jobs, 6 frames, 3 crashes, 2 I/O errors, config may be rejected | `LogIsLegal`, `MemoryIsReplay`, `RefusedOnlyForHeader`, `AcknowledgedKept`, `RecoveryReconciles`, `RefusedIsLast` |
| `retry_time` | 1 job with 4 attempts, delays of 0, 1.2 and 5 ms (each pair that passes validation), 2 crashes, the clock set at any moment | `DelayIsBackoff`, `NeverEarly`, `NotLate` |
| `data_dir` | one user of each kind, frames of 3 and 5 bytes with a length field of 2, 3 frames, 2 faults | `ScanIsCurrent`, `ScanMatchesFrames`, `AckedAreFound`, `ReleasedWhenReturned` |

### Bounds

Attempts are bounded by `max_attempts` (2 for job `a`, so that it can be
retried, time out and be retried again; 1 for the others), so no counter needs a
cap in `QueueRuntime`. `MaxLives` = 2 gives one restart; since every restart
begins in a state `QueueRuntime` starts from (`RestartsAreInitial`), a second one
meets nothing new except more used attempts, which `ExecutionsBounded` counts;
the proofs have no such bound. In `lifetimes`
three submissions into a queue of two give a job that waits for capacity across
the restart. `Recovery`'s `MaxFrames` = 6 holds a job's whole history with one
reconciliation, and `MaxCrashes` = 3 a crash while appending, one during
reconciliation and one after. In `retry_time` the saturation limits
(`MaxExponent`, `MaxDuration`, `MaxNanos`) are made small enough to be reached,
and times are chosen on both sides of a millisecond. In `data_dir` a frame can be
torn inside its length field, behind it, and at every other byte.

Workers are interchangeable, as are jobs `b` and `c` of `lifetimes`, so the
safety runs use symmetry over them; the liveness run does not. `dispatch` has no
shutdown, so the system may come to rest with every job ended and every worker
parked, and deadlock is not checked there; `persist_failure` and
`recovered_capacity` likewise. `retry_time` ends with its job.

### Fairness

`SchedulerFairness` is weak fairness of the coordinator, of each worker and of
the timers: tokio polls every task that can make progress, and deadlines pass.
`HandlerFairness` (handlers return) is a premise of `JobsSettle` only; the code
does not enforce it, since after a lease timeout the handler is merely told
through its token. `LeaseReclaimed` and `ShutdownEnds` hold without it. Nothing
makes a crash or a restart happen. The channel of the liveness run has one slot,
for which a worker, the callers and `shutdown` compete. Weak fairness is enough
although a sender may find the slot taken again and again: the others send
finitely often, so that from some moment on there is room. (tokio also serves
waiting senders in their order.)

### Where code and documents disagree

| Run | Statement | What the code does |
|---|---|---|
| `shutdown_aborts` | `runtime.rs:215` "Waits for running jobs to complete up to shutdown_timeout, then cancels remaining." | `start_shutdown` cancels the token every worker watches; handlers are aborted at once and reported as Retryable |
| `persist_failure` | `docs/wal-format.md:80` "Memory is never mutated before successful persistence" | the lease is removed before `persist`; if that fails the job stays Running without lease or timer until a restart |
| `recovered_capacity` | `README.md:186` "Semaphore capacity = live jobs" | permits of recovered jobs are forgotten and never returned; `NeverOverCapacity` is what remains true |
| `sync_failure` | `docs/wal-format.md:61` "Increment by 1 for each record" | after a failed sync the frame stays and its number is used again; the next recovery refuses the log |
| `torn_append` | `docs/wal-format.md:190` "the incomplete frame was never acknowledged to any caller" | after a partial write the next frame goes behind the torn one, is acknowledged, and may be cut off with it |

| `retry_time` (passes) | `docs/wal-format.md:223` "If the system clock moved backward, retries may fire immediately." | the reverse: setting the clock back makes a recovered retry wait longer (`NotLate` needs its term `SetBack`), setting it ahead makes it fire early (`SetAhead` in `NeverEarly`) |

Three observations without a run of their own:

- A crash while the header of a new log is written leaves a file that every
  later start refuses; `RefusedOnlyForHeader` says it is the only such case.
- `handle.rs:102` says "Only queued jobs can be cancelled." `do_cancel` cancels a
  job in any state that is not terminal (`AcceptCancel`), as `runtime.rs:189` and
  the state diagram in `src/README.md` say.
- `WalWriter::open` appends behind a truncated tail without cutting it off. It is
  one of the two ways in which `DataDir` becomes `spoiled`; `AckedAreFound` holds
  as long as it is not. Only tests open a log that way.

## Proofs

The assumptions are the named `ASSUME`s of the modules: finitely many jobs, at
least one queue, a positive channel capacity and first epoch, delays that a
`Duration` can hold, frames no shorter than their overhead, well-typed
configuration functions, and that `None` is neither a record nor a leased job.
Where a theorem needs more, its statement says so.

### The coordinator, its log and its lifetimes

The theorems of `QueueProofs` hold for every finite set of jobs, every number of
queues and workers, every capacity and channel bound. `persist` may fail at will
unless `~PersistMayFail` is a hypothesis. Those about `QueueSpec` hold for any
number of restarts at any moment; those about `Spec` are about one lifetime, which
may start with recovered jobs.

The step lemmas are in four modules, each with its own idea of what matters in a
step. They count jobs through one hypothesis, `JobsCount`, which `QueueProofs`
derives from the finiteness of `Jobs` (`JobsCounted`).

- `StepProofs`: `TypeOK` is inductive (`TypeStep`). Effect lemmas (`SubmitEffect`,
  `CancelEffect`, `RetryEffect`, `GrantEffect`, `SettleEffect`) say what one record
  makes of a job in memory and in the log; everything else cites these.
  `PermitStep` is what a step can do with permits: a permit that is not free
  belongs to a job, with its caller, in its command or with the live job
  (`HeldIn`), and a step moves one between the two sides, or loses one for good.
- `SafetyProofs`: `SafetyInv` is inductive. It strengthens `TypeOK`,
  `MemoryMatchesLog` and `LeaseDiscipline` by four facts: `TimedOutAreLeased` (the
  expired leases collected by `check_lease_timeouts` are still out when their turn
  comes, so that settling one writes a record for a Running job), `SubmittedOnce`
  and `SubmitterState` (a submission is in the channel at most once and its job is
  not in the log while it is there, so that `JobSubmitted` overwrites nothing and
  a refused one has no confirmed record), `CancelledForGood`. A lemma per action (`LeaseSafe`,
  `TimeoutSafe`, `OutcomeSafe`, `CancelSafe`, `SubmitSafe`, ...).
- `DispatchProofs`: the round robin is arithmetic modulo the number of queues. A
  step keeps a ready queue, appends one job or cuts one out (`ReadyStep`), and the
  same is said of the retry heap (`RetryTimers`: no job twice, and nobody but
  waiting and cancelled jobs). `BookStep` relates the counters to the one job whose
  state a step changes. Last comes shutdown: `PlainStep` is what every other step
  leaves alone of it, and `StepAnswers` that nothing is written after the answer.
- `HoldingProofs`: who will report for a lease. `HolderInv` says that a worker
  whose request is in the channel or parked waits for the reply (`OneRequest`), so
  that a lease is handed to a worker with empty hands; that each lease is named by
  at most one worker or report (`OneReport`); and that a Running job is leased to
  one of them (`RunningIsHeld`). A lease is issued with a new epoch, so nobody names
  it yet.

What follows from them in `QueueProofs`:

| Theorem | Property | Argument |
|---|---|---|
| `TypeCorrect`, `LeasesAreDisciplined`, `MemoryIsReplayOfLog`, `AnswersAreTrue` | `TypeOK`, `LeaseDiscipline`, `MemoryMatchesLog`, `AnswersAreDurable` | `SafetyInv` |
| `TerminalJobsAreFinal`, `StaleReportsCompleteNothing` | `TerminalIsFinal`, `CompletedByLatestLease` | step by step, from `SafetyInv` |
| `RuntimeImplementsJobLog` | `ImplementsJobLog` | the refinement of `JobLog`, with the identity for a mapping. Six actions write a record; `MemoryMatchesLog` carries their guards from memory to the log |
| `RoundRobinIsFair` (`~PersistMayFail`) | `NoQueueStarves` | the distance to a queue shrinks |
| `ReadyQueuesAreExact`, `StatsAreExact`, `EveryRetryHasOneTimer` | `ReadyIsQueued`, `StatsMatchStore`, `RetryHasTimer` | `ReadyStep`, `BookStep`, `RetryTimers` |
| `NoWorkerParkedBesideWork` (`~PersistMayFail`) | `WorkConserving` | a worker is parked only when no job is ready, a job made ready is dispatched before the next `select`, and none is parked once shutdown began (`NoneParkedAtShutdown`) |
| `EveryRunHasOneHolder` (`~PersistMayFail`) | `RunningHasOneHolder` | `HolderInv`. With failing `persist` it is false, see `persist_failure` |
| `NothingAfterShutdown` | `QuietAfterShutdown` | `AnsweredLast`: when `shutdown` is answered no lease is left and the loop can only end |
| `EveryRestartIsAStart`, `ExecutionsAreBounded`, `RecoveryReopensNothing` (`QueueSpec`) | `RestartsAreInitial`, `ExecutionsBounded`, `TerminalIsFinal` | `QueueInv` adds to `SafetyInv` what an entry of the log can be (`LogShape`) that the epochs issued are the attempts in the log (`Counted`), and that the last of them is the one recovery will find (`Tracked`). A step of a lifetime is taken as a step of `JobLog`, so that the refinement does the work; a restart needs what reconciliation makes of each entry (`ReconciledShape`) |
| `CapacityIsNeverExceeded`, `QueueAlwaysRestarts` (`QueueSpec`), `NoPermitIsLost` (nothing recovered) | `NeverOverCapacity`, `AlwaysRestartable`, `CapacityIsLiveJobs` | `PermitStep`: free and held permits are never more than the capacity, and as many when nothing was recovered |
| `FirstInFirstRun` (`QueueSpec`) | `FirstRunsInOrder` | jobs of a ready queue that have not run yet stand in the order of their places (`InOrder`), and a new job's place is beyond all others (`Placed`); retries may stand anywhere between them |

### The log file

`RecoveryProofs` holds for any number of jobs, frames and crashes, with writes and
syncs failing at will: `RecoveryTypeCorrect`, `LegalHistory` (`LogIsLegal`),
`MemoryMatchesFile` (`MemoryIsReplay`), `RefusalIsHeader`
(`RefusedOnlyForHeader`), `NothingAcknowledgedLost` (`AcknowledgedKept`),
`ReconciledWhenOpen` (`RecoveryReconciles`), `OnlyLastIsUnconfirmed`
(`RefusedIsLast`).

The inductive invariant `RecoveryInv` has to hold after faults too, when the file
is not what the writer believes. It tells two cases apart. A log is *clean* when
the writer's next number is that of the next frame: then every frame is whole and
in its place, and memory is the replay of the file without the frame that waits
for its sync. Otherwise it is *dirty*: a failed write or sync left a frame whose
number is used again, and since numbers only grow one by one, no frame behind it
is ever accepted by a scan. So `Legal` (each accepted frame is one that
`JobLog`'s contract allows after those before it) survives faults: new frames are
either written from a memory that matches the file, or never accepted.
`Reconciling` says that during recovery the jobs still to be written are the
Running ones of the replay, so that a crash half-way leaves a log from which the
next recovery does the rest. `FaultFree` says that without faults only the last
frame may be torn, and acknowledged frames are synced. `Confirmed` adds which
accepted frames are acknowledged: in a clean log all but the one that waits for
its sync, in a dirty one all but the last.

`Replay`, `MaxLeaseEpoch` and `LeasesIn` are folds over the log. What they compute
is proved by induction in terms of sets: `NatMin`, the least element of a set of
naturals, follows from the library's theorem that `<` is well-founded, and
`SetInduction` from `NatMin` with a set in place of the predicate. `ReplayAppend`
and `EpochsNext` (one more frame is one more record applied) are what the
invariant needs.

### Retry times

For every configuration, sample, pause and setting of the clock, over any number
of crashes: `RetriesAreNeverEarly`, `RetriesAreNotLate`, `DelayWithinLimits`,
`DelayIsExponential`. The inductive invariant adds to the properties that, as long
as a delay counts, `available_at` is what the wall clock showed when it was chosen
plus the delay, each cut to milliseconds (`Scheduled`), that this moment is past
(`Fresh`), and that `cap_for_attempt`'s loop stays between `base_delay` and
`max_delay` (`DelayInv`). The step that matters is the recovered timer, which takes
the difference of two cut values; `MillisBounds` says what each cut loses.

`DelayIsExponential` (`DelayIsBackoff`) says what the loop computes: the base delay
times a power of two, up to `max_delay` and the saturation limits. The power is the
recursive function `PowerOfTwo`, about which `SetInduction` proves that it doubles;
`Doubling` is the loop invariant, and saturating in each iteration comes to the same
as saturating once (`DoubleOnce`).

### The data directory

For any number of users of the four kinds, any frame sizes and any number of
kills, power losses and I/O errors: `ScansAreCurrent`, `ReturnReleases`,
`ScansMatchFrames`, `AckedFramesAreFound`. The inductive invariant says

- `LockInv`, `CallInv`: exactly the holder of `LOCK` is active, and who has
  returned is idle;
- `FileInv`: the frames lie one behind the other (`Layout`), acknowledged frames
  are synced (`AckedSynced`), and as long as nothing was spoiled only the last
  frame can be torn (`Intact`);
- `UserInv`: a scan under way reads the file as it is and has accepted what it
  should (`Scanned`); how it ended follows from the layout (`Ended`); while a frame
  is being written it is the last one and not acknowledged.

`LOCK` gives the frame lemma of the proof, `Bystander`: a step of one user leaves
every other user's part alone because no other user is active.

### Only model-checked

Liveness, which this prover does not handle: `JobsSettle`, `LeaseReclaimed`,
`ShutdownEnds`. The five runs that show a disagreement are counterexamples and
need no proof.

## Not modelled

- `Status` and `Stats` (they only read), and counters nothing depends on
  (`retried`, `stale_outcomes`, global terminal counters, per-queue `submitted`).
- `recv()` returning `None`: workers hold senders.
- `QueueHandle::shutdown`, which only closes the semaphores; what it leaves
  running in the directory is in `DataDir`.
- Payload bytes, names and sizes. The two equal limits on payload and record size
  make a submission near them fail in `persist`, which the `faults` run includes.
- The durability of the directory entry of a new `wal.log`: it depends on the
  file system.
- Liveness under intermittent `persist` failures: after a failed lease the worker
  is parked and only the next command or deadline wakes the loop, so nothing
  holds beyond what `WorkConserving` says with `persist` succeeding.
- Delays beyond the range of `i64` milliseconds or of `Instant`: the two sums are
  taken to be exact.
- The `demo` command, argument parsing, printing, error texts.
