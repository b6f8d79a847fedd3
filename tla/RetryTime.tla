----------------------------- MODULE RetryTime -----------------------------
(***************************************************************************)
(* When a failed job runs again: the backoff of src/src/config.rs, the two *)
(* clocks of schedule_retry and the way recovery turns the persisted       *)
(* available_at back into a timer.  One job, seen over crashes, restarts   *)
(* and changes of the wall clock.  Time is in nanoseconds; now is the time *)
(* that has really passed (the monotonic clock of whichever process runs), *)
(* wall is what SystemTime shows and may be set at any moment.             *)
(***************************************************************************)
EXTENDS Integers

CONSTANTS
    Delays,       \* the Durations base_delay and max_delay are taken from
    MaxExponent,  \* cap_for_attempt doubles at most this often: 63
    MaxDuration,  \* Duration::MAX
    MaxNanos,     \* u64::MAX
    Samples,      \* what the random number generator may return
    MaxAttempts,  \* JobSpec::max_attempts
    Pauses,       \* bound: the steps in which time passes
    MaxTime,      \* bound on now
    WallTimes,    \* bound: what the wall clock may be set to
    MaxCrashes    \* bound on the number of crashes

ASSUME RetryAssumption ==
    /\ Delays \subseteq Nat
    /\ MaxExponent \in Nat
    /\ MaxDuration \in Nat
    /\ \A d \in Delays : d <= MaxDuration
    /\ MaxNanos \in Nat \ {0}
    /\ Samples \subseteq Nat
    /\ MaxAttempts \in Nat
    /\ Pauses \subseteq Nat
    /\ MaxTime \in Nat
    /\ WallTimes \subseteq Nat
    /\ MaxCrashes \in Nat

VARIABLES
    config,       \* RetryConfig
    now, wall,
    phase,        \* "running", "backoff", "persisting", "waiting", "down" or
                  \* "ended"
    attempts,
    rounds,       \* cap_for_attempt: the iterations left
    backoff,      \*   and the value so far
    delay,        \* the delay chosen for the coming retry
    failedAt,     \* history: when it was chosen
    skewAt,       \* history: wall - now at that moment
    availableAt,  \* wall_clock_available_at, in milliseconds
    recorded,     \* whether JobRetryScheduled is in the log
    timer,        \* RetryEntry::available_at
    setAt,        \* history: when the timer was set,
    recovered,    \*   whether recovery set it,
    skewSet,      \*   and wall - now then
    crashes

clockVars == <<now, wall>>
loopVars == <<rounds, backoff>>
retryVars == <<delay, failedAt, skewAt, availableAt>>
timerVars == <<timer, setAt, recovered, skewSet>>
vars == <<config, clockVars, phase, attempts, loopVars, retryVars, recorded,
          timerVars, crashes>>

-----------------------------------------------------------------------------
\* Nanoseconds in a millisecond.
Milli == 1000000

Least(x, y) == IF x <= y THEN x ELSE y
Greatest(x, y) == IF x <= y THEN y ELSE x

\* UnixMillis::now and Duration::as_millis: whole milliseconds, rounded down.
Millis(t) == t \div Milli

Skew == wall - now

RetryConfig == [base : Delays, max : Delays, full : BOOLEAN]

\* RetryConfig::validate.
Validate(c) ==
    /\ c.base > 0
    /\ c.max > 0
    /\ c.base <= c.max

\* Duration::saturating_mul(2).
Doubled(d) == Least(2 * d, MaxDuration)

\* delay_with_rng after cap_for_attempt: with Jitter::Full anything from zero to
\* the cap; a cap beyond u64 is scaled from a u64 sample and cut to u64.
DelayWithRng(cap) ==
    LET scale == cap \div MaxNanos
    IN IF ~config.full THEN {cap}
       ELSE IF cap <= MaxNanos THEN {s \in Samples : s <= cap} \cup {0, cap}
       ELSE {Least(Least(s * scale, cap), MaxNanos) :
                s \in {r \in Samples : r <= MaxNanos} \cup {0, MaxNanos}}

-----------------------------------------------------------------------------
\* A job runs for the first time.
Init ==
    /\ config \in {c \in RetryConfig : Validate(c)}
    /\ now = 0
    /\ wall \in WallTimes
    /\ phase = "running"
    /\ attempts = 1
    /\ rounds = 0
    /\ backoff = 0
    /\ delay = 0
    /\ failedAt = 0
    /\ skewAt = wall
    /\ availableAt = 0
    /\ recorded = FALSE
    /\ timer = 0
    /\ setAt = 0
    /\ recovered = FALSE
    /\ skewSet = wall
    /\ crashes = 0

\* Mutant of Exponent: one doubling too many.
ExponentOneMore == Least(attempts, MaxExponent)

\* (attempt - 1), capped.
Exponent == Least(Greatest(attempts - 1, 0), MaxExponent)

\* The attempt failed or timed out and may be repeated.  Until the delay is
\* known nothing reads a clock.
CapForAttempt ==
    /\ phase = "running"
    /\ attempts < MaxAttempts
    /\ rounds' = Exponent
    /\ backoff' = config.base
    /\ phase' = "backoff"
    /\ UNCHANGED <<config, clockVars, attempts, retryVars, recorded,
                   timerVars, crashes>>

\* One iteration of cap_for_attempt, which returns once max_delay is reached.
DoubleBackoff ==
    /\ phase = "backoff"
    /\ rounds > 0
    /\ IF Doubled(backoff) >= config.max
       THEN backoff' = config.max /\ rounds' = 0
       ELSE backoff' = Doubled(backoff) /\ rounds' = rounds - 1
    /\ UNCHANGED <<config, clockVars, phase, attempts, retryVars, recorded,
                   timerVars, crashes>>

\* schedule_retry, up to its persist call: available_at is the wall clock plus
\* the delay, both cut to milliseconds.
ScheduleRetry ==
    /\ phase = "backoff"
    /\ rounds = 0
    /\ \E d \in DelayWithRng(Least(backoff, config.max)) :
          /\ delay' = d
          /\ availableAt' = Millis(wall) + Millis(d)
    /\ failedAt' = now
    /\ skewAt' = Skew
    /\ backoff' = 0
    /\ phase' = "persisting"
    /\ UNCHANGED <<config, clockVars, attempts, rounds, recorded,
                   timerVars, crashes>>

\* The job ends: it succeeds, or it fails with no attempt left.
EndJob ==
    /\ phase = "running"
    /\ phase' = "ended"
    /\ UNCHANGED <<config, clockVars, attempts, loopVars, retryVars, recorded,
                   timerVars, crashes>>

\* Instant::now() + delay.
LiveTimer == now + delay

\* schedule_retry after persist: the timer is set for the full delay.
SetTimer ==
    /\ phase = "persisting"
    /\ recorded' = TRUE
    /\ timer' = LiveTimer
    /\ setAt' = now
    /\ recovered' = FALSE
    /\ skewSet' = Skew
    /\ phase' = "waiting"
    /\ UNCHANGED <<config, clockVars, attempts, loopVars, retryVars, crashes>>

\* process_due_retries, and the lease that follows.
RunAgain ==
    /\ phase = "waiting"
    /\ timer <= now
    /\ phase' = "running"
    /\ attempts' = attempts + 1
    /\ recorded' = FALSE
    /\ UNCHANGED <<config, clockVars, loopVars, retryVars, timerVars, crashes>>

-----------------------------------------------------------------------------
\* The process dies; a record that was being written may be in the log.
Crash ==
    /\ phase \in {"running", "persisting", "waiting"}
    /\ crashes < MaxCrashes
    /\ crashes' = crashes + 1
    /\ phase' = "down"
    /\ recorded' \in IF phase = "persisting" THEN BOOLEAN ELSE {recorded}
    /\ UNCHANGED <<config, clockVars, attempts, loopVars, retryVars,
                   timerVars>>

\* reconcile_running_jobs: a lost execution is retried as of now, or is dead.
ReconcileRunning ==
    /\ phase = "down"
    /\ ~recorded
    /\ IF attempts < MaxAttempts
       THEN /\ delay' = 0
            /\ failedAt' = now
            /\ skewAt' = Skew
            /\ availableAt' = Millis(wall)
            /\ recorded' = TRUE
            /\ UNCHANGED phase
       ELSE /\ phase' = "ended"
            /\ UNCHANGED <<retryVars, recorded>>
    /\ UNCHANGED <<config, clockVars, attempts, loopVars, timerVars, crashes>>

\* Mutants of Remaining: the whole delay starts again; none of it is kept.
WholeDelayAgain == Millis(delay)
NoDelayLeft == 0

\* Milliseconds left on the wall clock, none if the time has passed.
Remaining == Greatest(availableAt - Millis(wall), 0)

\* Coordinator::with_rng_and_recovery sets the timer of a recovered retry.
RecoverTimer ==
    /\ phase = "down"
    /\ recorded
    /\ timer' = now + Remaining * Milli
    /\ setAt' = now
    /\ recovered' = TRUE
    /\ skewSet' = Skew
    /\ phase' = "waiting"
    /\ UNCHANGED <<config, clockVars, attempts, loopVars, retryVars, recorded,
                   crashes>>

-----------------------------------------------------------------------------
TimePasses ==
    /\ \E t \in Pauses :
          /\ now + t <= MaxTime
          /\ now' = now + t
          /\ wall' = wall + t
    /\ phase \notin {"backoff", "ended"}
    /\ UNCHANGED <<config, phase, attempts, loopVars, retryVars, recorded,
                   timerVars, crashes>>

\* Somebody sets the wall clock, backward or forward.
ClockSet ==
    /\ phase \notin {"backoff", "ended"}
    /\ wall' \in WallTimes
    /\ UNCHANGED <<config, now, phase, attempts, loopVars, retryVars,
                   recorded, timerVars, crashes>>

Next ==
    \/ CapForAttempt
    \/ DoubleBackoff
    \/ ScheduleRetry
    \/ EndJob
    \/ SetTimer
    \/ RunAgain
    \/ Crash
    \/ ReconcileRunning
    \/ RecoverTimer
    \/ TimePasses
    \/ ClockSet

Spec == Init /\ [][Next]_vars

-----------------------------------------------------------------------------
\* How far the wall clock was set ahead, or back, between the moment the retry
\* was scheduled and the moment recovery read the clock again.
SetAhead == IF recovered THEN Greatest(skewSet - skewAt, 0) ELSE 0
SetBack == IF recovered THEN Greatest(skewAt - skewSet, 0) ELSE 0

\* Two to the power n.
PowerOfTwo[n \in Nat] == IF n = 0 THEN 1 ELSE 2 * PowerOfTwo[n - 1]

\* base_delay doubled for each earlier attempt, but never above max_delay: the
\* delay is exactly this without jitter and at most this with it, however the
\* multiplication saturates and however often the job was recovered.
DelayIsBackoff ==
    phase = "persisting" =>
        LET doublings == Least(attempts - 1, MaxExponent)
            cap == Least(config.base * PowerOfTwo[doublings], config.max)
        IN IF config.full THEN delay \in 0 .. cap ELSE delay = cap

\* A retry never comes two milliseconds or more before its delay is over, over
\* any number of crashes, although available_at is cut to milliseconds twice and
\* a restart computes from another clock.  Only setting the wall clock ahead
\* brings it nearer; setting it back never does.
NeverEarly ==
    phase = "waiting" => timer > failedAt + delay - 2 * Milli - SetAhead

\* Nor does a restart stretch the delay: a recovered timer ends within a
\* millisecond after it, or at once when it is over already.  Only setting the
\* wall clock back makes it longer.  Without a restart the delay counts from
\* the moment persist returned.
NotLate ==
    phase = "waiting" =>
        \/ timer <= setAt
        \/ timer < (IF recovered THEN failedAt ELSE setAt)
                      + delay + Milli + SetBack
=============================================================================
