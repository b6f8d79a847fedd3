---------------------------- MODULE RetryProofs ----------------------------
(***************************************************************************)
(* Theorems about RetryTime: the delay stays within its limits, and a      *)
(* restart moves a retry by less than two milliseconds, for every          *)
(* configuration, every duration and every way the clocks move.            *)
(***************************************************************************)
EXTENDS RetryTime, TLAPS, WellFoundedInduction

Phase == {"running", "backoff", "persisting", "waiting", "down", "ended"}

TypeInv ==
    /\ config \in RetryConfig
    /\ Validate(config)
    /\ now \in Nat
    /\ wall \in Nat
    /\ phase \in Phase
    /\ attempts \in Nat \ {0}
    /\ rounds \in Nat
    /\ backoff \in Nat
    /\ delay \in Nat
    /\ failedAt \in Nat
    /\ skewAt \in Int
    /\ availableAt \in Nat
    /\ recorded \in BOOLEAN
    /\ timer \in Nat
    /\ setAt \in Nat
    /\ recovered \in BOOLEAN
    /\ skewSet \in Int

\* Once a delay is chosen, and as long as it counts, available_at is what the
\* two clocks said when it was chosen.
Scheduled ==
    /\ phase = "waiting" => recorded
    /\ phase = "persisting" \/ recorded =>
          /\ failedAt + skewAt \in Nat
          /\ availableAt = Millis(failedAt + skewAt) + Millis(delay)

\* A delay without jitter is never shorter than base_delay; none is longer than
\* max_delay.
DelayInv ==
    /\ phase = "backoff" => config.base <= backoff /\ backoff <= config.max
    /\ phase = "persisting" => delay <= config.max
    /\ phase = "persisting" /\ ~config.full => config.base <= delay

\* The delay of a record that is being written was chosen before.
Fresh == phase = "persisting" => failedAt <= now

IInv == TypeInv /\ Scheduled /\ Fresh /\ DelayInv /\ NeverEarly /\ NotLate

-----------------------------------------------------------------------------
\* Induction over the natural numbers, said of sets.

\* A set of numbers has a least element.
LEMMA NatMin ==
    ASSUME NEW T \in SUBSET Nat, T # {}
    PROVE  \E n \in T : \A m \in T : n <= m
<1> DEFINE R == OpToRel(<, Nat)
<1>1. IsWellFoundedOn(R, Nat)
  BY NatLessThanWellFounded, Zenon
<1>2. \A x, y \in Nat : x < y => <<x, y>> \in R
  BY DEF OpToRel
<1> HIDE DEF R
<1>3. PICK n \in T : \A m \in T : ~(<<m, n>> \in R)
  BY <1>1, WFMin, Zenon
<1>4. ASSUME NEW m \in T PROVE n <= m
  <2>1. m \in Nat /\ n \in Nat /\ ~(<<m, n>> \in R)
    BY <1>3
  <2>2. ~(m < n)
    BY <1>2, <2>1, Zenon
  <2> QED BY <2>1, <2>2
<1> QED BY <1>4

\* Induction over the naturals, with a set for the predicate.
LEMMA SetInduction ==
    ASSUME NEW S, 0 \in S, \A n \in Nat : n \in S => n + 1 \in S
    PROVE  \A n \in Nat : n \in S
<1> SUFFICES ASSUME Nat \ S # {} PROVE FALSE
  OBVIOUS
<1>1. PICK n \in Nat \ S : \A m \in Nat \ S : n <= m
  BY NatMin, Zenon
<1>2. n # 0
  OBVIOUS
<1>3. n - 1 \in Nat /\ n - 1 \in S
  BY <1>1, <1>2
<1> QED BY <1>1, <1>3

\* p holds the powers of two up to the n-th.
IsPowers(p, n) == p = [i \in 0 .. n |-> IF i = 0 THEN 1 ELSE 2 * p[i - 1]]

\* There is such a function for every n,
LEMMA PowersExist ==
    ASSUME NEW n \in Nat
    PROVE  \E p : IsPowers(p, n)
<1> DEFINE S == {m \in Nat : \E p : IsPowers(p, m)}
<1>1. 0 \in S
  <2> DEFINE p == [i \in 0 .. 0 |-> 1]
  <2>1. IsPowers(p, 0)
    BY DEF IsPowers
  <2> HIDE DEF p
  <2> QED BY <2>1
<1>2. ASSUME NEW m \in Nat, m \in S PROVE m + 1 \in S
  <2>1. PICK p : IsPowers(p, m)
    BY <1>2
  <2> DEFINE q == [i \in 0 .. m + 1 |-> IF i = m + 1 THEN 2 * p[m] ELSE p[i]]
  <2>2. \A i \in 0 .. m : p[i] = IF i = 0 THEN 1 ELSE 2 * p[i - 1]
    BY <2>1 DEF IsPowers
  <2>3. (\A i \in 0 .. m : q[i] = p[i]) /\ q[m + 1] = 2 * p[m]
    BY <1>2
  <2>4. q = [i \in 0 .. m + 1 |-> q[i]]
    OBVIOUS
  <2> HIDE DEF q
  <2>5. ASSUME NEW i \in 0 .. m + 1
        PROVE  q[i] = IF i = 0 THEN 1 ELSE 2 * q[i - 1]
    <3>1. CASE i \in 0 .. m
      <4>1. i = 0 \/ q[i - 1] = p[i - 1]
        BY <2>3, <3>1
      <4> QED BY <2>2, <2>3, <3>1, <4>1
    <3>2. CASE i = m + 1
      <4>1. i # 0 /\ i - 1 = m /\ q[m] = p[m]
        BY <2>3, <3>2
      <4> QED BY <2>3, <3>2, <4>1
    <3> QED BY <3>1, <3>2
  <2>6. IsPowers(q, m + 1)
    BY <2>4, <2>5, Zenon DEF IsPowers
  <2> QED BY <2>6
<1> HIDE DEF S
<1>3. n \in S
  BY <1>1, <1>2, SetInduction
<1> QED BY <1>3 DEF S

\* and two of them agree where both are defined.
LEMMA PowersAgree ==
    ASSUME NEW n \in Nat, NEW m \in Nat, NEW p, NEW q, IsPowers(p, n), IsPowers(q, m),
           NEW k \in Nat, k <= n, k <= m
    PROVE  p[k] = q[k]
<1> DEFINE S == {i \in Nat : i <= k => p[i] = q[i]}
<1>1. /\ \A i \in 0 .. n : p[i] = IF i = 0 THEN 1 ELSE 2 * p[i - 1]
      /\ \A i \in 0 .. m : q[i] = IF i = 0 THEN 1 ELSE 2 * q[i - 1]
  BY SMTT(30) DEF IsPowers
<1>2. 0 \in S
  BY <1>1
<1>3. ASSUME NEW i \in Nat, i \in S PROVE i + 1 \in S
  <2> SUFFICES ASSUME i + 1 <= k PROVE p[i + 1] = q[i + 1]
    OBVIOUS
  <2>1. /\ i + 1 \in 0 .. n /\ i + 1 \in 0 .. m
        /\ i + 1 # 0 /\ (i + 1) - 1 = i
    OBVIOUS
  <2>2. p[i] = q[i]
    BY <1>3
  <2> HIDE DEF S
  <2>3. p[i + 1] = 2 * p[i] /\ q[i + 1] = 2 * q[i]
    BY <1>1, <2>1
  <2> QED BY <2>2, <2>3
<1> HIDE DEF S
<1>4. k \in S
  BY <1>2, <1>3, SetInduction
<1> QED BY <1>4 DEF S

\* PowerOfTwo satisfies its equation,
LEMMA PowerIs ==
    \A n \in Nat : PowerOfTwo[n] = IF n = 0 THEN 1 ELSE 2 * PowerOfTwo[n - 1]
<1> DEFINE Upto(n) == CHOOSE p : IsPowers(p, n)
           f == [n \in Nat |-> Upto(n)[n]]
<1>1. ASSUME NEW n \in Nat PROVE IsPowers(Upto(n), n)
  BY PowersExist, Zenon
<1>2. ASSUME NEW n \in Nat PROVE f[n] = IF n = 0 THEN 1 ELSE 2 * f[n - 1]
  <2>1. f[n] = Upto(n)[n]
    BY Zenon
  <2>2. CASE n = 0
    <3>1. IsPowers(Upto(0), 0)
      BY <1>1, <2>2
    <3> HIDE DEF Upto
    <3>2. Upto(0)[0] = 1
      BY <3>1 DEF IsPowers
    <3> QED BY <2>1, <2>2, <3>2
  <2>3. CASE n # 0
    <3>1. n - 1 \in Nat
      BY <2>3
    <3>2. f[n - 1] = Upto(n - 1)[n - 1]
      BY <3>1, Zenon
    <3>3. IsPowers(Upto(n), n) /\ IsPowers(Upto(n - 1), n - 1)
      BY <1>1, <3>1, Zenon
    <3> HIDE DEF Upto, f
    <3>4. n - 1 <= n /\ n - 1 <= n - 1
      BY <3>1
    <3>5. Upto(n)[n - 1] = Upto(n - 1)[n - 1]
      BY <3>1, <3>3, <3>4, PowersAgree
    <3>6. Upto(n)[n] = 2 * Upto(n)[n - 1]
      BY <2>3, <3>3 DEF IsPowers
    <3> QED BY <2>1, <2>3, <3>2, <3>5, <3>6
  <2> QED BY <2>2, <2>3
<1>3. f = [n \in Nat |-> f[n]]
  OBVIOUS
<1> HIDE DEF f
<1>4. f = [n \in Nat |-> IF n = 0 THEN 1 ELSE 2 * f[n - 1]]
  BY <1>2, <1>3, Zenon
<1>5. PowerOfTwo = [n \in Nat |-> IF n = 0 THEN 1 ELSE 2 * PowerOfTwo[n - 1]]
  BY <1>4, Zenon DEF PowerOfTwo
<1> QED BY <1>5, Zenon

\* and is at least one.
LEMMA PowerType ==
    ASSUME NEW n \in Nat
    PROVE  PowerOfTwo[n] \in Nat \ {0}
<1> DEFINE S == {m \in Nat : PowerOfTwo[m] \in Nat \ {0}}
<1>1. 0 \in S
  BY PowerIs
<1>2. ASSUME NEW m \in Nat, m \in S PROVE m + 1 \in S
  <2>1. m + 1 \in Nat /\ m + 1 # 0 /\ (m + 1) - 1 = m
    OBVIOUS
  <2>2. PowerOfTwo[m + 1] = 2 * PowerOfTwo[m]
    BY <2>1, PowerIs
  <2> QED BY <1>2, <2>1, <2>2
<1> HIDE DEF S
<1>3. n \in S
  BY <1>1, <1>2, SetInduction
<1> QED BY <1>3 DEF S

-----------------------------------------------------------------------------
\* Cutting to milliseconds loses less than one.
LEMMA MillisBounds ==
    ASSUME NEW t \in Nat
    PROVE  /\ Millis(t) \in Nat
           /\ Milli * Millis(t) <= t
           /\ t < Milli * Millis(t) + Milli
BY SMT DEF Millis, Milli

\* The jitter yields a duration, and none above the cap.
LEMMA DelayBounded ==
    ASSUME TypeInv, NEW cap \in Nat, NEW d \in DelayWithRng(cap)
    PROVE  /\ d \in Nat
           /\ d <= cap
           /\ ~config.full => d = cap
<1>1. CASE ~config.full
  BY <1>1 DEF DelayWithRng
<1>2. CASE config.full /\ cap <= MaxNanos
  BY <1>2, RetryAssumption DEF DelayWithRng
<1>3. CASE config.full /\ ~(cap <= MaxNanos)
  <2> DEFINE scale == cap \div MaxNanos
  <2>1. scale \in Nat
    BY RetryAssumption
  <2>2. PICK s \in {r \in Samples : r <= MaxNanos} \cup {0, MaxNanos} :
            d = Least(Least(s * scale, cap), MaxNanos)
    BY <1>3 DEF DelayWithRng
  <2>3. s \in Nat /\ MaxNanos \in Nat
    BY RetryAssumption
  <2>4. s * scale \in Nat
    BY <2>1, <2>3
  <2> HIDE DEF scale
  <2>5. QED
    BY <1>3, <2>2, <2>3, <2>4 DEF Least
<1>4. QED
  BY <1>1, <1>2, <1>3

\* A job that runs starts the invariant.
LEMMA InitInv == Init => IInv
<1> SUFFICES ASSUME Init PROVE IInv
  OBVIOUS
<1>1. config \in RetryConfig /\ Validate(config)
  BY DEF Init
<1>2. wall \in Nat /\ wall \in Int /\ 0 \in Nat /\ 1 \in Nat \ {0}
  BY RetryAssumption DEF Init
<1>3. TypeInv
  BY <1>1, <1>2, Zenon DEF Init, TypeInv, Phase
<1>4. QED
  BY <1>3 DEF Init, IInv, Scheduled, DelayInv, Fresh, NeverEarly, NotLate

-----------------------------------------------------------------------------
\* schedule_retry builds the record.
LEMMA ScheduleInv == IInv /\ ScheduleRetry => IInv'
<1> SUFFICES ASSUME IInv, ScheduleRetry PROVE IInv'
  OBVIOUS
<1> DEFINE cap == Least(backoff, config.max)
<1>1. TypeInv /\ config.max \in Nat /\ config.base \in Nat
  BY Zenon, RetryAssumption DEF IInv, TypeInv, RetryConfig
<1>2. cap \in Nat /\ cap <= config.max /\ config.base <= cap
  BY <1>1 DEF IInv, DelayInv, Least, TypeInv, Validate, ScheduleRetry
<1>3. PICK d \in DelayWithRng(cap) :
         /\ delay' = d
         /\ availableAt' = Millis(wall) + Millis(d)
  BY DEF ScheduleRetry
<1> HIDE DEF cap
<1>4. d \in Nat /\ d <= cap /\ (~config.full => d = cap)
  BY <1>1, <1>2, DelayBounded
<1>5. Millis(d) \in Nat /\ Millis(wall) \in Nat
  BY <1>1, <1>4, MillisBounds, SMTT(30) DEF TypeInv
<1>6. TypeInv'
  BY <1>1, <1>3, <1>4, <1>5 DEF TypeInv, ScheduleRetry, Skew, Phase, clockVars,
                                  timerVars
<1>7. failedAt' + skewAt' = wall
  BY <1>1 DEF ScheduleRetry, Skew, TypeInv
<1>8. Scheduled'
  BY <1>1, <1>3, <1>7, <1>5, <1>4 DEF Scheduled, ScheduleRetry, TypeInv
<1>9. DelayInv'
  BY <1>1, <1>2, <1>3, <1>4 DEF DelayInv, ScheduleRetry
<1>10. QED
  BY <1>1, <1>6, <1>8, <1>9
  DEF IInv, TypeInv, Fresh, NeverEarly, NotLate, ScheduleRetry, clockVars

\* The timer of a live retry.
LEMMA SetTimerInv == IInv /\ SetTimer => IInv'
<1> SUFFICES ASSUME IInv, SetTimer PROVE IInv'
  OBVIOUS
<1>1. now + delay \in Nat /\ wall - now \in Int
  BY DEF IInv, TypeInv
<1>2. TypeInv' /\ Scheduled' /\ DelayInv' /\ Fresh'
  BY <1>1, Zenon DEF IInv, TypeInv, Scheduled, DelayInv, Fresh, SetTimer, LiveTimer, Skew,
              Phase, retryVars, loopVars, clockVars
<1>3. NeverEarly'
  BY SMT, <1>1
  DEF IInv, TypeInv, Fresh, NeverEarly, SetTimer, LiveTimer, SetAhead, Milli, retryVars,
      clockVars
<1>4. NotLate'
  BY SMT, <1>1
  DEF IInv, TypeInv, NotLate, SetTimer, LiveTimer, SetBack, Milli, retryVars, clockVars
<1>5. QED
  BY <1>2, <1>3, <1>4 DEF IInv

\* reconcile_running_jobs.
LEMMA ReconcileInv == IInv /\ ReconcileRunning => IInv'
<1> SUFFICES ASSUME IInv, ReconcileRunning PROVE IInv'
  OBVIOUS
<1>1. TypeInv /\ wall \in Nat /\ now \in Nat
  BY DEF IInv, TypeInv
<1>2. Millis(wall) \in Nat /\ Millis(0) = 0
  BY SMTT(30), <1>1 DEF Millis, Milli
<1>3. CASE attempts < MaxAttempts
  <2>1. /\ delay' = 0
        /\ failedAt' = now
        /\ skewAt' = wall - now
        /\ availableAt' = Millis(wall)
        /\ recorded' = TRUE
        /\ phase = "down"
        /\ UNCHANGED <<config, now, wall, attempts, rounds, backoff, timer, setAt,
                       recovered, skewSet, phase>>
    BY <1>3 DEF ReconcileRunning, Skew, timerVars, loopVars, clockVars
  <2>2. TypeInv'
    BY <1>1, <1>2, <2>1 DEF TypeInv
  <2>3. failedAt' + skewAt' = wall
    BY <1>1, <2>1
  <2>4. QED
    BY <1>1, <1>2, <2>1, <2>2, <2>3, SMTT(30)
    DEF IInv, Scheduled, DelayInv, Fresh, NeverEarly, NotLate
<1>4. CASE ~(attempts < MaxAttempts)
  <2>1. /\ phase' = "ended"
        /\ recorded' = FALSE
        /\ UNCHANGED <<config, now, wall, attempts, rounds, backoff, timer, setAt,
                       recovered, skewSet, delay, failedAt, skewAt, availableAt>>
    BY <1>4 DEF ReconcileRunning, Skew, timerVars, loopVars, clockVars, retryVars
  <2>2. QED
    BY <1>1, <2>1, Zenon
    DEF IInv, TypeInv, Phase, Scheduled, DelayInv, Fresh, NeverEarly, NotLate
<1>5. QED
  BY <1>3, <1>4

\* The timer of a recovered retry: each of the three cuts to milliseconds moves
\* it by less than one.
LEMMA RecoverTimerInv == IInv /\ RecoverTimer => IInv'
<1> SUFFICES ASSUME IInv, RecoverTimer PROVE IInv'
  OBVIOUS
<1> DEFINE at == failedAt + skewAt
           left == Greatest(availableAt - Millis(wall), 0)
<1>1. TypeInv /\ at \in Nat /\ availableAt = Millis(at) + Millis(delay)
  BY DEF IInv, Scheduled, RecoverTimer
<1>2. /\ now \in Nat /\ wall \in Nat /\ delay \in Nat /\ failedAt \in Nat
      /\ skewAt \in Int
  BY <1>1 DEF TypeInv
<1>3. /\ timer' = now + left * Milli
      /\ setAt' = now
      /\ recovered' = TRUE
      /\ skewSet' = wall - now
      /\ phase' = "waiting"
      /\ recorded
      /\ UNCHANGED <<config, now, wall, attempts, rounds, backoff, delay, failedAt,
                     skewAt, availableAt, recorded>>
  BY DEF RecoverTimer, Remaining, Skew, clockVars, loopVars, retryVars
<1>4. /\ Millis(at) \in Nat /\ Milli * Millis(at) <= at
      /\ at < Milli * Millis(at) + Milli
  BY <1>1, MillisBounds
<1>5. /\ Millis(wall) \in Nat /\ Milli * Millis(wall) <= wall
      /\ wall < Milli * Millis(wall) + Milli
  BY <1>2, MillisBounds
<1>6. /\ Millis(delay) \in Nat /\ Milli * Millis(delay) <= delay
      /\ delay < Milli * Millis(delay) + Milli
  BY <1>2, MillisBounds
<1>7. /\ left \in Nat
      /\ left >= Millis(at) + Millis(delay) - Millis(wall)
      /\ left = 0 \/ left = Millis(at) + Millis(delay) - Millis(wall)
  BY <1>1, <1>4, <1>5, <1>6, SMTT(30) DEF Greatest
<1> HIDE DEF left
<1>8. TypeInv'
  BY SMTT(30), <1>1, <1>2, <1>3, <1>7 DEF TypeInv, Phase, Milli
<1>9. Scheduled' /\ DelayInv' /\ Fresh'
  BY <1>3 DEF IInv, Scheduled, DelayInv, Fresh
<1>10. left * Milli > failedAt + delay - 2 * Milli - (wall - now - skewAt) - now
  BY SMTT(30), <1>2, <1>4, <1>5, <1>6, <1>7 DEF Milli
<1>11. NeverEarly'
  BY SMTT(30), <1>2, <1>3, <1>7, <1>10 DEF NeverEarly, SetAhead, Greatest, Milli
<1>12. \/ left = 0
       \/ left * Milli < failedAt + delay + Milli + (skewAt - (wall - now)) - now
  BY SMTT(30), <1>2, <1>4, <1>5, <1>6, <1>7 DEF Milli
<1>13. NotLate'
  BY SMT, <1>2, <1>3, <1>7, <1>12 DEF NotLate, SetBack, Greatest, Milli
<1>14. QED
  BY <1>8, <1>9, <1>11, <1>13 DEF IInv

\* Every other step leaves the timer of a waiting retry alone.
LEMMA OtherInv ==
    ASSUME IInv,
           \/ CapForAttempt \/ DoubleBackoff \/ EndJob \/ RunAgain \/ Crash
           \/ TimePasses \/ ClockSet \/ UNCHANGED vars
    PROVE  IInv'
<1> USE DEF clockVars, loopVars, retryVars, timerVars
<1>1. CASE CapForAttempt
  <2>1. Exponent \in Nat
    BY RetryAssumption DEF Exponent, Least, Greatest, IInv, TypeInv
  <2>2. config.base \in Nat /\ config.max \in Nat
    BY Zenon, RetryAssumption DEF IInv, TypeInv, RetryConfig
  <2>3. TypeInv'
    BY <1>1, <2>1, <2>2, SMTT(30) DEF IInv, TypeInv, CapForAttempt, Phase
  <2>4. DelayInv'
    BY <1>1, <2>2, SMTT(30) DEF IInv, TypeInv, DelayInv, Validate, CapForAttempt
  <2>5. QED
    BY <1>1, <2>3, <2>4 DEF IInv, Scheduled, Fresh, NeverEarly, NotLate, CapForAttempt
<1>2. CASE DoubleBackoff
  <2>1. config.base \in Nat /\ config.max \in Nat /\ backoff \in Nat /\ rounds \in Nat
    BY Zenon, RetryAssumption DEF IInv, TypeInv, RetryConfig
  <2>2. /\ config.base <= config.max
        /\ config.base <= backoff
        /\ backoff <= config.max
    BY <1>2, SMTT(30) DEF IInv, TypeInv, Validate, DelayInv, DoubleBackoff
  <2>3. /\ backoff' \in Nat
        /\ rounds' \in Nat
        /\ config.base <= backoff'
        /\ backoff' <= config.max
    <3>1. Doubled(backoff) \in Nat /\ backoff <= Doubled(backoff)
      <4>1. config.max <= MaxDuration
        BY Zenon, RetryAssumption DEF IInv, TypeInv, RetryConfig
      <4>2. QED
        BY <2>1, <2>2, <4>1, RetryAssumption DEF Doubled, Least
    <3>2. QED
      BY <1>2, <2>1, <2>2, <3>1, SMTT(30) DEF DoubleBackoff
  <2>4. /\ phase = "backoff"
        /\ UNCHANGED <<config, now, wall, phase, attempts, delay, failedAt, skewAt,
                       availableAt, recorded, timer, setAt, recovered, skewSet>>
    BY <1>2, SMTT(30) DEF DoubleBackoff
  <2>5. QED
    BY <2>3, <2>4
    DEF IInv, TypeInv, Scheduled, Fresh, DelayInv, NeverEarly, NotLate
<1>3. CASE EndJob
  BY <1>3 DEF IInv, TypeInv, Phase, Scheduled, Fresh, DelayInv, NeverEarly, NotLate,
              EndJob
<1>4. CASE RunAgain
  <2>1. attempts + 1 \in Nat \ {0}
    BY SMTT(30) DEF IInv, TypeInv
  <2>2. QED
    BY <1>4, <2>1, Zenon DEF IInv, TypeInv, Phase, Scheduled, Fresh, DelayInv, NeverEarly,
                      NotLate, RunAgain
<1>5. CASE Crash
  <2>1. /\ phase' = "down"
        /\ recorded' \in BOOLEAN
        /\ recorded' => recorded \/ phase = "persisting"
        /\ UNCHANGED <<config, now, wall, attempts, rounds, backoff, delay, failedAt,
                       skewAt, availableAt, timer, setAt, recovered, skewSet>>
    BY <1>5 DEF Crash, IInv, TypeInv
  <2>2. QED
    BY <2>1, SMTT(30)
    DEF IInv, TypeInv, Phase, Scheduled, Fresh, DelayInv, NeverEarly, NotLate
<1>6. CASE TimePasses \/ ClockSet \/ UNCHANGED vars
  <2>1. UNCHANGED <<config, phase, attempts, rounds, backoff, delay, failedAt, skewAt,
                    availableAt, recorded, timer, setAt, recovered, skewSet>>
    BY <1>6 DEF TimePasses, ClockSet, vars
  <2>2. now \in Nat /\ wall \in Nat /\ failedAt \in Nat
    BY DEF IInv, TypeInv
  <2>3. now' \in Nat /\ wall' \in Nat /\ now <= now'
    <3>1. CASE TimePasses
      <4>1. PICK t \in Pauses : now' = now + t /\ wall' = wall + t
        BY <3>1 DEF TimePasses
      <4>2. t \in Nat
        BY RetryAssumption
      <4>3. QED
        BY <2>2, <4>1, <4>2
    <3>2. CASE ClockSet
      BY <2>2, <3>2, RetryAssumption DEF ClockSet
    <3>3. CASE UNCHANGED vars
      BY <2>2, <3>3 DEF vars
    <3>4. QED
      BY <1>6, <3>1, <3>2, <3>3
  <2>4. Fresh'
    BY <2>1, <2>2, <2>3, SMTT(30) DEF IInv, Fresh
  <2>5. TypeInv' /\ Scheduled' /\ DelayInv'
    BY <2>1, <2>3 DEF IInv, TypeInv, Scheduled, DelayInv
  <2>6. SetAhead' = SetAhead /\ SetBack' = SetBack
    BY <2>1, SMTT(30) DEF SetAhead, SetBack
  <2>7. NeverEarly' /\ NotLate'
    BY <2>1, <2>6 DEF IInv, NeverEarly, NotLate
  <2>8. QED
    BY <2>4, <2>5, <2>7, SMTT(30) DEF IInv
<1>7. QED
  BY <1>1, <1>2, <1>3, <1>4, <1>5, <1>6, SMTT(30)

\* Every step keeps it.
LEMMA StepInv == IInv /\ [Next]_vars => IInv'
BY ScheduleInv, SetTimerInv, ReconcileInv, RecoverTimerInv, OtherInv DEF Next

\* The inductive invariant of RetryTime.
LEMMA Invariant == Spec => []IInv
BY InitInv, StepInv, PTL DEF Spec

-----------------------------------------------------------------------------
\* What cap_for_attempt should return.
Cap == Least(config.base * PowerOfTwo[Least(attempts - 1, MaxExponent)], config.max)

\* In each iteration the doublings that are left bring the value to the cap.
Doubling ==
    phase = "backoff" => Least(backoff * PowerOfTwo[rounds], config.max) = Cap

\* The numbers Cap is made of.
LEMMA CapTypes ==
    ASSUME TypeInv
    PROVE  /\ config.base \in Nat \ {0} /\ config.max \in Nat /\ config.max <= MaxDuration
           /\ MaxDuration \in Nat /\ backoff \in Nat /\ rounds \in Nat
           /\ Exponent \in Nat /\ Exponent = Least(attempts - 1, MaxExponent)
<1>1. config.base \in Nat /\ config.max \in Nat /\ config.max <= MaxDuration
  BY Zenon, RetryAssumption DEF TypeInv, RetryConfig
<1>2. config.base # 0
  BY <1>1 DEF TypeInv, Validate
<1>3. Exponent \in Nat /\ Exponent = Least(attempts - 1, MaxExponent)
  BY RetryAssumption DEF TypeInv, Exponent, Least, Greatest
<1> QED BY <1>1, <1>2, <1>3, RetryAssumption DEF TypeInv

\* One iteration keeps what the rest of the loop will return, also when it stops
\* early or the multiplication saturates.
LEMMA DoubleOnce ==
    ASSUME TypeInv, DoubleBackoff
    PROVE  Least(backoff' * PowerOfTwo[rounds'], config.max)
              = Least(backoff * PowerOfTwo[rounds], config.max)
<1>1. /\ config.max \in Nat /\ config.max <= MaxDuration /\ MaxDuration \in Nat
      /\ backoff \in Nat /\ rounds \in Nat
  BY CapTypes
<1>2. rounds # 0 /\ rounds - 1 \in Nat
  BY <1>1 DEF DoubleBackoff
<1> DEFINE p == PowerOfTwo[rounds - 1]
<1>3. p \in Nat /\ p >= 1
  BY <1>2, PowerType
<1>4. PowerOfTwo[rounds] = 2 * p
  BY <1>1, <1>2, PowerIs
<1>5. PowerOfTwo[0] = 1
  BY PowerIs
<1>6. CASE Doubled(backoff) >= config.max
  <2>1. backoff' = config.max /\ rounds' = 0
    BY <1>6 DEF DoubleBackoff
  <2>2. 2 * backoff >= config.max
    BY <1>1, <1>6 DEF Doubled, Least
  <2> HIDE DEF p
  <2>3. backoff * (2 * p) \in Nat /\ backoff * (2 * p) >= 2 * backoff
    BY <1>1, <1>3
  <2>4. Least(backoff * (2 * p), config.max) = config.max
    BY <1>1, <2>2, <2>3 DEF Least
  <2>5. Least(config.max * 1, config.max) = config.max
    BY <1>1 DEF Least
  <2> QED BY <1>4, <1>5, <2>1, <2>4, <2>5
<1>7. CASE ~(Doubled(backoff) >= config.max)
  <2>1. backoff' = 2 * backoff /\ rounds' = rounds - 1
    BY <1>1, <1>7 DEF DoubleBackoff, Doubled, Least
  <2> HIDE DEF p
  <2>2. (2 * backoff) * p = backoff * (2 * p)
    BY <1>1, <1>3
  <2> QED BY <1>4, <2>1, <2>2, SMTT(30) DEF p
<1> QED BY <1>6, <1>7

\* Doubling and DelayIsBackoff are kept together.
LEMMA BackoffStep ==
    IInv /\ Doubling /\ DelayIsBackoff /\ [Next]_vars => Doubling' /\ DelayIsBackoff'
<1> SUFFICES ASSUME IInv, Doubling, DelayIsBackoff, [Next]_vars
             PROVE  Doubling' /\ DelayIsBackoff'
  OBVIOUS
<1>t. TypeInv
  BY DEF IInv
<1>c. DelayIsBackoff <=>
        (phase = "persisting" => IF config.full THEN delay \in 0 .. Cap ELSE delay = Cap)
  BY Zenon DEF DelayIsBackoff, Cap
<1>d. DelayIsBackoff' <=>
        (phase' = "persisting" =>
            IF config'.full THEN delay' \in 0 .. Cap' ELSE delay' = Cap')
  BY Zenon DEF DelayIsBackoff, Cap
<1>1. CASE CapForAttempt
  <2>1. /\ phase' = "backoff" /\ backoff' = config.base /\ rounds' = Exponent
        /\ config' = config /\ attempts' = attempts
    BY <1>1, SMTT(30) DEF CapForAttempt
  <2>2. Cap' = Least(config.base * PowerOfTwo[Exponent], config.max)
    BY <1>t, <2>1, CapTypes DEF Cap
  <2> QED BY <1>d, <2>1, <2>2 DEF Doubling
<1>2. CASE DoubleBackoff
  <2>1. /\ phase = "backoff" /\ phase' = "backoff"
        /\ config' = config /\ attempts' = attempts
    BY <1>2 DEF DoubleBackoff
  <2>2. Cap' = Cap
    BY <2>1 DEF Cap
  <2>3. Doubling'
    BY <1>2, <1>t, <2>1, <2>2, DoubleOnce, SMTT(30) DEF Doubling
  <2> QED BY <1>d, <2>1, <2>3, SMTT(30)
<1>3. CASE ScheduleRetry
  <2>1. /\ phase = "backoff" /\ phase' = "persisting" /\ rounds = 0
        /\ config' = config /\ attempts' = attempts
    BY <1>3 DEF ScheduleRetry
  <2>2. Cap' = Cap
    BY <2>1 DEF Cap
  <2>3. Cap = Least(backoff, config.max)
    <3>1. PowerOfTwo[rounds] = 1 /\ backoff \in Nat
      BY <1>t, <2>1, PowerIs, CapTypes
    <3>2. backoff * 1 = backoff
      BY <3>1
    <3> QED BY <2>1, <3>1, <3>2, SMTT(30) DEF Doubling
  <2>4. Cap \in Nat
    BY <1>t, <2>3, CapTypes, SMTT(30) DEF Least
  <2>5. delay' \in DelayWithRng(Cap)
    BY <1>3, <2>3 DEF ScheduleRetry
  <2>6. delay' \in Nat /\ delay' <= Cap /\ (~config.full => delay' = Cap)
    BY <1>t, <2>4, <2>5, DelayBounded, SMTT(30)
  <2>7. IF config'.full THEN delay' \in 0 .. Cap' ELSE delay' = Cap'
    BY <2>1, <2>2, <2>4, <2>6, SMTT(30)
  <2> QED BY <1>d, <2>1, <2>7, SMTT(30) DEF Doubling
<1>4. CASE UNCHANGED <<config, phase, attempts, rounds, backoff, delay>>
  <2>1. Cap' = Cap
    BY <1>4, SMTT(30) DEF Cap
  <2> QED BY <1>c, <1>d, <1>4, <2>1 DEF Doubling
<1>5. CASE phase' \notin {"backoff", "persisting"}
  BY <1>d, <1>5 DEF Doubling
<1>6. CASE EndJob \/ SetTimer \/ RunAgain \/ Crash \/ RecoverTimer
  <2>1. phase' \notin {"backoff", "persisting"}
    BY <1>6, SMTT(30) DEF EndJob, SetTimer, RunAgain, Crash, RecoverTimer
  <2> QED BY <1>5, <2>1, SMTT(30)
<1>7. CASE ReconcileRunning
  <2>1. phase' \notin {"backoff", "persisting"}
    BY <1>7 DEF ReconcileRunning
  <2> QED BY <1>5, <2>1
<1>8. CASE TimePasses \/ ClockSet \/ UNCHANGED vars
  <2>1. UNCHANGED <<config, phase, attempts, rounds, backoff, delay>>
    BY <1>8 DEF TimePasses, ClockSet, vars, loopVars, retryVars
  <2> QED BY <1>4, <2>1, SMTT(30)
<1> QED BY <1>1, <1>2, <1>3, <1>6, <1>7, <1>8, SMTT(30) DEF Next

\* cap_for_attempt returns base_delay doubled for each earlier attempt, at most
\* MaxExponent times and never above max_delay, and delay_with_rng no more than
\* that: for every configuration, every saturation limit and any number of
\* attempts and crashes.
THEOREM DelayIsExponential == Spec => []DelayIsBackoff
<1>1. Init => Doubling /\ DelayIsBackoff
  BY DEF Init, Doubling, DelayIsBackoff
<1> QED BY <1>1, BackoffStep, Invariant, PTL DEF Spec

\* No retry is two milliseconds early (schedule_retry and the timers that
\* with_rng_and_recovery sets), whatever the configuration, the durations, the
\* number of crashes and the way the wall clock is set.
THEOREM RetriesAreNeverEarly == Spec => []NeverEarly
BY Invariant, PTL DEF IInv

\* No restart makes a retry later than its delay by a millisecond or more.
THEOREM RetriesAreNotLate == Spec => []NotLate
BY Invariant, PTL DEF IInv

\* A delay chosen by delay_with_rng is never above max_delay and, without jitter,
\* never below base_delay.
THEOREM DelayWithinLimits ==
    Spec => [](phase = "persisting" => /\ delay <= config.max
                                       /\ config.full \/ config.base <= delay)
<1>1. IInv => (phase = "persisting" => /\ delay <= config.max
                                       /\ config.full \/ config.base <= delay)
  BY DEF IInv, DelayInv
<1>2. QED
  BY <1>1, Invariant, PTL
=============================================================================
