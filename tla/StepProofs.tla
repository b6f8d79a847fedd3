----------------------------- MODULE StepProofs -----------------------------
(***************************************************************************)
(* What one step of QueueRuntime does, for every number of jobs, queues    *)
(* and workers and every configuration: the type invariant is kept, a      *)
(* record and the job table change together, and the permits of a queue    *)
(* are accounted for.                                                      *)
(***************************************************************************)
EXTENDS QueueInvariants, TLAPS

-----------------------------------------------------------------------------
\* Operators on sequences.

\* The facts about sequences the proofs use: the length,
LEMMA SeqLen ==
    ASSUME NEW S, NEW s \in Seq(S)
    PROVE  /\ Len(s) \in Nat
           /\ DOMAIN s = 1 .. Len(s)
           /\ s \in [1 .. Len(s) -> S]
           /\ s # <<>> => Len(s) # 0
OBVIOUS

\* its first element and the rest,
LEMMA SeqHeadTail ==
    ASSUME NEW S, NEW s \in Seq(S), s # <<>>
    PROVE  /\ 1 \in DOMAIN s
           /\ Head(s) = s[1]
           /\ Head(s) \in S
           /\ Tail(s) \in Seq(S)
           /\ Len(Tail(s)) = Len(s) - 1
           /\ \A i \in 1 .. Len(Tail(s)) : Tail(s)[i] = s[i + 1]
OBVIOUS

\* what Append adds,
LEMMA SeqAppend ==
    ASSUME NEW S, NEW s \in Seq(S), NEW e \in S
    PROVE  /\ Append(s, e) \in Seq(S)
           /\ Len(Append(s, e)) = Len(s) + 1
           /\ \A i \in 1 .. Len(s) : Append(s, e)[i] = s[i]
           /\ Append(s, e)[Len(s) + 1] = e
OBVIOUS

\* what a slice keeps,
LEMMA SeqSlice ==
    ASSUME NEW S, NEW s \in Seq(S), NEW m \in 1 .. Len(s) + 1, NEW n \in 0 .. Len(s)
    PROVE  /\ SubSeq(s, m, n) \in Seq(S)
           /\ Len(SubSeq(s, m, n)) = IF m <= n THEN n - m + 1 ELSE 0
           /\ \A i \in 1 .. n - m + 1 : SubSeq(s, m, n)[i] = s[m + i - 1]
OBVIOUS

\* and what a concatenation holds.
LEMMA SeqConcat ==
    ASSUME NEW S, NEW s \in Seq(S), NEW t \in Seq(S)
    PROVE  /\ s \o t \in Seq(S)
           /\ Len(s \o t) = Len(s) + Len(t)
           /\ \A i \in 1 .. Len(s) + Len(t) :
                 (s \o t)[i] = IF i <= Len(s) THEN s[i] ELSE t[i - Len(s)]
OBVIOUS

\* Without, which stands for the retain of do_cancel, yields a sequence over the
\* same set.
LEMMA WithoutType ==
    ASSUME NEW S, NEW s \in Seq(S), NEW e
    PROVE  Without(s, e) \in Seq(S)
<1>1. CASE e \in Range(s)
  <2> DEFINE n == CHOOSE i \in DOMAIN s : s[i] = e
  <2>1. n \in 1 .. Len(s)
    <3>1. \E i \in DOMAIN s : s[i] = e
      BY <1>1, Zenon DEF Range
    <3> QED BY <3>1
  <2>2. Without(s, e) = SubSeq(s, 1, n - 1) \o SubSeq(s, n + 1, Len(s))
    BY <1>1, Zenon DEF Without
  <2> HIDE DEF n
  <2>3. \A i \in 1 .. Len(s) : s[i] \in S
    BY SeqLen, Zenon
  <2>4. SubSeq(s, 1, n - 1) \in Seq(S)
    BY <2>1, <2>3, SeqSlice, SMTT(30)
  <2>5. SubSeq(s, n + 1, Len(s)) \in Seq(S)
    BY <2>1, <2>3, SeqSlice, SMTT(30)
  <2> QED BY <2>2, <2>4, <2>5, SeqConcat, Zenon
<1>2. CASE e \notin Range(s)
  BY <1>2, Zenon DEF Without
<1> QED BY <1>1, <1>2, Zenon

\* PushAt, which stands for the heap's push, yields a sequence one longer.
LEMMA PushAtType ==
    ASSUME NEW S, NEW s \in Seq(S), NEW e \in S, NEW i \in 1 .. Len(s) + 1
    PROVE  /\ PushAt(s, i, e) \in Seq(S)
           /\ Len(PushAt(s, i, e)) = Len(s) + 1
<1>1. \A k \in 1 .. Len(s) : s[k] \in S
  BY SeqLen, Zenon
<1>2. /\ SubSeq(s, 1, i - 1) \in Seq(S)
      /\ Len(SubSeq(s, 1, i - 1)) = i - 1
  BY <1>1, SeqSlice, SMTT(30)
<1>3. /\ SubSeq(s, i, Len(s)) \in Seq(S)
      /\ Len(SubSeq(s, i, Len(s))) = Len(s) - i + 1
  BY <1>1, SeqSlice, SMTT(30)
<1>4. <<e>> \in Seq(S) /\ Len(<<e>>) = 1
  OBVIOUS
<1>5. /\ SubSeq(s, 1, i - 1) \o <<e>> \in Seq(S)
      /\ Len(SubSeq(s, 1, i - 1) \o <<e>>) = i
  BY <1>2, <1>4, SeqConcat, SMTT(30)
<1>6. Len(s) \in Nat
  BY SeqLen, Zenon
<1> DEFINE front == SubSeq(s, 1, i - 1) \o <<e>>
           back == SubSeq(s, i, Len(s))
<1>7. PushAt(s, i, e) = front \o back
  BY Zenon DEF PushAt
<1>8. /\ front \in Seq(S) /\ Len(front) = i
      /\ back \in Seq(S) /\ Len(back) = Len(s) - i + 1
  BY <1>3, <1>5, Zenon
<1> HIDE DEF front, back
<1>9. front \o back \in Seq(S) /\ Len(front \o back) = Len(front) + Len(back)
  BY <1>8, SeqConcat, Zenon
<1>10. Len(front \o back) = Len(s) + 1
  BY <1>6, <1>8, <1>9, SMTT(30)
<1> QED BY <1>7, <1>9, <1>10, Zenon

\* t is s without its i-th element.
IsCut(s, t, i) ==
    /\ Len(t) = Len(s) - 1
    /\ \A k \in 1 .. Len(t) : t[k] = IF k < i THEN s[k] ELSE s[k + 1]

\* What t holds stands in the order it has in s.
KeepsOrder(s, t) ==
    \A a, b \in DOMAIN t : a < b =>
        \E c, d \in DOMAIN s : c < d /\ t[a] = s[c] /\ t[b] = s[d]

\* Cutting keeps the order and loses one element.
LEMMA CutSeq ==
    ASSUME NEW S, NEW s \in Seq(S), NEW t \in Seq(S), NEW i \in 1 .. Len(s),
           IsCut(s, t, i), IsInjective(s)
    PROVE  /\ IsInjective(t)
           /\ Range(t) = Range(s) \ {s[i]}
           /\ KeepsOrder(s, t)
<1>1. /\ Len(s) \in Nat /\ DOMAIN s = 1 .. Len(s)
      /\ Len(t) = Len(s) - 1 /\ DOMAIN t = 1 .. Len(t)
      /\ \A k \in DOMAIN t : t[k] = IF k < i THEN s[k] ELSE s[k + 1]
  BY SeqLen, Zenon DEF IsCut
<1> DEFINE at(k) == IF k < i THEN k ELSE k + 1
<1>2. \A k \in DOMAIN t : at(k) \in DOMAIN s /\ at(k) # i /\ t[k] = s[at(k)]
  BY <1>1, SMTT(30)
<1>3. \A a, b \in DOMAIN t : (a < b => at(a) < at(b)) /\ (at(a) = at(b) => a = b)
  BY <1>1, SMTT(30)
<1>4. \A c \in DOMAIN s : c # i => \E k \in DOMAIN t : at(k) = c
  <2> SUFFICES ASSUME NEW c \in DOMAIN s, c # i PROVE \E k \in DOMAIN t : at(k) = c
    BY Zenon
  <2>1. CASE c < i
    <3>1. c \in DOMAIN t /\ at(c) = c
      BY <1>1, <2>1, SMTT(30)
    <3> QED BY <3>1, Zenon
  <2>2. CASE ~(c < i)
    <3>1. c - 1 \in DOMAIN t /\ at(c - 1) = c
      BY <1>1, <2>2, SMTT(30)
    <3> QED BY <3>1, Zenon
  <2> QED BY <2>1, <2>2, Zenon
<1> HIDE DEF at
<1>5. IsInjective(t)
  BY <1>2, <1>3, Zenon DEF IsInjective
<1>6. Range(t) = Range(s) \ {s[i]}
  <2>1. i \in DOMAIN s
    BY <1>1, Zenon
  <2>2. ASSUME NEW x \in Range(t) PROVE x \in Range(s) \ {s[i]}
    <3>1. PICK k \in DOMAIN t : x = t[k]
      BY Zenon DEF Range
    <3>2. at(k) \in DOMAIN s /\ at(k) # i /\ x = s[at(k)]
      BY <1>2, <3>1, Zenon
    <3>3. s[at(k)] # s[i]
      BY <2>1, <3>2, Zenon DEF IsInjective
    <3> QED BY <3>2, <3>3, Zenon DEF Range
  <2>3. ASSUME NEW x \in Range(s), x # s[i] PROVE x \in Range(t)
    <3>1. PICK c \in DOMAIN s : x = s[c]
      BY Zenon DEF Range
    <3>2. PICK k \in DOMAIN t : at(k) = c
      BY <1>4, <2>3, <3>1, Zenon
    <3> QED BY <1>2, <3>1, <3>2, Zenon DEF Range
  <2> QED BY <2>2, <2>3, Zenon
<1>7. \A a, b \in DOMAIN t : a < b =>
         \E c, d \in DOMAIN s : c < d /\ t[a] = s[c] /\ t[b] = s[d]
  BY <1>2, <1>3, Zenon
<1> QED BY <1>5, <1>6, <1>7, Zenon DEF KeepsOrder

\* Appending a new element.
LEMMA AppendSeq ==
    ASSUME NEW S, NEW s \in Seq(S), NEW e \in S, e \notin Range(s), IsInjective(s)
    PROVE  /\ IsInjective(Append(s, e))
           /\ Range(Append(s, e)) = Range(s) \cup {e}
           /\ DOMAIN Append(s, e) = 1 .. Len(s) + 1
           /\ \A k \in 1 .. Len(s) : Append(s, e)[k] = s[k]
           /\ Append(s, e)[Len(s) + 1] = e
<1> DEFINE t == Append(s, e)
<1>1. /\ Len(s) \in Nat /\ DOMAIN s = 1 .. Len(s)
      /\ t \in Seq(S) /\ Len(t) = Len(s) + 1
      /\ \A k \in 1 .. Len(s) : t[k] = s[k]
      /\ t[Len(s) + 1] = e
  BY SeqLen, SeqAppend, SMTT(30)
<1>2. DOMAIN t = 1 .. Len(s) + 1
  BY <1>1, SeqLen, Zenon
<1> HIDE DEF t
<1>3. \A k \in DOMAIN t : \/ k \in DOMAIN s /\ t[k] = s[k]
                          \/ k = Len(s) + 1 /\ t[k] = e
  BY <1>1, <1>2, SMTT(30)
<1>4. \A k \in DOMAIN s : k \in DOMAIN t /\ k # Len(s) + 1
  BY <1>1, <1>2, SMTT(30)
<1>5. \A k \in DOMAIN s : s[k] # e
  BY Zenon DEF Range
<1>6. IsInjective(t)
  BY <1>3, <1>5, Zenon DEF IsInjective
<1>7. Range(t) = Range(s) \cup {e}
  <2>1. ASSUME NEW x \in Range(t) PROVE x \in Range(s) \cup {e}
    BY <1>3, Zenon DEF Range
  <2>2. ASSUME NEW x \in Range(s) PROVE x \in Range(t)
    BY <1>1, <1>4, Zenon DEF Range
  <2>3. e \in Range(t)
    BY <1>1, <1>2, SMTT(30) DEF Range
  <2> QED BY <2>1, <2>2, <2>3, Zenon
<1> QED BY <1>1, <1>2, <1>6, <1>7, Zenon DEF t

\* Tail cuts the first element.
LEMMA TailCuts ==
    ASSUME NEW S, NEW s \in Seq(S), s # <<>>
    PROVE  IsCut(s, Tail(s), 1) /\ 1 \in 1 .. Len(s) /\ Head(s) = s[1]
<1>1. /\ Len(Tail(s)) = Len(s) - 1
      /\ \A k \in 1 .. Len(Tail(s)) : Tail(s)[k] = s[k + 1]
  BY SeqHeadTail, Zenon
<1>2. Len(s) \in Nat \ {0}
  BY SeqLen, Zenon
<1> QED BY <1>1, <1>2, SMTT(30) DEF IsCut

\* The retain of do_cancel cuts the job it drops.
LEMMA WithoutCuts ==
    ASSUME NEW S, NEW s \in Seq(S), NEW e \in Range(s)
    PROVE  \E i \in 1 .. Len(s) : s[i] = e /\ IsCut(s, Without(s, e), i)
<1> DEFINE n == CHOOSE i \in DOMAIN s : s[i] = e
           front == SubSeq(s, 1, n - 1)
           back == SubSeq(s, n + 1, Len(s))
<1>1. n \in DOMAIN s /\ s[n] = e
  <2>1. \E i \in DOMAIN s : s[i] = e
    BY Zenon DEF Range
  <2> QED BY <2>1, Zenon
<1>2. Without(s, e) = front \o back
  BY Zenon DEF Without
<1> HIDE DEF n
<1>3. Len(s) \in Nat /\ DOMAIN s = 1 .. Len(s) /\ \A i \in 1 .. Len(s) : s[i] \in S
  BY SeqLen, SeqLen, Zenon
<1>4. n \in 1 .. Len(s)
  BY <1>1, <1>3, Zenon
<1>5. /\ front \in Seq(S) /\ Len(front) = n - 1
      /\ \A k \in 1 .. n - 1 : front[k] = s[k]
  <2>1. 1 \in Nat \ {0} /\ n - 1 \in Nat /\ n - 1 <= Len(s) /\ 1 <= (n - 1) + 1
    BY <1>3, <1>4, SMTT(30)
  <2>2. (n - 1) - 1 + 1 = n - 1 /\ \A k \in 1 .. n - 1 : 1 + k - 1 = k
    BY <1>4, SMTT(30)
  <2> QED BY <2>1, <2>2, SeqSlice, SMTT(30)
<1>6. /\ back \in Seq(S) /\ Len(back) = Len(s) - n
      /\ \A k \in 1 .. Len(s) - n : back[k] = s[n + k]
  <2>1. /\ n + 1 \in Nat \ {0} /\ Len(s) \in Nat /\ Len(s) <= Len(s)
        /\ n + 1 <= Len(s) + 1
    BY <1>3, <1>4
  <2>2. /\ Len(s) - (n + 1) + 1 = Len(s) - n
        /\ \A k \in 1 .. Len(s) - n : (n + 1) + k - 1 = n + k
    BY <1>3, <1>4, SMTT(30)
  <2> QED BY <2>1, <2>2, SeqSlice, SMTT(30)
<1> HIDE DEF front, back
<1>7. /\ Len(front \o back) = Len(s) - 1
      /\ \A k \in 1 .. Len(s) - 1 :
            (front \o back)[k] = IF k <= n - 1 THEN front[k] ELSE back[k - (n - 1)]
  <2>1. /\ Len(front \o back) = Len(front) + Len(back)
        /\ \A k \in 1 .. Len(front) + Len(back) :
              (front \o back)[k] = IF k <= Len(front) THEN front[k]
                                   ELSE back[k - Len(front)]
    BY <1>5, <1>6, SeqConcat, ZenonT(60)
  <2>2. Len(front) + Len(back) = Len(s) - 1
    BY <1>3, <1>4, <1>5, <1>6
  <2> QED BY <1>5, <2>1, <2>2, Zenon
<1>8. ASSUME NEW k \in 1 .. Len(s) - 1
      PROVE  (front \o back)[k] = IF k < n THEN s[k] ELSE s[k + 1]
  <2>1. CASE k < n
    BY <1>3, <1>4, <1>5, <1>7, <2>1, SMTT(30)
  <2>2. CASE ~(k < n)
    <3>1. k - (n - 1) \in 1 .. Len(s) - n /\ n + (k - (n - 1)) = k + 1
      BY <1>3, <1>4, <2>2
    <3>2. back[k - (n - 1)] = s[k + 1]
      BY <1>6, <3>1, Zenon
    <3> QED BY <1>3, <1>4, <1>7, <2>2, <3>2
  <2> QED BY <2>1, <2>2, Zenon
<1>9. IsCut(s, front \o back, n)
  BY <1>7, <1>8, Zenon DEF IsCut
<1> QED BY <1>1, <1>2, <1>4, <1>9, Zenon

\* Cutting back to s is adding what was cut.
LEMMA UncutSeq ==
    ASSUME NEW S, NEW s \in Seq(S), NEW t \in Seq(S), NEW i \in 1 .. Len(t),
           IsCut(t, s, i), IsInjective(s), t[i] \notin Range(s)
    PROVE  /\ IsInjective(t)
           /\ Range(t) = Range(s) \cup {t[i]}
<1>1. /\ Len(t) \in Nat /\ DOMAIN t = 1 .. Len(t)
      /\ Len(s) = Len(t) - 1 /\ DOMAIN s = 1 .. Len(s)
      /\ \A k \in DOMAIN s : s[k] = IF k < i THEN t[k] ELSE t[k + 1]
  BY SeqLen, Zenon DEF IsCut
<1> DEFINE was(c) == IF c < i THEN c ELSE c - 1
<1>2. \A c \in DOMAIN t : c # i => was(c) \in DOMAIN s /\ t[c] = s[was(c)]
  BY <1>1, SMTT(30)
<1>3. \A a, b \in DOMAIN t : a # i /\ b # i /\ was(a) = was(b) => a = b
  BY <1>1, SMTT(30)
<1>4. \A k \in DOMAIN s : \E c \in DOMAIN t : s[k] = t[c]
  <2> SUFFICES ASSUME NEW k \in DOMAIN s PROVE \E c \in DOMAIN t : s[k] = t[c]
    BY Zenon
  <2>1. k \in DOMAIN t /\ k + 1 \in DOMAIN t
    BY <1>1, SMTT(30)
  <2> QED BY <1>1, <2>1, Zenon
<1> HIDE DEF was
<1>5. \A k \in DOMAIN s : s[k] # t[i]
  BY Zenon DEF Range
<1>6. IsInjective(t)
  BY <1>2, <1>3, <1>5, Zenon DEF IsInjective
<1>7. Range(t) = Range(s) \cup {t[i]}
  <2>1. ASSUME NEW x \in Range(t) PROVE x \in Range(s) \cup {t[i]}
    BY <1>2, Zenon DEF Range
  <2>2. ASSUME NEW x \in Range(s) PROVE x \in Range(t)
    BY <1>4, Zenon DEF Range
  <2>3. t[i] \in Range(t)
    BY <1>1, Zenon DEF Range
  <2> QED BY <2>1, <2>2, <2>3, Zenon
<1> QED BY <1>6, <1>7, Zenon

\* Cutting what the heap's push inserted gives the old order back.
LEMMA PushAtCuts ==
    ASSUME NEW S, NEW s \in Seq(S), NEW e \in S, NEW i \in 1 .. Len(s) + 1
    PROVE  IsCut(PushAt(s, i, e), s, i) /\ PushAt(s, i, e)[i] = e
<1> DEFINE front == SubSeq(s, 1, i - 1)
           mid == front \o <<e>>
           back == SubSeq(s, i, Len(s))
<1>1. Len(s) \in Nat /\ i \in Nat
  BY SeqLen, SMTT(30)
<1>2. /\ front \in Seq(S) /\ Len(front) = i - 1
      /\ \A k \in 1 .. i - 1 : front[k] = s[k]
  <2>1. 1 \in 1 .. Len(s) + 1 /\ i - 1 \in 0 .. Len(s)
    BY <1>1, SMTT(30)
  <2>2. /\ (IF 1 <= i - 1 THEN (i - 1) - 1 + 1 ELSE 0) = i - 1 /\ (i - 1) - 1 + 1 = i - 1
        /\ \A k \in 1 .. i - 1 : 1 + k - 1 = k
    BY <1>1
  <2> QED BY <2>1, <2>2, SeqSlice, SMTT(30)
<1>3. /\ back \in Seq(S) /\ Len(back) = Len(s) - i + 1
      /\ \A k \in 1 .. Len(s) - i + 1 : back[k] = s[i + k - 1]
  <2>1. i \in 1 .. Len(s) + 1 /\ Len(s) \in 0 .. Len(s)
    BY <1>1, SMTT(30)
  <2>2. (IF i <= Len(s) THEN Len(s) - i + 1 ELSE 0) = Len(s) - i + 1
    BY <1>1, SMTT(30)
  <2> QED BY <2>1, <2>2, SeqSlice, Zenon
<1>4. <<e>> \in Seq(S) /\ Len(<<e>>) = 1 /\ <<e>>[1] = e
  OBVIOUS
<1> HIDE DEF front, back
<1>5. /\ mid \in Seq(S) /\ Len(mid) = i
      /\ \A k \in 1 .. i : mid[k] = IF k < i THEN s[k] ELSE e
  <2>1. /\ mid \in Seq(S) /\ Len(mid) = Len(front) + Len(<<e>>)
        /\ \A k \in 1 .. Len(front) + Len(<<e>>) :
              mid[k] = IF k <= Len(front) THEN front[k] ELSE <<e>>[k - Len(front)]
    BY <1>2, <1>4, SeqConcat, Zenon
  <2>2. /\ Len(front) + Len(<<e>>) = i
        /\ \A k \in 1 .. i : (k <= i - 1 <=> k < i) /\ (~(k < i) => k - (i - 1) = 1)
        /\ \A k \in 1 .. i : k < i => k \in 1 .. i - 1
    BY <1>1, <1>2, <1>4, SMTT(30)
  <2>3. ASSUME NEW k \in 1 .. i PROVE mid[k] = IF k < i THEN s[k] ELSE e
    <3>1. mid[k] = IF k < i THEN front[k] ELSE <<e>>[k - (i - 1)]
      BY <1>2, <2>1, <2>2, Zenon
    <3> QED BY <1>2, <1>4, <2>2, <3>1, Zenon
  <2> QED BY <2>1, <2>2, <2>3, Zenon
<1> HIDE DEF mid
<1>6. /\ Len(mid \o back) = Len(s) + 1
      /\ \A k \in 1 .. Len(s) + 1 :
            (mid \o back)[k] = IF k <= i THEN mid[k] ELSE back[k - i]
  <2>1. /\ Len(mid \o back) = Len(mid) + Len(back)
        /\ \A k \in 1 .. Len(mid) + Len(back) :
              (mid \o back)[k] = IF k <= Len(mid) THEN mid[k] ELSE back[k - Len(mid)]
    BY <1>3, <1>5, SeqConcat, ZenonT(60)
  <2>2. Len(mid) + Len(back) = Len(s) + 1
    BY <1>1, <1>3, <1>5
  <2> QED BY <1>5, <2>1, <2>2, Zenon
<1>7. ASSUME NEW k \in 1 .. Len(s)
      PROVE  s[k] = IF k < i THEN (mid \o back)[k] ELSE (mid \o back)[k + 1]
  <2>1. CASE k < i
    BY <1>1, <1>5, <1>6, <2>1, SMTT(30)
  <2>2. CASE ~(k < i)
    <3>1. /\ (k + 1) - i \in 1 .. Len(s) - i + 1 /\ i + ((k + 1) - i) - 1 = k
          /\ k + 1 \in 1 .. Len(s) + 1 /\ ~(k + 1 <= i)
      BY <1>1, <2>2, SMTT(30)
    <3>2. (mid \o back)[k + 1] = back[(k + 1) - i]
      BY <1>6, <3>1, Zenon
    <3>3. back[(k + 1) - i] = s[k]
      BY <1>3, <3>1, Zenon
    <3> QED BY <2>2, <3>2, <3>3, Zenon
  <2> QED BY <2>1, <2>2, Zenon
<1>8. (mid \o back)[i] = e
  BY <1>1, <1>5, <1>6, SMTT(30)
<1>9. Len(s) = Len(mid \o back) - 1
  BY <1>1, <1>6, SMTT(30)
<1>10. PushAt(s, i, e) = mid \o back
  BY Zenon DEF PushAt, mid, front, back
<1> QED BY <1>7, <1>8, <1>9, <1>10, Zenon DEF IsCut

-----------------------------------------------------------------------------
\* The job table.

\* Both ways of applying a record keep the table a table.
LEMMA ApplyType ==
    ASSUME NEW st \in [Jobs -> JobRecord], NEW r \in WalRecord
    PROVE  /\ ApplyRecord(st, r) \in [Jobs -> JobRecord]
           /\ ApplyRecordForRecovery(st, r) \in [Jobs -> JobRecord]
<1>1. Entry(st[r.id], r) \in JobRecord
  BY DEF Entry, TargetState, WalRecord, RecordType, JobRecord, JobState
<1>2. r.id \in Jobs
  BY Zenon DEF WalRecord
<1> QED BY <1>1, <1>2, Zenon DEF ApplyRecord, ApplyRecordForRecovery

\* A record is a WalRecord.
LEMMA RecordInType ==
    ASSUME NEW type \in RecordType, NEW j \in Jobs, NEW e \in Nat, NEW n \in Nat
    PROVE  Record(type, j, e, n) \in WalRecord
BY Zenon DEF Record, WalRecord

\* Moving a job between counters keeps the counters natural numbers.
LEMMA MoveStatType ==
    ASSUME stats \in [Queues -> [JobState -> Nat]], NEW q \in Queues,
           NEW from \in JobState, NEW to \in JobState
    PROVE  MoveStat(q, from, to) \in [Queues -> [JobState -> Nat]]
BY DEF MoveStat

\* What a command of each kind carries.
LEMMA CommandFields ==
    ASSUME NEW cmd \in Command
    PROVE  /\ cmd.kind \in {"Submit", "Cancel"} => cmd.job \in Jobs
           /\ cmd.kind = "FetchWork" => cmd.worker \in Workers
           /\ cmd.kind = "WorkerOutcome" =>
                 cmd.work \in LeasedJob /\ cmd.outcome \in WorkerOutcome
BY Zenon DEF Command

\* Taking a command off the channel.
LEMMA ReceiveType ==
    ASSUME TypeOK, NEW kind, Receive(kind)
    PROVE  /\ Head(cmds) \in Command
           /\ Head(cmds).kind = kind
           /\ cmds' \in Seq(Command)
           /\ Len(cmds') <= ChannelCapacity
<1>1. cmds \in Seq(Command) /\ Len(cmds) <= ChannelCapacity /\ cmds # <<>>
  BY Zenon DEF TypeOK, Receive
<1>2. /\ Head(cmds) \in Command
      /\ Tail(cmds) \in Seq(Command)
      /\ Len(Tail(cmds)) = Len(cmds) - 1
  BY <1>1, SeqHeadTail, Zenon
<1>3. Len(cmds) \in Nat
  BY <1>1, SeqLen, Zenon
<1> QED BY <1>1, <1>2, <1>3, CoordinatorAssumption, SMTT(30) DEF Receive

\* Sending a command.
LEMMA SendType ==
    ASSUME TypeOK, CanSend, NEW cmd \in Command
    PROVE  /\ Append(cmds, cmd) \in Seq(Command)
           /\ Len(Append(cmds, cmd)) <= ChannelCapacity
<1>1. cmds \in Seq(Command) /\ Len(cmds) < ChannelCapacity
  BY Zenon DEF TypeOK, CanSend
<1>2. Len(Append(cmds, cmd)) = Len(cmds) + 1 /\ Append(cmds, cmd) \in Seq(Command)
  BY <1>1, SeqAppend, Zenon
<1>3. Len(cmds) \in Nat
  BY <1>1, SeqLen, Zenon
<1> QED BY <1>1, <1>2, <1>3, CoordinatorAssumption, SMTT(30)

\* Returning a permit keeps the semaphores and the permits map well typed.
LEMMA ReleasePermitType ==
    ASSUME TypeOK, NEW j \in Jobs, ReleasePermit(j)
    PROVE  permits' \subseteq Jobs /\ avail' \in [Queues -> Nat]
<1>1. permits \subseteq Jobs /\ avail \in [Queues -> Nat]
  BY Zenon DEF TypeOK
<1>2. QueueOf[j] \in Queues
  BY CoordinatorAssumption, Zenon
<1>3. permits' = permits \ {j}
  BY Zenon DEF ReleasePermit
<1>4. avail' = [avail EXCEPT ![QueueOf[j]] = @ + 1] \/ avail' = avail
  BY Zenon DEF ReleasePermit
<1> QED BY <1>1, <1>2, <1>3, <1>4, SMTT(30)

\* A granted lease: everything GrantLease touches stays well typed.
LEMMA GrantLeaseType ==
    ASSUME TypeOK, NEW q \in Queues, NEW w \in Workers, GrantLease(q, w)
    PROVE  /\ Head(ready[q]) \in Jobs
           /\ logged' \in [Jobs -> JobRecord]
           /\ lastLease' \in [Jobs -> Nat]
           /\ store' \in [Jobs -> JobRecord]
           /\ ready' \in [Queues -> Seq(Jobs)]
           /\ nextQueueIdx' \in Queues
           /\ leases' \in [Jobs -> [epoch : Nat, expired : BOOLEAN]]
           /\ nextLeaseEpoch' \in Nat \ {0}
           /\ stats' \in [Queues -> [JobState -> Nat]]
           /\ worker' \in [Workers -> WorkerState]
<1> DEFINE j == Head(ready[q])
           r == Record("JobLeased", j, nextLeaseEpoch, store[j].attempts + 1)
<1>1. ready[q] \in Seq(Jobs) /\ ready[q] # <<>>
  BY Zenon DEF TypeOK, GrantLease, EpochAfter, Leaseable
<1>2. j \in Jobs /\ Tail(ready[q]) \in Seq(Jobs)
  BY <1>1, SeqHeadTail, Zenon
<1> HIDE DEF j
<1>3. nextLeaseEpoch \in Nat \ {0}
  BY Zenon DEF TypeOK
<1>4. r \in WalRecord
  BY <1>2, <1>3, RecordInType, SMTT(30) DEF TypeOK, JobRecord, RecordType
<1> HIDE DEF r
<1>5. /\ logged' = ApplyRecordForRecovery(logged, r)
      /\ store' = ApplyRecord(store, r)
      /\ lastLease' = [lastLease EXCEPT ![j] = nextLeaseEpoch]
      /\ ready' = [ready EXCEPT ![q] = Tail(@)]
      /\ leases' = [leases EXCEPT
                        ![j] = [epoch |-> nextLeaseEpoch, expired |-> FALSE]]
      /\ stats' = MoveStat(q, "Queued", "Running")
      /\ worker' = [worker EXCEPT
                        ![w].at = "offered",
                        ![w].work = [job |-> j, lease |-> nextLeaseEpoch]]
      /\ nextLeaseEpoch' = nextLeaseEpoch + 1
      /\ nextQueueIdx' = (q + 1) % NumQueues
  BY Zenon DEF GrantLease, EpochAfter, j, r
<1>6. logged' \in [Jobs -> JobRecord] /\ store' \in [Jobs -> JobRecord]
  BY <1>4, <1>5, ApplyType, Zenon DEF TypeOK
<1>7. stats' \in [Queues -> [JobState -> Nat]]
  BY <1>5, MoveStatType, Zenon DEF TypeOK, JobState
<1>8. nextQueueIdx' \in Queues
  BY <1>5, CoordinatorAssumption, SMTT(30) DEF Queues
<1>9. [job |-> j, lease |-> nextLeaseEpoch] \in LeasedJob
  BY <1>2, <1>3, Zenon DEF LeasedJob
<1>10. worker' \in [Workers -> WorkerState]
  <2>1. worker \in [Workers -> WorkerState]
    BY Zenon DEF TypeOK
  <2> QED BY <1>5, <1>9, <2>1, ZenonT(30) DEF WorkerState
<1>11. /\ lastLease' \in [Jobs -> Nat]
       /\ leases' \in [Jobs -> [epoch : Nat, expired : BOOLEAN]]
       /\ nextLeaseEpoch' \in Nat \ {0}
  <2>1. lastLease \in [Jobs -> Nat]
    BY Zenon DEF TypeOK
  <2>2. leases \in [Jobs -> [epoch : Nat, expired : BOOLEAN]]
    BY Zenon DEF TypeOK
  <2> QED BY <1>2, <1>3, <1>5, <2>1, <2>2, SMTT(30)
<1>12. ready' \in [Queues -> Seq(Jobs)]
  <2>1. ready \in [Queues -> Seq(Jobs)]
    BY Zenon DEF TypeOK
  <2> QED BY <1>2, <1>5, <2>1, Zenon
<1> QED BY <1>2, <1>6, <1>7, <1>8, <1>10, <1>11, <1>12, ZenonT(60) DEF j

\* Dispatch grants a lease to one of the workers.
LEMMA LeaseGranted ==
    ASSUME SafetyInv, DispatchParked \/ LeaseToFetcher
    PROVE  \E q \in Queues, w \in Workers : GrantLease(q, w)
<1>1. CASE DispatchParked
  <2>1. parked \in Seq(Workers) /\ parked # <<>>
    BY <1>1, Zenon DEF SafetyInv, TypeOK, DispatchParked
  <2>2. Head(parked) \in Workers
    BY <2>1, SeqHeadTail, Zenon
  <2> QED BY <1>1, <2>2, Zenon DEF DispatchParked
<1>2. CASE LeaseToFetcher
  <2>1. Receive("FetchWork") /\ TypeOK
    BY <1>2, Zenon DEF LeaseToFetcher, SafetyInv
  <2>2. Head(cmds).worker \in Workers
    BY <2>1, ReceiveType, CommandFields, Zenon
  <2> QED BY <1>2, <2>2, Zenon DEF LeaseToFetcher
<1> QED BY <1>1, <1>2, Zenon

\* The job of the Submit at the head of the channel.
LEMMA HeadSubmit ==
    ASSUME SafetyInv, Receive("Submit")
    PROVE  /\ Head(cmds).job \in Jobs
           /\ client[Head(cmds).job] = "sent"
           /\ store[Head(cmds).job] = Absent
           /\ IsSubmit(Head(cmds), Head(cmds).job)
<1>1. cmds \in Seq(Command) /\ cmds # <<>> /\ Head(cmds).kind = "Submit"
  BY Zenon DEF SafetyInv, TypeOK, Receive
<1>2. 1 \in DOMAIN cmds /\ Head(cmds) = cmds[1] /\ Head(cmds) \in Command
  BY <1>1, SeqLen, SeqHeadTail, Zenon
<1>3. Head(cmds).job \in Jobs
  BY <1>1, <1>2, CommandFields, Zenon
<1> QED BY <1>1, <1>2, <1>3, Zenon DEF SafetyInv, SubmittedOnce, IsSubmit

\* Settling a lease: everything Settle touches stays well typed.
LEMMA SettleType ==
    ASSUME TypeOK, NEW j \in Jobs, NEW ok \in BOOLEAN,
           NEW type \in {"JobRetryScheduled", "JobCompleted", "JobDead"},
           Settle(j, type, ok)
    PROVE  /\ logged' \in [Jobs -> JobRecord]
           /\ store' \in [Jobs -> JobRecord]
           /\ leases' \in [Jobs -> [epoch : Nat, expired : BOOLEAN]]
           /\ stats' \in [Queues -> [JobState -> Nat]]
           /\ permits' \subseteq Jobs
           /\ avail' \in [Queues -> Nat]
           /\ retryQueue' \in Seq(Jobs)
           /\ dueCount' \in 0 .. Len(retryQueue')
           /\ UNCHANGED <<lastLease, ready, nextQueueIdx, nextLeaseEpoch, submitted>>
<1> DEFINE r == Record(type, j, leases[j].epoch, store[j].attempts)
           exposed == Exposed(r, ok)
<1>1. /\ leases \in [Jobs -> [epoch : Nat, expired : BOOLEAN]]
      /\ store \in [Jobs -> JobRecord] /\ logged \in [Jobs -> JobRecord]
      /\ stats \in [Queues -> [JobState -> Nat]]
      /\ permits \subseteq Jobs /\ avail \in [Queues -> Nat]
      /\ retryQueue \in Seq(Jobs) /\ dueCount \in 0 .. Len(retryQueue)
  BY Zenon DEF TypeOK
<1>2. r \in WalRecord
  BY <1>1, RecordInType, Zenon DEF JobRecord, RecordType
<1>3. /\ leases' = [leases EXCEPT ![j] = NoLease]
      /\ logged' = ApplyRecordForRecovery(logged, r) \/ logged' = logged
      /\ store' = ApplyRecord(store, r) \/ store' = store
      /\ stats' = MoveStat(QueueOf[j], "Running", TargetState[type]) \/ stats' = stats
      /\ ReleasePermit(j) \/ UNCHANGED <<permits, avail>>
      /\ \/ \E i \in dueCount + 1 .. Len(retryQueue) + 1 :
                retryQueue' = PushAt(retryQueue, i, j)
         \/ retryQueue' = retryQueue
      /\ dueCount' = dueCount
      /\ UNCHANGED <<lastLease, ready, nextQueueIdx, nextLeaseEpoch, submitted>>
  BY Zenon DEF Settle, DropLease
<1> HIDE DEF r, exposed
<1>4. logged' \in [Jobs -> JobRecord] /\ store' \in [Jobs -> JobRecord]
  <2>1. /\ ApplyRecord(store, r) \in [Jobs -> JobRecord]
        /\ ApplyRecordForRecovery(logged, r) \in [Jobs -> JobRecord]
    BY <1>1, <1>2, ApplyType, Zenon
  <2> QED BY <1>1, <1>3, <2>1, Zenon
<1>5. leases' \in [Jobs -> [epoch : Nat, expired : BOOLEAN]]
  BY <1>1, <1>3, Zenon DEF NoLease
<1>6. stats' \in [Queues -> [JobState -> Nat]]
  <2>1. QueueOf[j] \in Queues
    BY CoordinatorAssumption, Zenon
  <2>2. TargetState[type] \in JobState /\ "Running" \in JobState
    BY DEF TargetState, JobState
  <2>3. MoveStat(QueueOf[j], "Running", TargetState[type])
            \in [Queues -> [JobState -> Nat]]
    BY <1>1, <2>1, <2>2, MoveStatType, Zenon
  <2> QED BY <1>1, <1>3, <2>3, Zenon
<1>7. permits' \subseteq Jobs /\ avail' \in [Queues -> Nat]
  BY <1>1, <1>3, ReleasePermitType, Zenon
<1>8. retryQueue' \in Seq(Jobs) /\ dueCount' \in 0 .. Len(retryQueue')
  <2>1. Len(retryQueue) \in Nat
    BY <1>1, SeqLen, Zenon
  <2>2. CASE retryQueue' = retryQueue
    BY <1>1, <1>3, <2>2, Zenon
  <2>3. ASSUME NEW i \in dueCount + 1 .. Len(retryQueue) + 1,
               retryQueue' = PushAt(retryQueue, i, j)
        PROVE  retryQueue' \in Seq(Jobs) /\ dueCount' \in 0 .. Len(retryQueue')
    <3>1. i \in 1 .. Len(retryQueue) + 1
      BY <1>1, <2>1, SMTT(30)
    <3>2. retryQueue' \in Seq(Jobs) /\ Len(retryQueue') = Len(retryQueue) + 1
      BY <1>1, <2>3, <3>1, PushAtType, Zenon
    <3> QED BY <1>1, <1>3, <2>1, <3>2, SMTT(30)
  <2> QED BY <1>3, <2>2, <2>3, Zenon
<1> QED BY <1>3, <1>4, <1>5, <1>6, <1>7, <1>8, ZenonT(60)

-----------------------------------------------------------------------------
\* Type correctness.

\* Requeueing a retry that came due.
LEMMA ProcessDueRetryType == TypeOK /\ ProcessDueRetry => TypeOK'
<1> SUFFICES ASSUME TypeOK, ProcessDueRetry PROVE TypeOK'
  BY Zenon
<1> DEFINE j == Head(retryQueue)
<1>1. /\ retryQueue \in Seq(Jobs) /\ dueCount \in 0 .. Len(retryQueue) /\ dueCount > 0
      /\ store \in [Jobs -> JobRecord] /\ ready \in [Queues -> Seq(Jobs)]
      /\ stats \in [Queues -> [JobState -> Nat]]
  BY Zenon DEF TypeOK, ProcessDueRetry
<1>2. retryQueue # <<>> /\ Len(retryQueue) \in Nat
  BY <1>1, SeqLen, SMTT(30)
<1>3. /\ j \in Jobs
      /\ Tail(retryQueue) \in Seq(Jobs)
      /\ Len(Tail(retryQueue)) = Len(retryQueue) - 1
  BY <1>1, <1>2, SeqHeadTail, Zenon
<1> HIDE DEF j
<1>4. /\ retryQueue' = Tail(retryQueue)
      /\ dueCount' = dueCount - 1
      /\ \/ UNCHANGED <<store, ready, stats>>
         \/ /\ store' = [store EXCEPT ![j].state = "Queued"]
            /\ ready' = [ready EXCEPT ![QueueOf[j]] = Append(@, j)]
            /\ stats' = MoveStat(QueueOf[j], "RetryWaiting", "Queued")
  BY Zenon DEF ProcessDueRetry, TransitionToQueued, j
<1>5. retryQueue' \in Seq(Jobs) /\ dueCount' \in 0 .. Len(retryQueue')
  BY <1>1, <1>2, <1>3, <1>4, SMTT(30)
<1>6. QueueOf[j] \in Queues
  BY <1>3, CoordinatorAssumption, Zenon
<1>7. [store EXCEPT ![j].state = "Queued"] \in [Jobs -> JobRecord]
  BY <1>1, <1>3, Zenon DEF JobRecord, JobState
<1>8. [ready EXCEPT ![QueueOf[j]] = Append(@, j)] \in [Queues -> Seq(Jobs)]
  BY <1>1, <1>3, <1>6, SeqAppend, Zenon
<1>9. MoveStat(QueueOf[j], "RetryWaiting", "Queued") \in [Queues -> [JobState -> Nat]]
  BY <1>1, <1>6, MoveStatType, Zenon DEF JobState
<1>10. /\ store' \in [Jobs -> JobRecord] /\ ready' \in [Queues -> Seq(Jobs)]
       /\ stats' \in [Queues -> [JobState -> Nat]]
  BY <1>1, <1>4, <1>7, <1>8, <1>9, Zenon
<1>11. UNCHANGED <<storageVars, nextQueueIdx, permits, leases, nextLeaseEpoch,
                   submitted, loopVars, stopVars, actorVars, parked, avail, cmds>>
  BY Zenon DEF ProcessDueRetry
<1> QED BY <1>5, <1>10, <1>11, ZenonT(60) DEF TypeOK, storageVars, jobVars, timerVars,
   statVars, loopVars, stopVars, actorVars

\* A lease handed to a parked worker or to the worker that asked.
LEMMA DispatchType == TypeOK /\ (DispatchParked \/ LeaseToFetcher) => TypeOK'
<1>1. ASSUME TypeOK, DispatchParked PROVE TypeOK'
  <2>1. parked \in Seq(Workers) /\ parked # <<>>
    BY <1>1, Zenon DEF TypeOK, DispatchParked
  <2>2. Head(parked) \in Workers /\ Tail(parked) \in Seq(Workers)
    BY <2>1, SeqHeadTail, Zenon
  <2>3. PICK q \in Queues : GrantLease(q, Head(parked))
    BY <1>1, Zenon DEF DispatchParked
  <2>4. parked' \in Seq(Workers)
    BY <1>1, <2>2, Zenon DEF DispatchParked
  <2>5. UNCHANGED <<permits, timerVars, submitted, loopVars, stopVars, client,
                    canceller, shutter, avail, cmds>>
    BY <1>1, Zenon DEF DispatchParked
  <2> QED BY <1>1, <2>2, <2>3, <2>4, <2>5, GrantLeaseType, ZenonT(30) DEF TypeOK, storageVars, jobVars, timerVars,
   statVars, loopVars, stopVars, actorVars
<1>2. ASSUME TypeOK, LeaseToFetcher PROVE TypeOK'
  <2>1. Receive("FetchWork") /\ pc' = "loop"
    BY <1>2, Zenon DEF LeaseToFetcher
  <2>2. /\ Head(cmds).worker \in Workers
        /\ cmds' \in Seq(Command) /\ Len(cmds') <= ChannelCapacity
    BY <1>2, <2>1, ReceiveType, CommandFields, Zenon
  <2>3. PICK q \in Queues : GrantLease(q, Head(cmds).worker)
    BY <1>2, Zenon DEF LeaseToFetcher
  <2>4. UNCHANGED <<permits, timerVars, submitted, timedOut, replyTo, stopVars,
                    client, canceller, shutter, parked, avail>>
    BY <1>2, Zenon DEF LeaseToFetcher
  <2> QED BY <1>2, <2>1, <2>2, <2>3, <2>4, GrantLeaseType, ZenonT(60) DEF TypeOK, storageVars, jobVars, timerVars,
   statVars, loopVars, stopVars, actorVars
<1> QED BY <1>1, <1>2, Zenon

\* Settling a lease that ran out, or whose worker reports in time.
LEMMA OutcomeType == TypeOK /\ (SettleTimeout \/ CurrentOutcome) => TypeOK'
<1>1. \A ok \in PersistOutcome : ok \in BOOLEAN
  BY Zenon DEF PersistOutcome
<1>2. ASSUME TypeOK, SettleTimeout PROVE TypeOK'
  <2>1. PICK j \in timedOut, ok \in PersistOutcome :
             timedOut' = timedOut \ {j} /\ Settle(j, RetryOrDead(j), ok)
    BY <1>2, Zenon DEF SettleTimeout
  <2>2. j \in Jobs /\ timedOut' \subseteq Jobs
    BY <1>2, <2>1, Zenon DEF TypeOK
  <2>3. RetryOrDead(j) \in {"JobRetryScheduled", "JobCompleted", "JobDead"}
    BY Zenon DEF RetryOrDead
  <2>4. UNCHANGED <<pc, replyTo, stopVars, actorVars, parked, cmds>>
    BY <1>2, Zenon DEF SettleTimeout
  <2> HIDE DEF TypeOK
  <2>5. /\ logged' \in [Jobs -> JobRecord]
        /\ store' \in [Jobs -> JobRecord]
        /\ leases' \in [Jobs -> [epoch : Nat, expired : BOOLEAN]]
        /\ stats' \in [Queues -> [JobState -> Nat]]
        /\ permits' \subseteq Jobs
        /\ avail' \in [Queues -> Nat]
        /\ retryQueue' \in Seq(Jobs)
        /\ dueCount' \in 0 .. Len(retryQueue')
        /\ UNCHANGED <<lastLease, ready, nextQueueIdx, nextLeaseEpoch, submitted>>
    BY <1>1, <1>2, <2>1, <2>2, <2>3, SettleType, ZenonT(60)
  <2> QED BY <1>2, <2>2, <2>4, <2>5, ZenonT(60) DEF TypeOK, storageVars, jobVars, timerVars,
   statVars, loopVars, stopVars, actorVars
<1>3. ASSUME TypeOK, CurrentOutcome PROVE TypeOK'
  <2>1. Receive("WorkerOutcome") /\ pc' = "loop"
    BY <1>3, Zenon DEF CurrentOutcome
  <2>2. /\ Head(cmds).work \in LeasedJob /\ Head(cmds).outcome \in WorkerOutcome
        /\ cmds' \in Seq(Command) /\ Len(cmds') <= ChannelCapacity
    BY <1>3, <2>1, ReceiveType, CommandFields, Zenon
  <2> DEFINE j == Head(cmds).work.job
             type == OutcomeRecord(j, Head(cmds).outcome)
  <2>3. PICK ok \in PersistOutcome : Settle(j, type, ok)
    BY <1>3, Zenon DEF CurrentOutcome
  <2>4. j \in Jobs
    BY <2>2, Zenon DEF LeasedJob
  <2>5. type \in {"JobRetryScheduled", "JobCompleted", "JobDead"}
    BY Zenon DEF OutcomeRecord, RetryOrDead
  <2>6. UNCHANGED <<timedOut, replyTo, stopVars, actorVars, parked>>
    BY <1>3, Zenon DEF CurrentOutcome
  <2> HIDE DEF j, type
  <2>7. /\ logged' \in [Jobs -> JobRecord]
        /\ store' \in [Jobs -> JobRecord]
        /\ leases' \in [Jobs -> [epoch : Nat, expired : BOOLEAN]]
        /\ stats' \in [Queues -> [JobState -> Nat]]
        /\ permits' \subseteq Jobs
        /\ avail' \in [Queues -> Nat]
        /\ retryQueue' \in Seq(Jobs)
        /\ dueCount' \in 0 .. Len(retryQueue')
        /\ UNCHANGED <<lastLease, ready, nextQueueIdx, nextLeaseEpoch, submitted>>
    BY <1>1, <1>3, <2>3, <2>4, <2>5, SettleType, Zenon
  <2> QED BY <1>3, <2>1, <2>2, <2>6, <2>7, ZenonT(60) DEF TypeOK, storageVars, jobVars, timerVars,
   statVars, loopVars, stopVars, actorVars
<1> QED BY <1>2, <1>3, Zenon

\* The steps of the run loop that only move pc.
LEMMA LoopType ==
    TypeOK /\ (CollectTimeouts \/ EnterSelect \/ WakeOnDeadline) => TypeOK'
<1>1. ASSUME TypeOK, CollectTimeouts PROVE TypeOK'
  BY <1>1, Zenon DEF CollectTimeouts, TypeOK, storageVars, jobVars, timerVars,
   statVars, loopVars, stopVars, actorVars
<1>2. ASSUME TypeOK, EnterSelect PROVE TypeOK'
  BY <1>2, Zenon DEF EnterSelect, TypeOK, storageVars, jobVars, timerVars,
   statVars, loopVars, stopVars, actorVars
<1>3. ASSUME TypeOK, WakeOnDeadline PROVE TypeOK'
  BY <1>3, ZenonT(60) DEF WakeOnDeadline, TypeOK, storageVars, jobVars, timerVars,
   statVars, loopVars, stopVars, actorVars
<1> QED BY <1>1, <1>2, <1>3, Zenon

\* The end of the coordinator task.
LEMMA TerminateType ==
    JobsCount /\ TypeOK /\ (CompleteShutdown \/ ForceShutdown) => TypeOK'
<1> SUFFICES ASSUME JobsCount, TypeOK, CompleteShutdown \/ ForceShutdown PROVE TypeOK'
  BY Zenon
<1>1. Terminate
  BY Zenon DEF CompleteShutdown, ForceShutdown
<1>2. leases' = leases \/ leases' = [j \in Jobs |-> NoLease]
  BY Zenon DEF CompleteShutdown, ForceShutdown
<1>3. leases' \in [Jobs -> [epoch : Nat, expired : BOOLEAN]]
  <2>1. leases \in [Jobs -> [epoch : Nat, expired : BOOLEAN]]
    BY Zenon DEF TypeOK
  <2>2. NoLease \in [epoch : Nat, expired : BOOLEAN]
    BY Zenon DEF NoLease
  <2> QED BY <1>2, <2>1, <2>2, Zenon
<1>4. avail' \in [Queues -> Nat]
  <2> DEFINE dropped(q) == {j \in Jobs :
                               /\ QueueOf[j] = q
                               /\ \/ j \in permits
                                  \/ \E i \in DOMAIN cmds :
                                        cmds[i] = [kind |-> "Submit", job |-> j]}
  <2>1. avail' = [q \in Queues |-> avail[q] + Cardinality(dropped(q))]
    BY <1>1, Zenon DEF Terminate
  <2>2. \A q \in Queues : dropped(q) \in SUBSET Jobs
    BY Zenon
  <2> HIDE DEF dropped
  <2>3. \A q \in Queues : Cardinality(dropped(q)) \in Nat
    BY <2>2, Zenon DEF JobsCount
  <2>4. avail \in [Queues -> Nat]
    BY Zenon DEF TypeOK
  <2>5. \A q \in Queues : avail[q] + Cardinality(dropped(q)) \in Nat
    BY <2>3, <2>4, SMTT(30)
  <2> QED BY <2>1, <2>5, Zenon
<1>5. client' \in [Jobs -> {"idle", "permit", "sent", "ok", "err"}]
  <2>1. client \in [Jobs -> {"idle", "permit", "sent", "ok", "err"}]
    BY Zenon DEF TypeOK
  <2>2. client' = [j \in Jobs |-> IF client[j] = "sent" THEN "err" ELSE client[j]]
    BY <1>1, Zenon DEF Terminate
  <2> QED BY <2>1, <2>2, Zenon
<1>6. canceller' \in [Jobs -> {"idle", "sent", "ok", "err"}]
  <2>1. canceller \in [Jobs -> {"idle", "sent", "ok", "err"}]
    BY Zenon DEF TypeOK
  <2>2. canceller' = [j \in Jobs |->
                         IF canceller[j] = "sent" THEN "err" ELSE canceller[j]]
    BY <1>1, Zenon DEF Terminate
  <2> QED BY <2>1, <2>2, Zenon
<1>7. /\ shutter' \in {"idle", "replied"} /\ pc' = "done" /\ permits' = {}
      /\ cmds' = <<>>
      /\ UNCHANGED <<storageVars, store, ready, nextQueueIdx, nextLeaseEpoch,
                     timerVars, statVars, timedOut, replyTo, stopVars, worker,
                     parked>>
  BY <1>1, Zenon DEF Terminate
<1>8. cmds' \in Seq(Command) /\ Len(cmds') <= ChannelCapacity
  BY <1>7, CoordinatorAssumption, SMTT(30)
<1> QED BY <1>3, <1>4, <1>5, <1>6, <1>7, <1>8, ZenonT(60) DEF TypeOK, storageVars, jobVars, timerVars,
   statVars, loopVars, stopVars, actorVars

\* The answers to submit.
LEMMA SubmitType ==
    TypeOK /\ (RejectSubmit \/ AcceptSubmit \/ ReplySubmit) => TypeOK'
<1>1. ASSUME TypeOK, RejectSubmit PROVE TypeOK'
  <2> DEFINE j == Head(cmds).job
  <2>1. Receive("Submit") /\ pc' = "loop"
    BY <1>1, Zenon DEF RejectSubmit
  <2>2. /\ j \in Jobs
        /\ cmds' \in Seq(Command) /\ Len(cmds') <= ChannelCapacity
    BY <1>1, <2>1, ReceiveType, CommandFields, Zenon
  <2>3. /\ avail' = [avail EXCEPT ![QueueOf[j]] = @ + 1]
        /\ client' = [client EXCEPT ![j] = "err"]
        /\ UNCHANGED <<storageVars, jobVars, timerVars, statVars, timedOut, replyTo,
                       stopVars, worker, canceller, shutter, parked>>
    BY <1>1, Zenon DEF RejectSubmit
  <2> HIDE DEF j
  <2>4. avail' \in [Queues -> Nat]
    <3>1. avail \in [Queues -> Nat] /\ QueueOf[j] \in Queues
      BY <1>1, <2>2, CoordinatorAssumption, ZenonT(60) DEF TypeOK
    <3> QED BY <2>3, <3>1, SMTT(30)
  <2>5. client' \in [Jobs -> {"idle", "permit", "sent", "ok", "err"}]
    <3>1. client \in [Jobs -> {"idle", "permit", "sent", "ok", "err"}]
      BY <1>1, Zenon DEF TypeOK
    <3> QED BY <2>3, <3>1, Zenon
  <2> QED BY <1>1, <2>1, <2>2, <2>3, <2>4, <2>5, ZenonT(60) DEF TypeOK, storageVars, jobVars, timerVars,
   statVars, loopVars, stopVars, actorVars
<1>2. ASSUME TypeOK, AcceptSubmit PROVE TypeOK'
  <2> DEFINE j == Head(cmds).job
             r == Record("JobSubmitted", j, 0, 0)
  <2>1. Receive("Submit") /\ pc' = "submit"
    BY <1>2, Zenon DEF AcceptSubmit
  <2>2. /\ j \in Jobs
        /\ cmds' \in Seq(Command) /\ Len(cmds') <= ChannelCapacity
    BY <1>2, <2>1, ReceiveType, CommandFields, Zenon
  <2>3. /\ logged' = ApplyRecordForRecovery(logged, r)
        /\ store' = ApplyRecord(store, r)
        /\ permits' = permits \cup {j}
        /\ ready' = [ready EXCEPT ![QueueOf[j]] = Append(@, j)]
        /\ stats' = [stats EXCEPT ![QueueOf[j]]["Queued"] = @ + 1]
        /\ replyTo' = j
        /\ submitted' = submitted + 1
        /\ UNCHANGED <<lastLease, nextQueueIdx, leases, nextLeaseEpoch, timerVars,
                       timedOut, stopVars, actorVars, parked, avail>>
    BY <1>2, Zenon DEF AcceptSubmit
  <2> HIDE DEF j
  <2>4. r \in WalRecord
    BY <2>2, RecordInType, Zenon DEF RecordType
  <2> HIDE DEF r
  <2>5. logged' \in [Jobs -> JobRecord] /\ store' \in [Jobs -> JobRecord]
    BY <1>2, <2>3, <2>4, ApplyType, ZenonT(60) DEF TypeOK
  <2>6. QueueOf[j] \in Queues
    BY <2>2, CoordinatorAssumption, Zenon
  <2>7. ready' \in [Queues -> Seq(Jobs)]
    <3>1. ready \in [Queues -> Seq(Jobs)]
      BY <1>2, ZenonT(60) DEF TypeOK
    <3> QED BY <2>2, <2>3, <2>6, <3>1, SeqAppend, ZenonT(60)
  <2>8. stats' \in [Queues -> [JobState -> Nat]]
    <3>1. stats \in [Queues -> [JobState -> Nat]]
      BY <1>2, Zenon DEF TypeOK
    <3>2. "Queued" \in JobState
      BY ZenonT(60) DEF JobState
    <3> QED BY <2>3, <2>6, <3>1, <3>2, SMTT(30)
  <2>9. permits' \subseteq Jobs /\ replyTo' \in Jobs \cup {None} /\ submitted' \in Nat
    BY <1>2, <2>2, <2>3, SMTT(30) DEF TypeOK
  <2> QED BY <1>2, <2>1, <2>2, <2>3, <2>5, <2>7, <2>8, <2>9, ZenonT(60) DEF TypeOK, storageVars, jobVars, timerVars,
   statVars, loopVars, stopVars, actorVars
<1>3. ASSUME TypeOK, ReplySubmit PROVE TypeOK'
  <2>1. client \in [Jobs -> {"idle", "permit", "sent", "ok", "err"}]
    BY <1>3, Zenon DEF TypeOK
  <2>2. /\ client' = [client EXCEPT ![replyTo] = "ok"]
        /\ replyTo' = None /\ pc' = "loop"
        /\ UNCHANGED <<storageVars, jobVars, timerVars, statVars, timedOut,
                       stopVars, worker, canceller, shutter, parked, avail, cmds>>
    BY <1>3, Zenon DEF ReplySubmit
  <2>3. client' \in [Jobs -> {"idle", "permit", "sent", "ok", "err"}]
    BY <2>1, <2>2, Zenon
  <2> QED BY <1>3, <2>2, <2>3, ZenonT(60) DEF TypeOK, storageVars, jobVars, timerVars,
   statVars, loopVars, stopVars, actorVars
<1> QED BY <1>1, <1>2, <1>3, Zenon

\* The answers to cancel.
LEMMA CancelType == TypeOK /\ (RejectCancel \/ AcceptCancel) => TypeOK'
<1>1. ASSUME TypeOK, RejectCancel PROVE TypeOK'
  <2> DEFINE j == Head(cmds).job
  <2>1. Receive("Cancel") /\ pc' = "loop"
    BY <1>1, Zenon DEF RejectCancel
  <2>2. /\ j \in Jobs
        /\ cmds' \in Seq(Command) /\ Len(cmds') <= ChannelCapacity
    BY <1>1, <2>1, ReceiveType, CommandFields, Zenon
  <2>3. /\ canceller' = [canceller EXCEPT ![j] = "err"]
        /\ UNCHANGED <<storageVars, jobVars, timerVars, statVars, timedOut, replyTo,
                       stopVars, worker, client, shutter, parked, avail>>
    BY <1>1, Zenon DEF RejectCancel
  <2> HIDE DEF j
  <2>4. canceller' \in [Jobs -> {"idle", "sent", "ok", "err"}]
    <3>1. canceller \in [Jobs -> {"idle", "sent", "ok", "err"}]
      BY <1>1, Zenon DEF TypeOK
    <3> QED BY <2>3, <3>1, Zenon
  <2> QED BY <1>1, <2>1, <2>2, <2>3, <2>4, ZenonT(60) DEF TypeOK, storageVars, jobVars, timerVars,
   statVars, loopVars, stopVars, actorVars
<1>2. ASSUME TypeOK, AcceptCancel PROVE TypeOK'
  <2> DEFINE j == Head(cmds).job
             r == Record("JobCancelled", j, 0, 0)
  <2>1. Receive("Cancel") /\ pc' = "loop"
    BY <1>2, ZenonT(30) DEF AcceptCancel
  <2>2. /\ j \in Jobs
        /\ cmds' \in Seq(Command) /\ Len(cmds') <= ChannelCapacity
    BY <1>2, <2>1, ReceiveType, CommandFields, Zenon
  <2>3. /\ store[j].state \in Live
        /\ logged' = ApplyRecordForRecovery(logged, r)
        /\ store' = ApplyRecord(store, r)
        /\ ready' = DropReady(j) \/ ready' = ready
        /\ leases' = DropLease(j) \/ leases' = leases
        /\ stats' = MoveStat(QueueOf[j], store[j].state, "Cancelled")
        /\ ReleasePermit(j)
        /\ canceller' = [canceller EXCEPT ![j] = "ok"]
        /\ UNCHANGED <<lastLease, nextQueueIdx, nextLeaseEpoch, timerVars, submitted,
                       timedOut, replyTo, stopVars, worker, client, shutter, parked>>
    BY <1>2, Zenon DEF AcceptCancel
  <2> HIDE DEF j
  <2>4. r \in WalRecord
    BY <2>2, RecordInType, Zenon DEF RecordType
  <2> HIDE DEF r
  <2>5. logged' \in [Jobs -> JobRecord] /\ store' \in [Jobs -> JobRecord]
    BY <1>2, <2>3, <2>4, ApplyType, ZenonT(30) DEF TypeOK
  <2>6. QueueOf[j] \in Queues
    BY <2>2, CoordinatorAssumption, Zenon
  <2>7. ready' \in [Queues -> Seq(Jobs)]
    <3>1. ready \in [Queues -> Seq(Jobs)]
      BY <1>2, Zenon DEF TypeOK
    <3>2. Without(ready[QueueOf[j]], j) \in Seq(Jobs)
      BY <2>6, <3>1, WithoutType, Zenon
    <3> QED BY <2>3, <2>6, <3>1, <3>2, ZenonT(60) DEF DropReady
  <2>8. leases' \in [Jobs -> [epoch : Nat, expired : BOOLEAN]]
    <3>1. leases \in [Jobs -> [epoch : Nat, expired : BOOLEAN]]
      BY <1>2, Zenon DEF TypeOK
    <3>2. NoLease \in [epoch : Nat, expired : BOOLEAN]
      BY Zenon DEF NoLease
    <3> QED BY <2>2, <2>3, <3>1, <3>2, Zenon DEF DropLease
  <2>9. stats' \in [Queues -> [JobState -> Nat]]
    <3>1. stats \in [Queues -> [JobState -> Nat]]
      BY <1>2, Zenon DEF TypeOK
    <3>2. store[j].state \in JobState /\ "Cancelled" \in JobState
      BY <2>3, Zenon DEF Live, JobState
    <3> QED BY <2>3, <2>6, <3>1, <3>2, MoveStatType, ZenonT(60)
  <2>10. permits' \subseteq Jobs /\ avail' \in [Queues -> Nat]
    BY <1>2, <2>2, <2>3, ReleasePermitType, ZenonT(60)
  <2>11. canceller' \in [Jobs -> {"idle", "sent", "ok", "err"}]
    <3>1. canceller \in [Jobs -> {"idle", "sent", "ok", "err"}]
      BY <1>2, Zenon DEF TypeOK
    <3> QED BY <2>3, <3>1, ZenonT(60)
  <2> QED BY <1>2, <2>1, <2>2, <2>3, <2>5, <2>7, <2>8, <2>9, <2>10, <2>11, ZenonT(60)
     DEF TypeOK, storageVars, jobVars, timerVars,
   statVars, loopVars, stopVars, actorVars
<1> QED BY <1>1, <1>2, Zenon

\* A fetch that finds nothing, an outcome under a stale lease, and shutdown.
LEMMA FetchStaleShutdownType ==
    TypeOK /\ (ParkFetcher \/ StaleOutcome \/ StartShutdown) => TypeOK'
<1>1. ASSUME TypeOK, ParkFetcher PROVE TypeOK'
  <2> DEFINE w == Head(cmds).worker
  <2>1. Receive("FetchWork") /\ pc' = "loop"
    BY <1>1, Zenon DEF ParkFetcher
  <2>2. /\ w \in Workers
        /\ cmds' \in Seq(Command) /\ Len(cmds') <= ChannelCapacity
    BY <1>1, <2>1, ReceiveType, CommandFields, Zenon
  <2>3. /\ \/ /\ worker' = [worker EXCEPT
                               ![w].at = IF @ = "waiting" THEN "refused" ELSE @]
              /\ parked' = parked
           \/ worker' = worker /\ parked' = Append(parked, w)
        /\ UNCHANGED <<storageVars, jobVars, timerVars, statVars, timedOut, replyTo,
                       stopVars, client, canceller, shutter, avail>>
    BY <1>1, Zenon DEF ParkFetcher
  <2> HIDE DEF w
  <2>4. worker \in [Workers -> WorkerState] /\ parked \in Seq(Workers)
    BY <1>1, Zenon DEF TypeOK
  <2>5. worker' \in [Workers -> WorkerState]
    <3> DEFINE at == IF worker[w].at = "waiting" THEN "refused" ELSE worker[w].at
    <3>1. worker' = [worker EXCEPT ![w].at = at] \/ worker' = worker
      BY <2>3, Zenon
    <3>2. [worker[w] EXCEPT !.at = at] \in WorkerState
      BY <2>2, <2>4, ZenonT(60) DEF WorkerState
    <3> HIDE DEF at
    <3>3. [worker EXCEPT ![w].at = at] = [worker EXCEPT ![w] = [worker[w] EXCEPT !.at = at]]
      BY <2>2, <2>4, Zenon
    <3> QED BY <2>2, <2>4, <3>1, <3>2, <3>3, Zenon
  <2>6. parked' \in Seq(Workers)
    BY <2>2, <2>3, <2>4, SeqAppend, ZenonT(60)
  <2> QED BY <1>1, <2>1, <2>2, <2>3, <2>5, <2>6, ZenonT(60) DEF TypeOK, storageVars, jobVars, timerVars,
   statVars, loopVars, stopVars, actorVars
<1>2. ASSUME TypeOK, StaleOutcome PROVE TypeOK'
  <2>1. Receive("WorkerOutcome") /\ pc' = "loop"
    BY <1>2, Zenon DEF StaleOutcome
  <2>2. cmds' \in Seq(Command) /\ Len(cmds') <= ChannelCapacity
    BY <1>2, <2>1, ReceiveType, Zenon
  <2>3. UNCHANGED <<storageVars, jobVars, timerVars, statVars, timedOut, replyTo,
                    stopVars, actorVars, parked, avail>>
    BY <1>2, Zenon DEF StaleOutcome
  <2> QED BY <1>2, <2>1, <2>2, <2>3, Zenon DEF TypeOK, storageVars, jobVars, timerVars,
   statVars, loopVars, stopVars, actorVars
<1>3. ASSUME TypeOK, StartShutdown PROVE TypeOK'
  <2>1. Receive("Shutdown") /\ pc' = "loop" /\ parked' = <<>>
    BY <1>3, Zenon DEF StartShutdown
  <2>2. cmds' \in Seq(Command) /\ Len(cmds') <= ChannelCapacity
    BY <1>3, <2>1, ReceiveType, Zenon
  <2>3. worker' \in [Workers -> WorkerState]
    <3>1. worker \in [Workers -> WorkerState]
      BY <1>3, Zenon DEF TypeOK
    <3>2. \A w \in Workers : [worker[w] EXCEPT !.at = "refused"] \in WorkerState
      BY <3>1, Zenon DEF WorkerState
    <3>3. worker' = [w \in Workers |->
                        IF w \in Range(parked) /\ worker[w].at = "waiting"
                        THEN [worker[w] EXCEPT !.at = "refused"]
                        ELSE worker[w]]
      BY <1>3, Zenon DEF StartShutdown
    <3> QED BY <3>1, <3>2, <3>3, Zenon
  <2>4. deadline' \in {"none", "set", "elapsed"}
    <3>1. deadline \in {"none", "set", "elapsed"}
      BY <1>3, Zenon DEF TypeOK
    <3> QED BY <1>3, <3>1, Zenon DEF StartShutdown
  <2>5. shutter' \in {"held", "replied"}
    BY <1>3, Zenon DEF StartShutdown, ShutdownReply
  <2>6. shuttingDown' \in BOOLEAN
    <3>1. shuttingDown' = TRUE
      BY <1>3, Zenon DEF StartShutdown
    <3> QED BY <3>1, Zenon
  <2>7. UNCHANGED <<storageVars, jobVars, timerVars, statVars, timedOut, replyTo,
                    client, canceller, avail>>
    BY <1>3, Zenon DEF StartShutdown
  <2>8. parked' \in Seq(Workers)
    BY <2>1, SMTT(30)
  <2> QED BY <1>3, <2>1, <2>2, <2>3, <2>4, <2>5, <2>6, <2>7, <2>8, Zenon
     DEF TypeOK, storageVars, jobVars, timerVars,
   statVars, loopVars, stopVars, actorVars
<1> QED BY <1>1, <1>2, <1>3, Zenon

\* Every step of the coordinator keeps the types.
LEMMA CoordinatorType == JobsCount /\ TypeOK /\ CoordinatorStep => TypeOK'
BY ProcessDueRetryType, LoopType, OutcomeType, DispatchType, TerminateType,
   SubmitType, CancelType, FetchStaleShutdownType, ZenonT(60) DEF CoordinatorStep

\* The callers.
LEMMA ClientType ==
    ASSUME TypeOK, NEW j \in Jobs,
           \/ AcquirePermit(j) \/ PermitRefused(j) \/ SendSubmit(j) \/ DropSubmit(j)
           \/ SendCancel(j)
    PROVE  TypeOK'
<1>1. /\ client \in [Jobs -> {"idle", "permit", "sent", "ok", "err"}]
      /\ canceller \in [Jobs -> {"idle", "sent", "ok", "err"}]
      /\ avail \in [Queues -> Nat]
      /\ cmds \in Seq(Command) /\ Len(cmds) <= ChannelCapacity
      /\ QueueOf[j] \in Queues
  BY CoordinatorAssumption, Zenon DEF TypeOK
<1>2. /\ [kind |-> "Submit", job |-> j] \in Command
      /\ [kind |-> "Cancel", job |-> j] \in Command
  BY Zenon DEF Command
<1>3. CASE AcquirePermit(j)
  <2>1. /\ avail[QueueOf[j]] > 0
        /\ avail' = [avail EXCEPT ![QueueOf[j]] = @ - 1]
        /\ client' = [client EXCEPT ![j] = "permit"]
        /\ UNCHANGED <<ownVars, cmds, worker, canceller, shutter>>
    BY <1>3, Zenon DEF AcquirePermit
  <2>2. avail' \in [Queues -> Nat]
    BY <1>1, <2>1, SMTT(30)
  <2>3. client' \in [Jobs -> {"idle", "permit", "sent", "ok", "err"}]
    BY <1>1, <2>1, Zenon
  <2> QED BY <2>1, <2>2, <2>3, ZenonT(60) DEF TypeOK, ownVars, storageVars, jobVars, timerVars,
   statVars, loopVars, stopVars, actorVars
<1>4. CASE PermitRefused(j)
  <2>1. /\ client' = [client EXCEPT ![j] = "err"]
        /\ UNCHANGED <<ownVars, avail, cmds, worker, canceller, shutter>>
    BY <1>4, Zenon DEF PermitRefused
  <2>2. client' \in [Jobs -> {"idle", "permit", "sent", "ok", "err"}]
    BY <1>1, <2>1, Zenon
  <2> QED BY <2>1, <2>2, ZenonT(60) DEF TypeOK, ownVars, storageVars, jobVars, timerVars,
   statVars, loopVars, stopVars, actorVars
<1>5. CASE SendSubmit(j)
  <2>1. /\ CanSend
        /\ cmds' = Append(cmds, [kind |-> "Submit", job |-> j])
        /\ client' = [client EXCEPT ![j] = "sent"]
        /\ UNCHANGED <<ownVars, avail, worker, canceller, shutter>>
    BY <1>5, Zenon DEF SendSubmit
  <2>2. client' \in [Jobs -> {"idle", "permit", "sent", "ok", "err"}]
    BY <1>1, <2>1, Zenon
  <2>3. cmds' \in Seq(Command) /\ Len(cmds') <= ChannelCapacity
    BY <1>2, <2>1, SendType, Zenon
  <2> QED BY <2>1, <2>2, <2>3, ZenonT(60) DEF TypeOK, ownVars, storageVars, jobVars, timerVars,
   statVars, loopVars, stopVars, actorVars
<1>6. CASE DropSubmit(j)
  <2>1. /\ avail' = [avail EXCEPT ![QueueOf[j]] = @ + 1]
        /\ client' = [client EXCEPT ![j] = "err"]
        /\ UNCHANGED <<ownVars, cmds, worker, canceller, shutter>>
    BY <1>6, Zenon DEF DropSubmit
  <2>2. avail' \in [Queues -> Nat]
    BY <1>1, <2>1, SMTT(30)
  <2>3. client' \in [Jobs -> {"idle", "permit", "sent", "ok", "err"}]
    BY <1>1, <2>1, Zenon
  <2> QED BY <2>1, <2>2, <2>3, ZenonT(60) DEF TypeOK, ownVars, storageVars, jobVars, timerVars,
   statVars, loopVars, stopVars, actorVars
<1>7. CASE SendCancel(j)
  <2>1. /\ CanSend
        /\ cmds' = Append(cmds, [kind |-> "Cancel", job |-> j])
        /\ canceller' = [canceller EXCEPT ![j] = "sent"]
        /\ UNCHANGED <<ownVars, avail, worker, client, shutter>>
    BY <1>7, Zenon DEF SendCancel
  <2>2. canceller' \in [Jobs -> {"idle", "sent", "ok", "err"}]
    BY <1>1, <2>1, Zenon
  <2>3. cmds' \in Seq(Command) /\ Len(cmds') <= ChannelCapacity
    BY <1>2, <2>1, SendType, Zenon
  <2> QED BY <2>1, <2>2, <2>3, ZenonT(60) DEF TypeOK, ownVars, storageVars, jobVars, timerVars,
   statVars, loopVars, stopVars, actorVars
<1> QED BY <1>3, <1>4, <1>5, <1>6, <1>7, ZenonT(60)

\* Shutdown requests and the clock.
LEMMA ClockType ==
    TypeOK /\ (\/ SendShutdown \/ RetryBecomesDue \/ DeadlineElapses
               \/ \E j \in Jobs : LeaseExpires(j)) => TypeOK'
<1>1. ASSUME TypeOK, SendShutdown PROVE TypeOK'
  <2>1. /\ CanSend
        /\ cmds' = Append(cmds, [kind |-> "Shutdown"])
        /\ shutter' = "sent"
        /\ UNCHANGED <<ownVars, avail, worker, client, canceller>>
    BY <1>1, Zenon DEF SendShutdown
  <2>2. [kind |-> "Shutdown"] \in Command
    BY Zenon DEF Command
  <2>3. cmds' \in Seq(Command) /\ Len(cmds') <= ChannelCapacity
    BY <1>1, <2>1, <2>2, SendType, Zenon
  <2> QED BY <1>1, <2>1, <2>3, ZenonT(60) DEF TypeOK, ownVars, storageVars, jobVars, timerVars,
   statVars, loopVars, stopVars, actorVars
<1>2. ASSUME TypeOK, RetryBecomesDue PROVE TypeOK'
  <2>1. /\ dueCount < Len(retryQueue)
        /\ dueCount' = dueCount + 1 /\ retryQueue' = retryQueue
        /\ UNCHANGED <<storageVars, jobVars, statVars, loopVars, stopVars, actorVars,
                       parked, avail, cmds>>
    BY <1>2, Zenon DEF RetryBecomesDue
  <2>2. dueCount' \in 0 .. Len(retryQueue')
    <3>1. retryQueue \in Seq(Jobs) /\ dueCount \in 0 .. Len(retryQueue)
      BY <1>2, Zenon DEF TypeOK
    <3>2. Len(retryQueue) \in Nat
      BY <3>1, SeqLen, Zenon
    <3> QED BY <2>1, <3>1, <3>2, SMTT(30)
  <2> QED BY <1>2, <2>1, <2>2, ZenonT(60) DEF TypeOK, storageVars, jobVars, timerVars,
   statVars, loopVars, stopVars, actorVars
<1>3. ASSUME TypeOK, DeadlineElapses PROVE TypeOK'
  BY <1>3, Zenon DEF DeadlineElapses, TypeOK, storageVars, jobVars, timerVars,
   statVars, loopVars, stopVars, actorVars
<1>4. ASSUME TypeOK, NEW j \in Jobs, LeaseExpires(j) PROVE TypeOK'
  <2>1. /\ leases' = [leases EXCEPT ![j].expired = TRUE]
        /\ UNCHANGED <<storageVars, store, ready, nextQueueIdx, permits,
                       nextLeaseEpoch, timerVars, statVars, loopVars, stopVars,
                       actorVars, parked, avail, cmds>>
    BY <1>4, Zenon DEF LeaseExpires
  <2>2. leases' \in [Jobs -> [epoch : Nat, expired : BOOLEAN]]
    <3>1. leases \in [Jobs -> [epoch : Nat, expired : BOOLEAN]]
      BY <1>4, Zenon DEF TypeOK
    <3> QED BY <2>1, <3>1, Zenon
  <2> QED BY <1>4, <2>1, <2>2, ZenonT(60) DEF TypeOK, storageVars, jobVars, timerVars,
   statVars, loopVars, stopVars, actorVars
<1> QED BY <1>1, <1>2, <1>3, <1>4, ZenonT(60)

\* The workers.
LEMMA WorkerType ==
    ASSUME TypeOK, NEW w \in Workers,
           WorkerStep(w) \/ \E o \in HandlerOutcomes : HandlerEnds(w, o)
    PROVE  TypeOK'
<1>1. worker \in [Workers -> WorkerState]
  BY Zenon DEF TypeOK
<1>2. IdleWorker \in WorkerState
  BY Zenon DEF IdleWorker, WorkerState
<1>3. ASSUME NEW at \in {"sending", "waiting", "stopped", "executing"},
             at = "executing" => worker[w].at = "offered",
             worker' = [worker EXCEPT ![w].at = at]
      PROVE  worker' \in [Workers -> WorkerState]
  BY <1>1, <1>3, ZenonT(60) DEF WorkerState
<1>4. ASSUME NEW o \in WorkerOutcome, worker[w].at = "executing",
             worker' = [worker EXCEPT ![w].at = "reporting", ![w].outcome = o]
      PROVE  worker' \in [Workers -> WorkerState]
  BY <1>1, <1>4, ZenonT(60) DEF WorkerState
<1>5. ASSUME worker' \in [Workers -> WorkerState], UNCHANGED workerFrame,
             cmds' \in Seq(Command) /\ Len(cmds') <= ChannelCapacity
      PROVE  TypeOK'
  BY <1>5, ZenonT(60) DEF TypeOK, workerFrame, ownVars, storageVars, jobVars, timerVars,
   statVars, loopVars, stopVars, actorVars
<1>6. cmds \in Seq(Command) /\ Len(cmds) <= ChannelCapacity
  BY Zenon DEF TypeOK
<1>7. CASE WorkerCheckToken(w)
  <2>1. /\ worker' = [worker EXCEPT ![w].at = IF shuttingDown THEN "stopped" ELSE "sending"]
        /\ UNCHANGED <<workerFrame, cmds>>
    BY <1>7, Zenon DEF WorkerCheckToken
  <2>2. (IF shuttingDown THEN "stopped" ELSE "sending")
            \in {"sending", "waiting", "stopped", "executing"} \ {"executing"}
    BY Zenon
  <2>3. worker' \in [Workers -> WorkerState]
    BY <1>3, <2>1, <2>2, Zenon
  <2> QED BY <1>5, <1>6, <2>1, <2>3, Zenon
<1>8. CASE WorkerFetch(w)
  <2>1. /\ CanSend
        /\ cmds' = Append(cmds, [kind |-> "FetchWork", worker |-> w])
        /\ worker' = [worker EXCEPT ![w].at = "waiting"]
        /\ UNCHANGED workerFrame
    BY <1>8, Zenon DEF WorkerFetch
  <2>2. [kind |-> "FetchWork", worker |-> w] \in Command
    BY Zenon DEF Command
  <2>3. cmds' \in Seq(Command) /\ Len(cmds') <= ChannelCapacity
    BY <2>1, <2>2, SendType, Zenon
  <2>4. worker' \in [Workers -> WorkerState]
    BY <1>3, <2>1, Zenon
  <2> QED BY <1>5, <2>1, <2>3, <2>4, Zenon
<1>9. CASE WorkerStop(w)
  <2>1. worker' = [worker EXCEPT ![w].at = "stopped"] /\ UNCHANGED <<workerFrame, cmds>>
    BY <1>9, Zenon DEF WorkerStop
  <2>2. worker' \in [Workers -> WorkerState]
    BY <1>3, <2>1, Zenon
  <2> QED BY <1>5, <1>6, <2>1, <2>2, Zenon
<1>10. CASE WorkerStart(w)
  <2>1. /\ worker[w].at = "offered"
        /\ worker' = [worker EXCEPT ![w].at = "executing"]
        /\ UNCHANGED <<workerFrame, cmds>>
    BY <1>10, Zenon DEF WorkerStart
  <2>2. worker' \in [Workers -> WorkerState]
    BY <1>3, <2>1, Zenon
  <2> QED BY <1>5, <1>6, <2>1, <2>2, Zenon
<1>11. CASE HandlerAborted(w) \/ \E o \in HandlerOutcomes : HandlerEnds(w, o)
  <2>1. PICK o \in WorkerOutcome :
             worker' = [worker EXCEPT ![w].at = "reporting", ![w].outcome = o]
    BY <1>11, RuntimeAssumption, Zenon DEF HandlerAborted, HandlerEnds, WorkerOutcome
  <2>2. worker[w].at = "executing" /\ UNCHANGED <<workerFrame, cmds>>
    BY <1>11, Zenon DEF HandlerAborted, HandlerEnds
  <2>3. worker' \in [Workers -> WorkerState]
    BY <1>4, <2>1, <2>2, Zenon
  <2> QED BY <1>5, <1>6, <2>2, <2>3, Zenon
<1>12. CASE WorkerReport(w)
  <2> DEFINE cmd == [kind |-> "WorkerOutcome", work |-> worker[w].work,
                     outcome |-> worker[w].outcome]
  <2>1. /\ (CanSend /\ cmds' = Append(cmds, cmd)) \/ cmds' = cmds
        /\ worker' = [worker EXCEPT ![w] = IdleWorker]
        /\ UNCHANGED workerFrame
        /\ worker[w].at = "reporting"
    BY <1>12, Zenon DEF WorkerReport
  <2>2. cmd \in Command
    BY <1>1, <2>1, Zenon DEF WorkerState, Command
  <2> HIDE DEF cmd
  <2>3. cmds' \in Seq(Command) /\ Len(cmds') <= ChannelCapacity
    BY <1>6, <2>1, <2>2, SendType, Zenon
  <2>4. worker' \in [Workers -> WorkerState]
    BY <1>1, <1>2, <2>1, Zenon
  <2> QED BY <1>5, <2>1, <2>3, <2>4, Zenon
<1> QED BY <1>7, <1>8, <1>9, <1>10, <1>11, <1>12, ZenonT(60) DEF WorkerStep

\* The type invariant is preserved by every step.
LEMMA TypeStep == JobsCount /\ TypeOK /\ [Next]_vars => TypeOK'
<1>1. ASSUME TypeOK, UNCHANGED vars PROVE TypeOK'
  BY <1>1, ZenonT(60) DEF TypeOK, vars, storageVars, jobVars, timerVars,
   statVars, loopVars, stopVars, actorVars
<1>2. ASSUME TypeOK, Stopped PROVE TypeOK'
  BY <1>1, <1>2, Zenon DEF Stopped
<1> QED BY <1>1, <1>2, CoordinatorType, ClientType, ClockType, WorkerType, ZenonT(60) DEF Next

-----------------------------------------------------------------------------
\* What the handlers make of a job, in memory and in the log.

\* A job in memory and in the log.
LEMMA Matched ==
    ASSUME SafetyInv, NEW j \in Jobs
    PROVE  /\ store[j] \in JobRecord /\ logged[j] \in JobRecord
           /\ logged[j].attempts = store[j].attempts
           /\ store[j].state # "Queued" => logged[j] = store[j]
           /\ store[j].state = "Queued" => logged[j].state \in {"Queued", "RetryWaiting"}
<1>1. store[j] \in JobRecord /\ logged[j] \in JobRecord
  BY Zenon DEF SafetyInv, TypeOK
<1>2. CASE store[j] = logged[j]
  BY <1>1, <1>2, Zenon
<1>3. CASE /\ store[j] = [logged[j] EXCEPT !.state = "Queued"]
           /\ logged[j].state = "RetryWaiting"
  BY <1>1, <1>3, Zenon DEF JobRecord
<1> QED BY <1>2, <1>3, Zenon DEF SafetyInv, MemoryMatchesLog

\* A record that persist and apply_record both accept.
LEMMA RecordEffect ==
    ASSUME SafetyInv, NEW j \in Jobs, NEW type, NEW e, NEW n,
           store[j].state # "Absent" \/ type = "JobSubmitted", NEW a,
           a = (CASE type = "JobSubmitted" -> 0
                  [] type = "JobLeased" -> n
                  [] OTHER -> store[j].attempts)
    PROVE  /\ ApplyRecord(store, Record(type, j, e, n)) =
                  [store EXCEPT ![j] = [state |-> TargetState[type], attempts |-> a]]
           /\ ApplyRecordForRecovery(logged, Record(type, j, e, n)) =
                  [logged EXCEPT ![j] = [state |-> TargetState[type], attempts |-> a]]
<1> DEFINE r == Record(type, j, e, n)
<1>1. r.id = j /\ r.type = type /\ r.attempt = n
  BY Zenon DEF Record
<1> HIDE DEF r
<1>2. logged[j].attempts = store[j].attempts
  BY Matched, Zenon
<1>3. logged[j].state # "Absent" \/ type = "JobSubmitted"
  BY Matched, Zenon
<1>4. /\ Entry(store[j], r) = [state |-> TargetState[type], attempts |-> a]
      /\ Entry(logged[j], r) = [state |-> TargetState[type], attempts |-> a]
  BY <1>1, <1>2, Zenon DEF Entry
<1>5. ApplyRecord(store, r) = [store EXCEPT ![j] = [state |-> TargetState[type], attempts |-> a]]
  BY <1>1, <1>4, Zenon DEF ApplyRecord
<1>6. ApplyRecordForRecovery(logged, r) =
          [logged EXCEPT ![j] = [state |-> TargetState[type], attempts |-> a]]
  BY <1>1, <1>3, <1>4, Zenon DEF ApplyRecord, ApplyRecordForRecovery
<1> QED BY <1>5, <1>6, Zenon DEF r

\* A granted lease.
LEMMA GrantEffect ==
    ASSUME SafetyInv, NEW q \in Queues, NEW w \in Workers, GrantLease(q, w),
           NEW j, j = Head(ready[q])
    PROVE  /\ ready[q] # <<>> /\ j \in Jobs /\ store[j].state = "Queued"
           /\ store' = [store EXCEPT ![j] = [state    |-> "Running",
                                             attempts |-> store[j].attempts + 1]]
           /\ logged' = [logged EXCEPT ![j] = [state    |-> "Running",
                                               attempts |-> store[j].attempts + 1]]
<1> DEFINE n == store[j].attempts + 1
           r == Record("JobLeased", j, nextLeaseEpoch, n)
<1>1. /\ ready[q] # <<>> /\ store[j].state = "Queued"
      /\ logged' = ApplyRecordForRecovery(logged, r)
      /\ store' = ApplyRecord(store, r)
  BY Zenon DEF GrantLease, EpochAfter, Leaseable
<1>2. j \in Jobs
  BY GrantLeaseType, Zenon DEF SafetyInv
<1>3. TargetState["JobLeased"] = "Running"
  BY Zenon DEF TargetState
<1> HIDE DEF n
<1>4. n = (CASE "JobLeased" = "JobSubmitted" -> 0 [] "JobLeased" = "JobLeased" -> n
             [] OTHER -> store[j].attempts)
  BY Zenon
<1>5. /\ store' = [store EXCEPT ![j] = [state |-> "Running", attempts |-> n]]
      /\ logged' = [logged EXCEPT ![j] = [state |-> "Running", attempts |-> n]]
  BY <1>1, <1>2, <1>3, <1>4, RecordEffect, SMTT(30)
<1> QED BY <1>1, <1>2, <1>5, Zenon DEF n

\* An accepted Submit: nobody has seen the job before.
LEMMA SubmitEffect ==
    ASSUME SafetyInv, AcceptSubmit, NEW j, j = Head(cmds).job
    PROVE  /\ j \in Jobs /\ client[j] = "sent"
           /\ store[j] = Absent /\ logged[j] = Absent
           /\ store' = [store EXCEPT ![j] = [state |-> "Queued", attempts |-> 0]]
           /\ logged' = [logged EXCEPT ![j] = [state |-> "Queued", attempts |-> 0]]
<1>1. /\ Receive("Submit")
      /\ logged' = ApplyRecordForRecovery(logged, Record("JobSubmitted", j, 0, 0))
      /\ store' = ApplyRecord(store, Record("JobSubmitted", j, 0, 0))
  BY Zenon DEF AcceptSubmit
<1>2. j \in Jobs /\ client[j] = "sent" /\ store[j] = Absent
  BY <1>1, HeadSubmit, Zenon
<1>3. logged[j] = Absent
  BY <1>2, Matched, SMTT(30) DEF Absent
<1>4. TargetState["JobSubmitted"] = "Queued"
  BY Zenon DEF TargetState
<1>5. 0 = (CASE "JobSubmitted" = "JobSubmitted" -> 0 [] "JobSubmitted" = "JobLeased" -> 0
             [] OTHER -> store[j].attempts)
  BY Zenon
<1> QED BY <1>1, <1>2, <1>3, <1>4, <1>5, RecordEffect, SMTT(30)

\* An accepted Cancel: the job is live.
LEMMA CancelEffect ==
    ASSUME SafetyInv, AcceptCancel, NEW j, j = Head(cmds).job
    PROVE  /\ j \in Jobs /\ store[j].state \in Live /\ store[j].state # "Absent"
           /\ store' = [store EXCEPT ![j] = [state    |-> "Cancelled",
                                             attempts |-> store[j].attempts]]
           /\ logged' = [logged EXCEPT ![j] = [state    |-> "Cancelled",
                                               attempts |-> store[j].attempts]]
<1>1. /\ Receive("Cancel") /\ store[j].state \in Live
      /\ logged' = ApplyRecordForRecovery(logged, Record("JobCancelled", j, 0, 0))
      /\ store' = ApplyRecord(store, Record("JobCancelled", j, 0, 0))
  BY Zenon DEF AcceptCancel
<1>2. j \in Jobs
  BY <1>1, ReceiveType, CommandFields, ZenonT(60) DEF SafetyInv
<1>3. store[j].state # "Absent"
  BY <1>1, Zenon DEF Live, JobState
<1>4. TargetState["JobCancelled"] = "Cancelled"
  BY Zenon DEF TargetState
<1> DEFINE n == store[j].attempts
<1>5. n = (CASE "JobCancelled" = "JobSubmitted" -> 0 [] "JobCancelled" = "JobLeased" -> 0
             [] OTHER -> store[j].attempts)
  BY Zenon
<1> HIDE DEF n
<1>6. /\ store' = [store EXCEPT ![j] = [state |-> "Cancelled", attempts |-> n]]
      /\ logged' = [logged EXCEPT ![j] = [state |-> "Cancelled", attempts |-> n]]
  BY <1>1, <1>2, <1>3, <1>4, <1>5, RecordEffect, SMTT(30)
<1> QED BY <1>1, <1>2, <1>3, <1>6, ZenonT(60) DEF n

\* A timer that is due: of a job that waits for it, or of one cancelled meanwhile.
LEMMA RetryEffect ==
    ASSUME SafetyInv, ProcessDueRetry, NEW j, j = Head(retryQueue)
    PROVE  /\ retryQueue # <<>> /\ j \in Jobs
           /\ store[j].state = "RetryWaiting" =>
                 store' = [store EXCEPT ![j] = [state    |-> "Queued",
                                                attempts |-> store[j].attempts]]
           /\ store[j].state # "RetryWaiting" => store' = store
<1>1. retryQueue \in Seq(Jobs) /\ dueCount \in 0 .. Len(retryQueue) /\ dueCount > 0
  BY Zenon DEF SafetyInv, TypeOK, ProcessDueRetry
<1>2. retryQueue # <<>>
  BY <1>1, SMTT(30)
<1>3. j \in Jobs
  BY <1>1, <1>2, SeqHeadTail, Zenon
<1>4. IF store[j].state = "RetryWaiting"
      THEN store' = [store EXCEPT ![j].state = "Queued"] ELSE store' = store
  BY Zenon DEF ProcessDueRetry, TransitionToQueued
<1>5. store \in [Jobs -> JobRecord]
  BY Zenon DEF SafetyInv, TypeOK
<1>6. [store EXCEPT ![j].state = "Queued"] =
          [store EXCEPT ![j] = [state |-> "Queued", attempts |-> store[j].attempts]]
  <2> DEFINE e == [store[j] EXCEPT !.state = "Queued"]
             f == [state |-> "Queued", attempts |-> store[j].attempts]
  <2>1. e = f
    BY <1>3, <1>5, SMTT(30) DEF JobRecord
  <2>2. [store EXCEPT ![j].state = "Queued"] = [store EXCEPT ![j] = e]
    BY Zenon
  <2> HIDE DEF e, f
  <2>3. [store EXCEPT ![j] = e] = [store EXCEPT ![j] = f]
    BY <2>1, Zenon
  <2> QED BY <2>2, <2>3, Zenon DEF f
<1> QED BY <1>2, <1>3, <1>4, <1>6, Zenon

\* The handlers that settle a lease: one that is out, in one of three ways.
LEMMA LeaseSettled ==
    ASSUME SafetyInv, SettleTimeout \/ CurrentOutcome
    PROVE  \E j \in Jobs, ok \in BOOLEAN,
              type \in {"JobRetryScheduled", "JobCompleted", "JobDead"} :
                 /\ leases[j] # NoLease /\ Settle(j, type, ok)
                 /\ type = "JobRetryScheduled" => store[j].attempts < MaxAttempts[j]
                 /\ ok \/ PersistMayFail
<1> DEFINE Goal == \E j \in Jobs, ok \in BOOLEAN,
              type \in {"JobRetryScheduled", "JobCompleted", "JobDead"} :
                 /\ leases[j] # NoLease /\ Settle(j, type, ok)
                 /\ type = "JobRetryScheduled" => store[j].attempts < MaxAttempts[j]
                 /\ ok \/ PersistMayFail
<1>1. ASSUME NEW j \in Jobs, NEW ok \in PersistOutcome, NEW type,
             leases[j] # NoLease, Settle(j, type, ok),
             type \in {"JobCompleted", "JobDead", RetryOrDead(j)}
      PROVE  Goal
  <2>1. store[j].attempts \in Nat /\ MaxAttempts[j] \in Nat
    BY <1>1, JobsAssumption, ZenonT(60) DEF SafetyInv, TypeOK, JobRecord
  <2>2. /\ type \in {"JobRetryScheduled", "JobCompleted", "JobDead"}
        /\ type = "JobRetryScheduled" => store[j].attempts < MaxAttempts[j]
    BY <1>1, <2>1, SMTT(30) DEF RetryOrDead
  <2>3. ok \in BOOLEAN /\ (ok \/ PersistMayFail)
    BY <1>1, Zenon DEF PersistOutcome
  <2> QED BY <1>1, <2>2, <2>3, ZenonT(60)
<1>2. ASSUME SettleTimeout PROVE Goal
  <2>1. PICK j \in timedOut, ok \in PersistOutcome : Settle(j, RetryOrDead(j), ok)
    BY <1>2, Zenon DEF SettleTimeout
  <2>2. j \in Jobs /\ leases[j] # NoLease
    BY <1>2, <2>1, ZenonT(60) DEF SafetyInv, TypeOK, TimedOutAreLeased
  <2> HIDE DEF Goal
  <2> QED BY <1>1, <1>2, <2>1, <2>2, Zenon
<1>3. ASSUME CurrentOutcome PROVE Goal
  <2> DEFINE work == Head(cmds).work
  <2>1. /\ Receive("WorkerOutcome") /\ leases[work.job].epoch = work.lease
        /\ \E ok \in PersistOutcome :
              Settle(work.job, OutcomeRecord(work.job, Head(cmds).outcome), ok)
    BY <1>3, Zenon DEF CurrentOutcome, IsCurrent
  <2>2. work \in LeasedJob
    BY <1>3, <2>1, ReceiveType, CommandFields, ZenonT(60) DEF SafetyInv
  <2>3. OutcomeRecord(work.job, Head(cmds).outcome)
            \in {"JobCompleted", "JobDead", RetryOrDead(work.job)}
    BY Zenon DEF OutcomeRecord
  <2> HIDE DEF work, Goal
  <2>4. work.job \in Jobs /\ leases[work.job] # NoLease
    BY <2>1, <2>2, SMTT(30) DEF LeasedJob, NoLease
  <2> QED BY <1>1, <1>3, <2>1, <2>3, <2>4, ZenonT(60)
<1> HIDE DEF Goal
<1>4. Goal
  BY <1>2, <1>3, Zenon
<1> QED BY <1>4, Zenon DEF Goal

\* What settling the lease of j does: its job is Running in memory and in the
\* log, so what persist accepts is also exposed.
Settled(j, type, ok, to) ==
    /\ store[j].state = "Running" /\ logged[j] = store[j]
    /\ to = IF type = "JobRetryScheduled" THEN "RetryWaiting"
            ELSE IF type = "JobCompleted" THEN "Completed" ELSE "Dead"
    /\ ok => /\ store' = [store EXCEPT ![j] = [state    |-> to,
                                               attempts |-> store[j].attempts]]
             /\ logged' = [logged EXCEPT ![j] = [state    |-> to,
                                                 attempts |-> store[j].attempts]]
             /\ stats' = MoveStat(QueueOf[j], "Running", to)
             /\ IF to = "RetryWaiting"
                THEN /\ UNCHANGED <<permits, avail>>
                     /\ \E i \in dueCount + 1 .. Len(retryQueue) + 1 :
                           retryQueue' = PushAt(retryQueue, i, j)
                ELSE ReleasePermit(j) /\ UNCHANGED retryQueue
    /\ ~ok => UNCHANGED <<store, logged, stats, permits, avail, retryQueue>>

\* What settling a lease does to the job and its lease.
LEMMA SettleEffect ==
    ASSUME SafetyInv, NEW j \in Jobs, leases[j] # NoLease, NEW ok \in BOOLEAN,
           NEW type \in {"JobRetryScheduled", "JobCompleted", "JobDead"},
           Settle(j, type, ok)
    PROVE  Settled(j, type, ok, TargetState[type])
<1> DEFINE r == Record(type, j, leases[j].epoch, store[j].attempts)
           n == store[j].attempts
           to == TargetState[type]
<1>1. store[j].state = "Running"
  BY Zenon DEF SafetyInv, LeaseDiscipline
<1>2. logged[j] = store[j]
  BY <1>1, Matched, Zenon
<1>3. to = IF type = "JobRetryScheduled" THEN "RetryWaiting"
           ELSE IF type = "JobCompleted" THEN "Completed" ELSE "Dead"
  BY SMTT(30) DEF TargetState
<1>4. r.id = j /\ r.type = type
  BY Zenon DEF Record
<1>5. Exposed(r, ok) <=> ok
  <2> HIDE DEF r
  <2>1. Applicable(store, r)
    BY <1>1, <1>3, <1>4, Zenon DEF Applicable, IsValidTransition
  <2> QED BY <2>1, Zenon DEF Exposed
<1>6. /\ logged' = IF ok THEN ApplyRecordForRecovery(logged, r) ELSE logged
      /\ store' = IF ok THEN ApplyRecord(store, r) ELSE store
      /\ stats' = IF ok THEN MoveStat(QueueOf[j], "Running", to) ELSE stats
      /\ IF ok /\ to \in Terminal THEN ReleasePermit(j) ELSE UNCHANGED <<permits, avail>>
      /\ IF ok /\ type = "JobRetryScheduled"
         THEN \E i \in dueCount + 1 .. Len(retryQueue) + 1 :
                 retryQueue' = PushAt(retryQueue, i, j)
         ELSE UNCHANGED retryQueue
  BY <1>5, ZenonT(60) DEF Settle
<1>7. to \in Terminal <=> type # "JobRetryScheduled"
  BY <1>3, Zenon DEF Terminal
<1>8. to = "RetryWaiting" <=> type = "JobRetryScheduled"
  BY <1>3, Zenon
<1>9. ok => /\ store' = [store EXCEPT ![j] = [state |-> to, attempts |-> n]]
            /\ logged' = [logged EXCEPT ![j] = [state |-> to, attempts |-> n]]
  <2>1. n = (CASE type = "JobSubmitted" -> 0 [] type = "JobLeased" -> n
               [] OTHER -> store[j].attempts)
    BY Zenon
  <2> QED BY <1>1, <1>6, <2>1, RecordEffect, SMTT(30)
<1> HIDE DEF r
<1> QED BY <1>1, <1>2, <1>3, <1>6, <1>7, <1>8, <1>9, ZenonT(60) DEF Settled

-----------------------------------------------------------------------------
\* The jobs a permit is accounted to: its submitter holds it, it travels with
\* the Submit command, or the job is live.
Held ==
    {j \in Jobs : \/ client[j] = "permit"
                  \/ client[j] = "sent" /\ store[j] = Absent
                  \/ store[j].state \in Live}

HeldIn(q) == {j \in Held : QueueOf[j] = q}

\* What of its capacity a queue still accounts for.
Total(q) == avail[q] + Cardinality(HeldIn(q))

\* A live job whose permit is not in the permits map: recovery took it from the
\* semaphore and forgot it.
Unbacked == {j \in Jobs : store[j].state \in Live} \ permits

\* What a step does with permits: nothing; a submission takes one; a job or a
\* submission ends and gives one back, if it had one.
PermitStep ==
    /\ \/ /\ Held' = Held
          /\ avail' = avail
       \/ \E j \in Jobs \ Held :
             /\ avail[QueueOf[j]] > 0
             /\ Held' = Held \cup {j}
             /\ avail' = [avail EXCEPT ![QueueOf[j]] = @ - 1]
       \/ \E j \in Held :
             /\ Held' = Held \ {j}
             /\ \/ avail' = [avail EXCEPT ![QueueOf[j]] = @ + 1]
                \/ j \in Unbacked /\ avail' = avail
    /\ Unbacked' \subseteq Unbacked

-----------------------------------------------------------------------------
\* The types these proofs use.
LEMMA PermitTypes ==
    ASSUME TypeOK
    PROVE  /\ client \in [Jobs -> {"idle", "permit", "sent", "ok", "err"}]
           /\ store \in [Jobs -> JobRecord]
           /\ avail \in [Queues -> Nat]
           /\ permits \subseteq Jobs
           /\ QueueOf \in [Jobs -> Queues]
           /\ Capacity \in [Queues -> Nat]
BY CoordinatorAssumption, Zenon DEF TypeOK

\* Live, absent and terminal exclude each other.
LEMMA States ==
    /\ "Queued" \in Live /\ "Running" \in Live /\ "RetryWaiting" \in Live
    /\ "Absent" \notin Live
    /\ \A s \in Terminal : s \notin Live
    /\ Absent.state = "Absent"
BY Zenon DEF Live, JobState, Terminal, Absent

\* A step that leaves permits alone and keeps every job as live as it was.
LEMMA PermitsUntouched ==
    ASSUME UNCHANGED <<client, avail, permits>>,
           \A k \in Jobs : /\ store'[k].state \in Live <=> store[k].state \in Live
                           /\ store'[k] = Absent <=> store[k] = Absent
    PROVE  PermitStep
<1>1. Held' = Held
  BY Zenon DEF Held
<1>2. Unbacked' = Unbacked
  BY Zenon DEF Unbacked
<1> QED BY <1>1, <1>2, Zenon DEF PermitStep

\* The submit call.
LEMMA SubmitterPermits ==
    ASSUME SafetyInv, NEW j \in Jobs,
           AcquirePermit(j) \/ PermitRefused(j) \/ SendSubmit(j) \/ DropSubmit(j)
    PROVE  PermitStep
<1>1. UNCHANGED <<store, permits>>
  BY Zenon DEF AcquirePermit, PermitRefused, SendSubmit, DropSubmit, ownVars, jobVars
<1>2. Unbacked' = Unbacked
  BY <1>1, Zenon DEF Unbacked
<1>3. /\ client \in [Jobs -> {"idle", "permit", "sent", "ok", "err"}]
      /\ store \in [Jobs -> JobRecord]
      /\ avail \in [Queues -> Nat]
  BY PermitTypes, Zenon DEF SafetyInv
<1>4. client[j] \in {"idle", "permit"} /\ store[j] = Absent /\ store[j].state \notin Live
  <2>1. client[j] \in {"idle", "permit"}
    BY Zenon DEF AcquirePermit, PermitRefused, SendSubmit, DropSubmit
  <2>2. store[j] = Absent
    BY <2>1, Zenon DEF SafetyInv, SubmitterState
  <2> QED BY <2>1, <2>2, States, Zenon
<1>5. ASSUME NEW to \in {"permit", "sent", "err"}, client' = [client EXCEPT ![j] = to]
      PROVE  Held' = IF to = "err" THEN Held \ {j} ELSE Held \cup {j}
  <2>1. client'[j] = to /\ \A k \in Jobs \ {j} : client'[k] = client[k]
    BY <1>3, <1>5, Zenon
  <2>2. \A k \in Jobs \ {j} : k \in Held' <=> k \in Held
    BY <1>1, <2>1, Zenon DEF Held
  <2>3. j \in Held' <=> to # "err"
    BY <1>1, <1>4, <2>1, Zenon DEF Held
  <2>4. Held \subseteq Jobs /\ Held' \subseteq Jobs
    BY Zenon DEF Held
  <2> QED BY <2>2, <2>3, <2>4, Zenon
<1>6. j \in Held <=> client[j] = "permit"
  BY <1>4, Zenon DEF Held
<1>7. CASE AcquirePermit(j)
  <2>1. /\ client[j] = "idle" /\ avail[QueueOf[j]] > 0
        /\ avail' = [avail EXCEPT ![QueueOf[j]] = @ - 1]
        /\ client' = [client EXCEPT ![j] = "permit"]
    BY <1>7, Zenon DEF AcquirePermit
  <2>2. j \notin Held /\ Held' = Held \cup {j}
    BY <1>5, <1>6, <2>1, Zenon
  <2> QED BY <1>2, <2>1, <2>2, ZenonT(60) DEF PermitStep
<1>8. CASE PermitRefused(j)
  <2>1. client[j] = "idle" /\ avail' = avail /\ client' = [client EXCEPT ![j] = "err"]
    BY <1>8, Zenon DEF PermitRefused
  <2>2. Held' = Held
    BY <1>5, <1>6, <2>1, Zenon
  <2> QED BY <1>2, <2>1, <2>2, Zenon DEF PermitStep
<1>9. CASE SendSubmit(j)
  <2>1. client[j] = "permit" /\ avail' = avail /\ client' = [client EXCEPT ![j] = "sent"]
    BY <1>9, Zenon DEF SendSubmit
  <2>2. Held' = Held
    BY <1>5, <1>6, <2>1, Zenon
  <2> QED BY <1>2, <2>1, <2>2, Zenon DEF PermitStep
<1>10. CASE DropSubmit(j)
  <2>1. /\ client[j] = "permit" /\ client' = [client EXCEPT ![j] = "err"]
        /\ avail' = [avail EXCEPT ![QueueOf[j]] = @ + 1]
    BY <1>10, Zenon DEF DropSubmit
  <2>2. j \in Held /\ Held' = Held \ {j}
    BY <1>5, <1>6, <2>1, Zenon
  <2> QED BY <1>2, <2>1, <2>2, ZenonT(60) DEF PermitStep
<1> QED BY <1>7, <1>8, <1>9, <1>10, ZenonT(60)

\* A refused Submit gives its permit back.
LEMMA RejectPermits == SafetyInv /\ RejectSubmit => PermitStep
<1> SUFFICES ASSUME SafetyInv, RejectSubmit PROVE PermitStep
  BY Zenon
<1> DEFINE j == Head(cmds).job
<1>1. /\ Receive("Submit")
      /\ client' = [client EXCEPT ![j] = "err"]
      /\ avail' = [avail EXCEPT ![QueueOf[j]] = @ + 1]
      /\ UNCHANGED <<store, permits>>
  BY Zenon DEF RejectSubmit, jobVars
<1>2. j \in Jobs /\ client[j] = "sent" /\ store[j] = Absent
  BY <1>1, HeadSubmit, Zenon
<1> HIDE DEF j
<1>3. client \in [Jobs -> {"idle", "permit", "sent", "ok", "err"}]
  BY PermitTypes, Zenon DEF SafetyInv
<1>4. client'[j] = "err" /\ \A k \in Jobs \ {j} : client'[k] = client[k]
  BY <1>1, <1>2, <1>3, Zenon
<1>5. j \in Held /\ j \notin Held'
  BY <1>1, <1>2, <1>4, States, ZenonT(60) DEF Held
<1>6. \A k \in Jobs \ {j} : k \in Held' <=> k \in Held
  BY <1>1, <1>4, Zenon DEF Held
<1>7. Held' = Held \ {j}
  <2>1. Held \subseteq Jobs /\ Held' \subseteq Jobs
    BY Zenon DEF Held
  <2> QED BY <1>5, <1>6, <2>1, Zenon
<1>8. Unbacked' = Unbacked
  BY <1>1, Zenon DEF Unbacked
<1> QED BY <1>1, <1>5, <1>7, <1>8, ZenonT(60) DEF PermitStep

\* An accepted Submit hands it to the permits map.
LEMMA AcceptPermits == SafetyInv /\ AcceptSubmit => PermitStep
<1> SUFFICES ASSUME SafetyInv, AcceptSubmit PROVE PermitStep
  BY Zenon
<1> DEFINE j == Head(cmds).job
<1>1. /\ Receive("Submit")
      /\ permits' = permits \cup {j}
      /\ UNCHANGED <<client, avail>>
  BY Zenon DEF AcceptSubmit, actorVars
<1>2. j \in Jobs /\ client[j] = "sent" /\ store[j] = Absent
  BY <1>1, HeadSubmit, Zenon
<1>3. /\ \A k \in Jobs \ {j} : store'[k] = store[k]
      /\ store'[j].state = "Queued"
  <2>1. store' = ApplyRecord(store, Record("JobSubmitted", j, 0, 0))
    BY Zenon DEF AcceptSubmit
  <2>2. store \in [Jobs -> JobRecord]
    BY Zenon DEF SafetyInv, TypeOK
  <2> HIDE DEF j
  <2> QED BY <1>2, <2>1, <2>2, ZenonT(60)
          DEF ApplyRecord, Entry, Record, TargetState
<1> HIDE DEF j
<1>4. j \in Held /\ j \in Held'
  BY <1>1, <1>2, <1>3, States, ZenonT(60) DEF Held
<1>5. \A k \in Jobs \ {j} : k \in Held' <=> k \in Held
  BY <1>1, <1>3, Zenon DEF Held
<1>6. Held' = Held
  <2>1. Held \subseteq Jobs /\ Held' \subseteq Jobs
    BY Zenon DEF Held
  <2> QED BY <1>4, <1>5, <2>1, SMTT(30)
<1>7. Unbacked' \subseteq Unbacked
  BY <1>1, <1>3, Zenon DEF Unbacked
<1> QED BY <1>1, <1>6, <1>7, ZenonT(60) DEF PermitStep

\* The reply finds the job in the store: its permit is the job's.
LEMMA ReplyPermits == SafetyInv /\ ReplySubmit => PermitStep
<1> SUFFICES ASSUME SafetyInv, ReplySubmit PROVE PermitStep
  BY Zenon
<1>1. /\ pc = "submit" /\ client' = [client EXCEPT ![replyTo] = "ok"]
      /\ UNCHANGED <<store, permits, avail>>
  BY Zenon DEF ReplySubmit, jobVars
<1>2. replyTo \in Jobs /\ store[replyTo] # Absent
  BY <1>1, ZenonT(60) DEF SafetyInv, SubmitterState
<1>3. client \in [Jobs -> {"idle", "permit", "sent", "ok", "err"}]
  BY PermitTypes, Zenon DEF SafetyInv
<1>4. client[replyTo] # "permit"
  BY <1>2, Zenon DEF SafetyInv, SubmitterState
<1>5. client'[replyTo] = "ok" /\ \A k \in Jobs \ {replyTo} : client'[k] = client[k]
  BY <1>1, <1>2, <1>3, Zenon
<1>6. replyTo \in Held' <=> replyTo \in Held
  BY <1>1, <1>2, <1>4, <1>5, ZenonT(60) DEF Held
<1>7. \A k \in Jobs \ {replyTo} : k \in Held' <=> k \in Held
  BY <1>1, <1>5, Zenon DEF Held
<1>8. Held' = Held
  <2>1. Held \subseteq Jobs /\ Held' \subseteq Jobs
    BY Zenon DEF Held
  <2> QED BY <1>6, <1>7, <2>1, SMTT(30)
<1>9. Unbacked' = Unbacked
  BY <1>1, Zenon DEF Unbacked
<1> QED BY <1>1, <1>8, <1>9, ZenonT(60) DEF PermitStep

\* A live job ends and its permit, if it has one, goes back.
LEMMA ReleasedPermits ==
    ASSUME SafetyInv, NEW j \in Jobs, store[j].state \in Live,
           store'[j].state \in Terminal,
           \A k \in Jobs \ {j} : store'[k] = store[k],
           ReleasePermit(j), client' = client
    PROVE  PermitStep
<1>1. store[j] # Absent /\ store'[j] # Absent /\ store'[j].state \notin Live
  BY States, Zenon DEF Terminal
<1>2. client[j] # "permit"
  BY <1>1, Zenon DEF SafetyInv, SubmitterState
<1>3. j \in Held /\ j \notin Held'
  BY <1>1, <1>2, Zenon DEF Held
<1>4. \A k \in Jobs \ {j} : k \in Held' <=> k \in Held
  BY Zenon DEF Held
<1>5. Held' = Held \ {j}
  <2>1. Held \subseteq Jobs /\ Held' \subseteq Jobs
    BY Zenon DEF Held
  <2> QED BY <1>3, <1>4, <2>1, Zenon
<1>6. Unbacked' \subseteq Unbacked
  BY <1>1, Zenon DEF Unbacked, ReleasePermit
<1>7. CASE j \in permits
  BY <1>3, <1>5, <1>6, <1>7, ZenonT(60) DEF PermitStep, ReleasePermit
<1>8. CASE j \notin permits
  <2>1. j \in Unbacked /\ avail' = avail
    BY <1>8, Zenon DEF Unbacked, ReleasePermit
  <2> QED BY <1>3, <1>5, <1>6, <2>1, ZenonT(60) DEF PermitStep
<1> QED BY <1>7, <1>8, ZenonT(60)

\* complete_job, dead_job and schedule_retry: only the first two release.
LEMMA SettlePermits ==
    ASSUME SafetyInv, NEW j \in Jobs, leases[j] # NoLease,
           NEW type \in {"JobRetryScheduled", "JobCompleted", "JobDead"},
           NEW ok \in BOOLEAN, Settle(j, type, ok), client' = client
    PROVE  PermitStep
<1> DEFINE r == Record(type, j, leases[j].epoch, store[j].attempts)
           exposed == Exposed(r, ok)
<1>1. store[j].state = "Running" /\ store \in [Jobs -> JobRecord]
  BY Zenon DEF SafetyInv, LeaseDiscipline, TypeOK
<1>2. /\ store' = IF exposed THEN ApplyRecord(store, r) ELSE store
      /\ IF exposed /\ TargetState[type] \in Terminal
         THEN ReleasePermit(j)
         ELSE UNCHANGED <<permits, avail>>
  BY ZenonT(60) DEF Settle
<1>3. r.id = j /\ r.type = type
  BY Zenon DEF Record
<1> HIDE DEF r, exposed
<1>4. ASSUME exposed
      PROVE  /\ store'[j].state = TargetState[type]
             /\ \A k \in Jobs \ {j} : store'[k] = store[k]
  <2>1. store' = [store EXCEPT ![j] = Entry(store[j], r)]
    BY <1>2, <1>3, <1>4, ZenonT(60) DEF ApplyRecord
  <2>2. Entry(store[j], r).state = TargetState[type]
    BY <1>3, Zenon DEF Entry
  <2> QED BY <1>1, <2>1, <2>2, ZenonT(60)
<1>5. CASE ~exposed
  BY <1>2, <1>5, PermitsUntouched, Zenon
<1>6. CASE exposed /\ type = "JobRetryScheduled"
  <2>1. TargetState[type] = "RetryWaiting" /\ "RetryWaiting" \notin Terminal
    BY <1>6, Zenon DEF TargetState, Terminal
  <2>2. UNCHANGED <<permits, avail>>
    BY <1>2, <1>6, <2>1, ZenonT(60)
  <2>3. \A k \in Jobs : /\ store'[k].state \in Live <=> store[k].state \in Live
                        /\ store'[k] = Absent <=> store[k] = Absent
    <3>1. /\ store'[j].state = "RetryWaiting"
          /\ \A k \in Jobs \ {j} : store'[k] = store[k]
      BY <1>4, <1>6, <2>1, ZenonT(60)
    <3> QED BY <1>1, <3>1, States, ZenonT(60) DEF Absent
  <2> QED BY <2>2, <2>3, PermitsUntouched, Zenon
<1>7. CASE exposed /\ type # "JobRetryScheduled"
  <2>1. TargetState[type] \in Terminal
    BY <1>7, SMTT(30) DEF TargetState, Terminal
  <2>2. ReleasePermit(j)
    BY <1>2, <1>7, <2>1, ZenonT(60)
  <2> QED BY <1>1, <1>4, <1>7, <2>1, <2>2, ReleasedPermits, States, ZenonT(60)
<1> QED BY <1>5, <1>6, <1>7, ZenonT(60)

\* A settled lease releases the permit when the job has ended.
LEMMA OutcomePermits == SafetyInv /\ (SettleTimeout \/ CurrentOutcome) => PermitStep
<1> SUFFICES ASSUME SafetyInv, SettleTimeout \/ CurrentOutcome PROVE PermitStep
  BY Zenon
<1>1. client' = client
  BY Zenon DEF SettleTimeout, CurrentOutcome, actorVars
<1>2. CASE SettleTimeout
  <2>1. PICK j \in timedOut, ok \in PersistOutcome : Settle(j, RetryOrDead(j), ok)
    BY <1>2, Zenon DEF SettleTimeout
  <2>2. j \in Jobs /\ leases[j] # NoLease /\ ok \in BOOLEAN
    BY <2>1, ZenonT(60) DEF SafetyInv, TypeOK, TimedOutAreLeased, PersistOutcome
  <2>3. RetryOrDead(j) \in {"JobRetryScheduled", "JobCompleted", "JobDead"}
    BY Zenon DEF RetryOrDead
  <2> QED BY <1>1, <2>1, <2>2, <2>3, SettlePermits, ZenonT(60)
<1>3. CASE CurrentOutcome
  <2> DEFINE cmd == Head(cmds)
             j == cmd.work.job
             type == OutcomeRecord(j, cmd.outcome)
  <2>1. Receive("WorkerOutcome") /\ leases[j].epoch = cmd.work.lease
    BY <1>3, Zenon DEF CurrentOutcome, IsCurrent
  <2>2. cmd \in Command /\ cmd.kind = "WorkerOutcome"
    BY <2>1, ReceiveType, Zenon DEF SafetyInv
  <2>3. cmd.work \in LeasedJob
    BY <2>2, CommandFields, Zenon
  <2>4. PICK ok \in PersistOutcome : Settle(j, type, ok)
    BY <1>3, Zenon DEF CurrentOutcome
  <2> HIDE DEF cmd
  <2>5. j \in Jobs /\ cmd.work.lease \in Nat \ {0}
    BY <2>3, Zenon DEF LeasedJob
  <2>6. leases[j] # NoLease
    BY <2>1, <2>5, SMTT(30) DEF NoLease
  <2>7. type \in {"JobRetryScheduled", "JobCompleted", "JobDead"}
    BY Zenon DEF OutcomeRecord, RetryOrDead
  <2>8. ok \in BOOLEAN
    BY Zenon DEF PersistOutcome
  <2> HIDE DEF j, type
  <2> QED BY <1>1, <2>4, <2>5, <2>6, <2>7, <2>8, SettlePermits, ZenonT(60)
<1> QED BY <1>2, <1>3, Zenon

\* do_cancel releases the permit.
LEMMA CancelPermits == SafetyInv /\ AcceptCancel => PermitStep
<1> SUFFICES ASSUME SafetyInv, AcceptCancel PROVE PermitStep
  BY Zenon
<1> DEFINE j == Head(cmds).job
           r == Record("JobCancelled", j, 0, 0)
<1>1. /\ Receive("Cancel")
      /\ store[j].state \in Live
      /\ store' = ApplyRecord(store, r)
      /\ ReleasePermit(j)
      /\ client' = client
  BY Zenon DEF AcceptCancel
<1>2. j \in Jobs
  BY <1>1, ReceiveType, CommandFields, Zenon DEF SafetyInv
<1> HIDE DEF j
<1>3. r.id = j /\ r.type = "JobCancelled"
  BY Zenon DEF Record
<1> HIDE DEF r
<1>4. store' = [store EXCEPT ![j] = Entry(store[j], r)]
  BY <1>1, <1>3, Zenon DEF ApplyRecord
<1>5. Entry(store[j], r).state = "Cancelled"
  BY <1>3, SMTT(30) DEF Entry, TargetState
<1>6. store \in [Jobs -> JobRecord]
  BY Zenon DEF SafetyInv, TypeOK
<1>7. /\ store'[j].state \in Terminal
      /\ \A k \in Jobs \ {j} : store'[k] = store[k]
  BY <1>2, <1>4, <1>5, <1>6, ZenonT(60) DEF Terminal
<1> QED BY <1>1, <1>2, <1>7, ReleasedPermits, ZenonT(60)

\* A lease moves a job from Queued to Running, a due retry from RetryWaiting to
\* Queued: it stays live.
LEMMA LeasePermits == SafetyInv /\ (DispatchParked \/ LeaseToFetcher) => PermitStep
<1> SUFFICES ASSUME SafetyInv, DispatchParked \/ LeaseToFetcher PROVE PermitStep
  BY Zenon
<1>1. UNCHANGED <<client, avail, permits>>
  BY Zenon DEF DispatchParked, LeaseToFetcher
<1>2. PICK q \in Queues, w \in Workers : GrantLease(q, w)
  BY LeaseGranted, Zenon
<1> DEFINE j == Head(ready[q])
           r == Record("JobLeased", j, nextLeaseEpoch, store[j].attempts + 1)
<1>3. j \in Jobs /\ store \in [Jobs -> JobRecord]
  BY <1>2, GrantLeaseType, ZenonT(60) DEF SafetyInv, TypeOK
<1>4. store' = ApplyRecord(store, r) /\ store[j].state = "Queued"
  BY <1>2, Zenon DEF GrantLease, EpochAfter, Leaseable
<1> HIDE DEF j
<1>5. r.id = j /\ r.type = "JobLeased"
  BY Zenon DEF Record
<1> HIDE DEF r
<1>6. store' = [store EXCEPT ![j] = Entry(store[j], r)]
  BY <1>4, <1>5, Zenon DEF ApplyRecord
<1>7. Entry(store[j], r).state = "Running"
  BY <1>5, SMTT(30) DEF Entry, TargetState
<1>8. /\ store'[j].state = "Running"
      /\ \A k \in Jobs \ {j} : store'[k] = store[k]
  BY <1>3, <1>6, <1>7, ZenonT(60)
<1>9. \A k \in Jobs : /\ store'[k].state \in Live <=> store[k].state \in Live
                      /\ store'[k] = Absent <=> store[k] = Absent
  BY <1>4, <1>8, States, Zenon DEF Absent
<1> QED BY <1>1, <1>9, PermitsUntouched, ZenonT(60)

\* A retry that comes due keeps its permit.
LEMMA RetryPermits == SafetyInv /\ ProcessDueRetry => PermitStep
<1> SUFFICES ASSUME SafetyInv, ProcessDueRetry PROVE PermitStep
  BY Zenon
<1> DEFINE j == Head(retryQueue)
<1>1. /\ UNCHANGED <<client, avail, permits>>
      /\ \/ store' = store
         \/ store[j].state = "RetryWaiting" /\ store' = [store EXCEPT ![j].state = "Queued"]
  BY Zenon DEF ProcessDueRetry, actorVars, TransitionToQueued
<1> HIDE DEF j
<1>2. store \in [Jobs -> JobRecord]
  BY Zenon DEF SafetyInv, TypeOK
<1>3. \A k \in Jobs : /\ store'[k].state \in Live <=> store[k].state \in Live
                      /\ store'[k] = Absent <=> store[k] = Absent
  <2> SUFFICES ASSUME NEW k \in Jobs
               PROVE  /\ store'[k].state \in Live <=> store[k].state \in Live
                      /\ store'[k] = Absent <=> store[k] = Absent
    BY Zenon
  <2>1. CASE store'[k] = store[k]
    BY <2>1, Zenon
  <2>2. CASE store'[k] # store[k]
    <3>1. store[k].state = "RetryWaiting" /\ store'[k].state = "Queued"
      BY <1>1, <1>2, <2>2, ZenonT(60) DEF JobRecord
    <3> QED BY <3>1, States, Zenon
  <2> QED BY <2>1, <2>2, Zenon
<1> QED BY <1>1, <1>3, PermitsUntouched, ZenonT(60)

\* Every step of a lifetime but its end.
LEMMA NextPermits == SafetyInv /\ [Next]_vars => PermitStep \/ pc' = "done"
<1> SUFFICES ASSUME SafetyInv, [Next]_vars PROVE PermitStep \/ pc' = "done"
  BY Zenon
<1>1. ASSUME UNCHANGED <<store, client, avail, permits>> PROVE PermitStep
  BY <1>1, PermitsUntouched, Zenon
<1>2. CASE \/ CollectTimeouts \/ EnterSelect \/ WakeOnDeadline \/ RejectCancel
           \/ ParkFetcher \/ StaleOutcome \/ StartShutdown
  <2>1. UNCHANGED <<store, client, avail, permits>>
    BY <1>2, Zenon DEF CollectTimeouts, EnterSelect, WakeOnDeadline, RejectCancel, ParkFetcher,
              StaleOutcome, StartShutdown, jobVars, actorVars
  <2> QED BY <1>1, <2>1, Zenon
<1>3. CASE CompleteShutdown \/ ForceShutdown
  BY <1>3, ZenonT(60) DEF CompleteShutdown, ForceShutdown, Terminate
<1>4. CASE \/ RetryBecomesDue \/ DeadlineElapses \/ Stopped \/ UNCHANGED vars
           \/ SendShutdown \/ \E j \in Jobs : SendCancel(j) \/ LeaseExpires(j)
  <2>1. UNCHANGED <<store, client, avail, permits>>
    BY <1>4, ZenonT(60) DEF RetryBecomesDue, DeadlineElapses, Stopped, SendShutdown, SendCancel,
              LeaseExpires, ownVars, vars, jobVars, actorVars
  <2> QED BY <1>1, <2>1, Zenon
<1>5. CASE \E w \in Workers : WorkerStep(w) \/ \E o \in HandlerOutcomes : HandlerEnds(w, o)
  <2>1. UNCHANGED <<store, client, avail, permits>>
    BY <1>5, Zenon DEF WorkerStep, WorkerCheckToken, WorkerFetch, WorkerStop, WorkerStart,
              HandlerAborted, WorkerReport, HandlerEnds, workerFrame, ownVars, jobVars
  <2> QED BY <1>1, <2>1, Zenon
<1>6. CASE CoordinatorStep
  BY <1>2, <1>3, <1>6, RejectPermits, AcceptPermits, ReplyPermits, OutcomePermits,
     CancelPermits, LeasePermits, RetryPermits, ZenonT(60) DEF CoordinatorStep
<1> QED BY <1>4, <1>5, <1>6, SubmitterPermits, ZenonT(60) DEF Next

\* Once the coordinator has ended it stays so, and no job changes from its last
\* step on.
LEMMA DoneIsQuiet ==
    [Next]_vars => /\ pc = "done" => pc' = "done"
                   /\ pc' = "done" => store' = store
<1> SUFFICES ASSUME [Next]_vars
             PROVE  /\ pc = "done" => pc' = "done"
                    /\ pc' = "done" => store' = store
  BY Zenon
<1>1. CASE \/ ProcessDueRetry \/ SettleTimeout \/ DispatchParked
  BY <1>1, ZenonT(60) DEF ProcessDueRetry, SettleTimeout, DispatchParked, loopVars
<1>2. CASE CollectTimeouts \/ EnterSelect \/ WakeOnDeadline \/ ReplySubmit
  BY <1>2, ZenonT(60) DEF CollectTimeouts, EnterSelect, WakeOnDeadline, ReplySubmit
<1>3. CASE \/ RejectSubmit \/ AcceptSubmit \/ RejectCancel \/ AcceptCancel
           \/ LeaseToFetcher \/ ParkFetcher \/ StaleOutcome \/ CurrentOutcome
           \/ StartShutdown
  <2>1. pc = "select" /\ pc' # "done"
    BY <1>3, ZenonT(60) DEF RejectSubmit, AcceptSubmit, RejectCancel, AcceptCancel, LeaseToFetcher,
                ParkFetcher, StaleOutcome, CurrentOutcome, StartShutdown, Receive
  <2> QED BY <2>1, Zenon
<1>4. CASE CompleteShutdown \/ ForceShutdown
  BY <1>4, Zenon DEF CompleteShutdown, ForceShutdown, Terminate
<1>5. CASE \/ RetryBecomesDue \/ DeadlineElapses \/ Stopped \/ UNCHANGED vars
           \/ SendShutdown
           \/ \E j \in Jobs : \/ AcquirePermit(j) \/ PermitRefused(j) \/ SendSubmit(j)
                             \/ DropSubmit(j) \/ SendCancel(j) \/ LeaseExpires(j)
  BY <1>5, Zenon DEF RetryBecomesDue, DeadlineElapses, Stopped, SendShutdown, AcquirePermit,
            PermitRefused, SendSubmit, DropSubmit, SendCancel, LeaseExpires, ownVars,
            vars, jobVars, loopVars
<1>6. CASE \E w \in Workers : WorkerStep(w) \/ \E o \in HandlerOutcomes : HandlerEnds(w, o)
  BY <1>6, Zenon DEF WorkerStep, WorkerCheckToken, WorkerFetch, WorkerStop, WorkerStart,
            HandlerAborted, WorkerReport, HandlerEnds, workerFrame, ownVars, jobVars,
            loopVars
<1>7. CASE CoordinatorStep
  BY <1>1, <1>2, <1>3, <1>4, <1>7, ZenonT(60) DEF CoordinatorStep
<1> QED BY <1>5, <1>6, <1>7, ZenonT(60) DEF Next

-----------------------------------------------------------------------------
\* Counting.

\* Without one of its jobs a set counts one less.
LEMMA CountLess ==
    ASSUME JobsCount, NEW T \in SUBSET Jobs, NEW j \in T
    PROVE  Cardinality(T \ {j}) = Cardinality(T) - 1
<1> DEFINE U == T \ {j}
<1>1. U \in SUBSET Jobs /\ j \in Jobs \ U /\ U \cup {j} = T
  BY Zenon
<1> HIDE DEF U
<1>2. Cardinality(T) = Cardinality(U) + 1 /\ Cardinality(U) \in Nat
  BY <1>1, Zenon DEF JobsCount
<1> QED BY <1>2, SMTT(30) DEF U

\* The permits of a queue can be counted.
LEMMA HeldFinite ==
    ASSUME JobsCount, NEW q
    PROVE  HeldIn(q) \in SUBSET Jobs /\ Cardinality(HeldIn(q)) \in Nat
<1>1. HeldIn(q) \in SUBSET Jobs
  BY Zenon DEF HeldIn, Held
<1> QED BY <1>1, Zenon DEF JobsCount

\* No step makes a queue account for more than before, and none for less while
\* every live job has its permit in the map.
LEMMA TotalStep ==
    ASSUME JobsCount, TypeOK, PermitStep, NEW q \in Queues
    PROVE  /\ Total(q)' <= Total(q)
           /\ Unbacked = {} => Total(q)' = Total(q)
<1>1. /\ avail \in [Queues -> Nat] /\ \A k \in Jobs : QueueOf[k] \in Queues
      /\ avail[q] \in Nat
  BY PermitTypes, Zenon
<1>2. /\ Total(q) = avail[q] + Cardinality(HeldIn(q))
      /\ Total(q)' = avail'[q] + Cardinality(HeldIn(q)')
      /\ HeldIn(q)' = {k \in Held' : QueueOf[k] = q}
      /\ Cardinality(HeldIn(q)) \in Nat /\ HeldIn(q) \in SUBSET Jobs
  BY HeldFinite, Zenon DEF Total, HeldIn
<1>3. ASSUME Held' = Held, avail' = avail PROVE Total(q)' = Total(q)
  <2>1. HeldIn(q)' = HeldIn(q)
    BY <1>2, <1>3, Zenon DEF HeldIn
  <2> QED BY <1>2, <1>3, <2>1, ZenonT(60)
<1>4. ASSUME NEW j \in Jobs \ Held, Held' = Held \cup {j},
             avail' = [avail EXCEPT ![QueueOf[j]] = @ - 1]
      PROVE  Total(q)' = Total(q)
  <2>1. CASE QueueOf[j] = q
    <3>1. HeldIn(q)' = HeldIn(q) \cup {j} /\ j \notin HeldIn(q)
      BY <1>2, <1>4, <2>1, ZenonT(60) DEF HeldIn
    <3>2. Cardinality(HeldIn(q)') = Cardinality(HeldIn(q)) + 1
      <4>1. j \in Jobs \ HeldIn(q)
        BY <1>4, <3>1, Zenon
      <4> QED BY <1>2, <3>1, <4>1, ZenonT(60) DEF JobsCount
    <3>3. avail'[q] = avail[q] - 1
      BY <1>1, <1>4, <2>1, ZenonT(60)
    <3> QED BY <1>1, <1>2, <3>2, <3>3, SMTT(30)
  <2>2. CASE QueueOf[j] # q
    <3>1. HeldIn(q)' = HeldIn(q)
      BY <1>2, <1>4, <2>2, Zenon DEF HeldIn
    <3>2. avail'[q] = avail[q]
      BY <1>1, <1>4, <2>2, ZenonT(60)
    <3> QED BY <1>1, <1>2, <3>1, <3>2, ZenonT(60)
  <2> QED BY <2>1, <2>2, ZenonT(60)
<1>5. ASSUME NEW j \in Held, Held' = Held \ {j},
             avail' = [avail EXCEPT ![QueueOf[j]] = @ + 1]
      PROVE  Total(q)' = Total(q)
  <2>1. CASE QueueOf[j] = q
    <3>1. HeldIn(q)' = HeldIn(q) \ {j} /\ j \in HeldIn(q)
      BY <1>2, <1>5, <2>1, ZenonT(60) DEF HeldIn
    <3>2. Cardinality(HeldIn(q)') = Cardinality(HeldIn(q)) - 1
      BY <1>2, <3>1, CountLess, ZenonT(60)
    <3>3. avail'[q] = avail[q] + 1
      BY <1>1, <1>5, <2>1, ZenonT(60)
    <3> QED BY <1>1, <1>2, <3>2, <3>3, SMTT(30)
  <2>2. CASE QueueOf[j] # q
    <3>1. HeldIn(q)' = HeldIn(q)
      BY <1>2, <1>5, <2>2, SMTT(30) DEF HeldIn
    <3>2. avail'[q] = avail[q]
      BY <1>1, <1>5, <2>2, ZenonT(60)
    <3> QED BY <1>1, <1>2, <3>1, <3>2, ZenonT(60)
  <2> QED BY <2>1, <2>2, ZenonT(60)
<1>6. ASSUME NEW j \in Held, Held' = Held \ {j}, avail' = avail
      PROVE  Total(q)' <= Total(q)
  <2>1. CASE QueueOf[j] = q
    <3>1. HeldIn(q)' = HeldIn(q) \ {j} /\ j \in HeldIn(q)
      BY <1>2, <1>6, <2>1, ZenonT(60) DEF HeldIn
    <3>2. Cardinality(HeldIn(q)') = Cardinality(HeldIn(q)) - 1
      BY <1>2, <3>1, CountLess, Zenon
    <3>3. avail'[q] = avail[q]
      BY <1>6, Zenon
    <3> QED BY <1>1, <1>2, <3>2, <3>3, SMTT(30)
  <2>2. CASE QueueOf[j] # q
    <3>1. HeldIn(q)' = HeldIn(q)
      BY <1>2, <1>6, <2>2, SMTT(30) DEF HeldIn
    <3>2. Total(q)' = Total(q)
      BY <1>2, <1>6, <3>1, ZenonT(60)
    <3>3. Total(q) \in Nat
      BY <1>1, <1>2, SMTT(30)
    <3> QED BY <3>2, <3>3, SMTT(30)
  <2> QED BY <2>1, <2>2, ZenonT(60)
<1>7. Total(q) \in Nat
  BY <1>1, <1>2, SMTT(30)
<1>8. Total(q)' = Total(q) => Total(q)' <= Total(q)
  BY <1>7, SMTT(30)
<1>9. CASE \E j \in Jobs \ Held : /\ Held' = Held \cup {j}
                                  /\ avail' = [avail EXCEPT ![QueueOf[j]] = @ - 1]
  BY <1>4, <1>8, <1>9, ZenonT(60)
<1>10. CASE \E j \in Held : /\ Held' = Held \ {j}
                            /\ avail' = [avail EXCEPT ![QueueOf[j]] = @ + 1]
  BY <1>5, <1>8, <1>10, ZenonT(60)
<1>11. CASE \E j \in Held : Held' = Held \ {j} /\ j \in Unbacked /\ avail' = avail
  BY <1>6, <1>11, Zenon
<1>12. CASE Held' = Held /\ avail' = avail
  BY <1>3, <1>8, <1>12, ZenonT(60)
<1> QED BY <1>9, <1>10, <1>11, <1>12, ZenonT(60) DEF PermitStep

\* What is held is in flight or live, never both.
LEMMA HeldSplits ==
    ASSUME JobsCount, SafetyInv, NEW q \in Queues
    PROVE  /\ Cardinality(HeldIn(q)) =
                 Cardinality(InFlight(q)) + Cardinality(JobsIn(store, q, Live))
           /\ Cardinality(InFlight(q)) \in Nat
           /\ Cardinality(JobsIn(store, q, Live)) \in Nat
<1> DEFINE F == InFlight(q)
           L == JobsIn(store, q, Live)
<1>1. F \in SUBSET Jobs /\ L \in SUBSET Jobs
  BY Zenon DEF InFlight, JobsIn
<1>2. Cardinality(F) \in Nat /\ Cardinality(L) \in Nat
  BY <1>1, Zenon DEF JobsCount
<1>3. HeldIn(q) = F \cup L
  BY Zenon DEF HeldIn, Held, InFlight, JobsIn
<1>4. F \cap L = {}
  <2>1. \A j \in Jobs : client[j] = "permit" => store[j] = Absent
    BY Zenon DEF SafetyInv, SubmitterState
  <2>2. \A j \in F : store[j].state \notin Live
    BY <2>1, States, Zenon DEF InFlight
  <2> QED BY <2>2, Zenon DEF JobsIn
<1> HIDE DEF F, L
<1>5. Cardinality(F \cup L) = Cardinality(F) + Cardinality(L)
  BY <1>1, <1>4, ZenonT(60) DEF JobsCount
<1> QED BY <1>2, <1>3, <1>5, ZenonT(60) DEF F, L

-----------------------------------------------------------------------------
\* The inductive invariants.

Fits == \A q \in Queues : Cardinality(JobsIn(store, q, Live)) <= Capacity[q]

\* Over restarts: no queue accounts for more than its capacity while the
\* coordinator runs, and the live jobs it leaves behind fit.
CapacityInv ==
    /\ pc # "done" => \A q \in Queues : Total(q) <= Capacity[q]
    /\ Fits

\* In a lifetime that began without jobs: nothing is lost.
PermitsInv ==
    pc # "done" => /\ Unbacked = {}
                   /\ \A q \in Queues : Total(q) = Capacity[q]

\* The live jobs are a part of what is accounted for.
LEMMA TotalFits ==
    ASSUME JobsCount, SafetyInv, \A q \in Queues : Total(q) <= Capacity[q]
    PROVE  Fits
<1> SUFFICES ASSUME NEW q \in Queues
             PROVE  Cardinality(JobsIn(store, q, Live)) <= Capacity[q]
  BY Zenon DEF Fits
<1>1. avail[q] \in Nat /\ Capacity[q] \in Nat
  BY PermitTypes, Zenon DEF SafetyInv
<1>2. Total(q) = avail[q] + Cardinality(HeldIn(q)) /\ Total(q) <= Capacity[q]
  BY Zenon DEF Total
<1> QED BY <1>1, <1>2, HeldSplits, SMTT(30)

\* Every step of a lifetime keeps a queue within its capacity.
LEMMA RunCapacity ==
    ASSUME JobsCount, SafetyInv, CapacityInv, [Next]_vars,
           SafetyInv', ((\A q \in Queues : Total(q) <= Capacity[q]) => Fits)'
    PROVE  CapacityInv'
<1>2. CASE pc' = "done"
  <2>1. store' = store
    BY <1>2, DoneIsQuiet, Zenon
  <2>2. Fits'
    BY <2>1, Zenon DEF CapacityInv, Fits, JobsIn
  <2> QED BY <1>2, <2>2, Zenon DEF CapacityInv
<1>3. CASE pc' # "done"
  <2>1. pc # "done" /\ PermitStep
    BY <1>3, DoneIsQuiet, NextPermits, ZenonT(60)
  <2>2. ASSUME NEW q \in Queues PROVE Total(q)' <= Capacity[q]
    <3>1. Total(q)' <= Total(q) /\ Total(q) <= Capacity[q]
      BY <2>1, TotalStep, ZenonT(60) DEF SafetyInv, CapacityInv
    <3>2. Total(q) \in Nat /\ Total(q)' \in Nat /\ Capacity[q] \in Nat
      <4>1. avail[q] \in Nat /\ avail'[q] \in Nat /\ Capacity[q] \in Nat
        BY CoordinatorAssumption, ZenonT(60) DEF SafetyInv, TypeOK
      <4>2. Cardinality(HeldIn(q)) \in Nat
        BY HeldFinite, Zenon
      <4>3. Cardinality(HeldIn(q)') \in Nat
        <5>1. HeldIn(q)' \in SUBSET Jobs
          BY Zenon DEF HeldIn, Held
        <5> QED BY <5>1, Zenon DEF JobsCount
      <4> QED BY <4>1, <4>2, <4>3, SMTT(30) DEF Total
    <3> QED BY <3>1, <3>2, SMTT(30)
  <2>3. (\A q \in Queues : Total(q) <= Capacity[q])'
    BY <2>2, Zenon
  <2> QED BY <2>3, Zenon DEF CapacityInv
<1> QED BY <1>2, <1>3, Zenon

\* Every step of a lifetime that recovered no job accounts for every permit.
LEMMA RunPermits == JobsCount /\ SafetyInv /\ PermitsInv /\ [Next]_vars => PermitsInv'
<1> SUFFICES ASSUME JobsCount, SafetyInv, PermitsInv, [Next]_vars, pc' # "done"
             PROVE  /\ Unbacked' = {}
                    /\ \A q \in Queues : Total(q)' = Capacity[q]
  BY Zenon DEF PermitsInv
<1>1. pc # "done" /\ PermitStep
  BY DoneIsQuiet, NextPermits, Zenon
<1>2. Unbacked = {} /\ \A q \in Queues : Total(q) = Capacity[q]
  BY <1>1, Zenon DEF PermitsInv
<1>3. Unbacked' = {}
  BY <1>1, <1>2, Zenon DEF PermitStep
<1>4. ASSUME NEW q \in Queues PROVE Total(q)' = Capacity[q]
  BY <1>1, <1>2, TotalStep, ZenonT(60) DEF SafetyInv
<1> QED BY <1>3, <1>4, Zenon

\* A lifetime starts with every permit accounted for: it is free, or
\* reserve_permits_for_recovered took it for a live job.
LEMMA StartTotal ==
    ASSUME JobsCount, NEW jobs \in SUBSET Jobs, NEW epoch, StartFrom(jobs, epoch)
    PROVE  /\ \A q \in Queues : Total(q) = Capacity[q]
           /\ Fits
<1>1. /\ avail = ReservePermits(store)
      /\ client = [j \in Jobs |-> IF store[j] = Absent THEN "idle" ELSE "ok"]
      /\ Fits
  BY Zenon DEF StartFrom, Fits
<1>2. ASSUME NEW q \in Queues PROVE Total(q) = Capacity[q]
  <2>1. \A j \in Jobs : client[j] \notin {"permit", "sent"}
    BY <1>1, Zenon
  <2>2. HeldIn(q) = JobsIn(store, q, Live)
    BY <2>1, Zenon DEF HeldIn, Held, JobsIn
  <2>3. avail[q] = Capacity[q] - Cardinality(HeldIn(q))
    BY <1>1, <2>2, ZenonT(60) DEF ReservePermits
  <2>4. Cardinality(HeldIn(q)) \in Nat /\ Capacity[q] \in Nat
    BY HeldFinite, CoordinatorAssumption, ZenonT(60)
  <2> QED BY <2>3, <2>4, SMTT(30) DEF Total
<1> QED BY <1>1, <1>2, Zenon

-----------------------------------------------------------------------------
\* What the permits give.

\* A lifetime starts within capacity.
LEMMA StartCapacity ==
    ASSUME JobsCount, NEW jobs \in SUBSET Jobs, NEW epoch, StartFrom(jobs, epoch)
    PROVE  CapacityInv
<1>1. (\A q \in Queues : Total(q) = Capacity[q]) /\ Fits
  BY StartTotal, Zenon
<1>2. \A q \in Queues : Capacity[q] \in Nat
  BY CoordinatorAssumption, ZenonT(60)
<1> QED BY <1>1, <1>2, SMTT(30) DEF CapacityInv

\* Free permits, submissions on their way and live jobs.
LEMMA WithinCapacity ==
    ASSUME JobsCount, SafetyInv, CapacityInv
    PROVE  NeverOverCapacity
<1> SUFFICES ASSUME pc # "done", NEW q \in Queues
             PROVE  avail[q] + Cardinality(InFlight(q))
                       + Cardinality(JobsIn(store, q, Live)) <= Capacity[q]
  BY Zenon DEF NeverOverCapacity
<1>1. avail[q] + Cardinality(HeldIn(q)) <= Capacity[q]
  BY Zenon DEF CapacityInv, Total
<1>2. avail[q] \in Nat
  BY PermitTypes, ZenonT(60) DEF SafetyInv
<1> QED BY <1>1, <1>2, HeldSplits, SMTT(30)

\* The same, with no permit missing.
LEMMA PermitsAddUp ==
    ASSUME JobsCount, SafetyInv, PermitsInv
    PROVE  CapacityIsLiveJobs
<1> SUFFICES ASSUME pc # "done", NEW q \in Queues
             PROVE  Capacity[q] = avail[q] + Cardinality(InFlight(q))
                                     + Cardinality(JobsIn(store, q, Live))
  BY Zenon DEF CapacityIsLiveJobs
<1>1. Capacity[q] = avail[q] + Cardinality(HeldIn(q))
  BY Zenon DEF PermitsInv, Total
<1>2. avail[q] \in Nat
  BY PermitTypes, Zenon DEF SafetyInv
<1> QED BY <1>1, <1>2, HeldSplits, SMTT(30)
=============================================================================
