--------------------------- MODULE RecoveryProofs ---------------------------
(***************************************************************************)
(* The log across restarts: for any number of jobs, frames, crashes and    *)
(* failing writes and syncs.  The inductive invariant tells a clean log,   *)
(* where the writer's next number is that of the next frame, from a dirty  *)
(* one, where a write or a sync failed and every later frame has a number  *)
(* that no scan accepts.                                                   *)
(***************************************************************************)
EXTENDS Recovery, TLAPS, WellFoundedInduction

-----------------------------------------------------------------------------
\* Induction over the natural numbers, said of sets.

\* A set of numbers has a least element.
LEMMA NatMin ==
    ASSUME NEW T \in SUBSET Nat, T # {}
    PROVE  \E n \in T : \A m \in T : n <= m
<1> DEFINE R == OpToRel(<, Nat)
<1>1. IsWellFoundedOn(R, Nat)
  BY NatLessThanWellFounded, Zenon
<1>2. \A x, y \in Nat : x < y => <<x, y>> \in R
  BY Zenon DEF OpToRel
<1> HIDE DEF R
<1>3. PICK n \in T : \A m \in T : ~(<<m, n>> \in R)
  BY <1>1, WFMin, Zenon
<1>4. ASSUME NEW m \in T PROVE n <= m
  <2>1. m \in Nat /\ n \in Nat /\ ~(<<m, n>> \in R)
    BY <1>3, Zenon
  <2>2. ~(m < n)
    BY <1>2, <2>1, Zenon
  <2> QED BY <2>1, <2>2
<1> QED BY <1>4, Zenon

\* Induction over the naturals, with a set for the predicate.
LEMMA SetInduction ==
    ASSUME NEW S, 0 \in S, \A n \in Nat : n \in S => n + 1 \in S
    PROVE  \A n \in Nat : n \in S
<1> SUFFICES ASSUME Nat \ S # {} PROVE FALSE
  BY Zenon
<1>1. PICK n \in Nat \ S : \A m \in Nat \ S : n <= m
  BY NatMin, Zenon
<1>2. n # 0
  BY Zenon
<1>3. n - 1 \in Nat /\ n - 1 \in S
  BY <1>1, <1>2
<1> QED BY <1>1, <1>3

-----------------------------------------------------------------------------
\* Sequences of frames.

\* Sequences: their length and elements,
LEMMA SeqOf ==
    ASSUME NEW S, NEW s \in Seq(S)
    PROVE  /\ Len(s) \in Nat /\ DOMAIN s = 1 .. Len(s)
           /\ \A i \in 1 .. Len(s) : s[i] \in S
           /\ s = <<>> <=> Len(s) = 0
OBVIOUS

\* what Append adds,
LEMMA AppendOf ==
    ASSUME NEW S, NEW s \in Seq(S), NEW e \in S
    PROVE  /\ Append(s, e) \in Seq(S)
           /\ Len(Append(s, e)) = Len(s) + 1
           /\ \A i \in 1 .. Len(s) : Append(s, e)[i] = s[i]
           /\ Append(s, e)[Len(s) + 1] = e
OBVIOUS

\* and what a prefix keeps.
LEMMA PrefixOf ==
    ASSUME NEW S, NEW s \in Seq(S), NEW n \in 0 .. Len(s)
    PROVE  /\ SubSeq(s, 1, n) \in Seq(S)
           /\ Len(SubSeq(s, 1, n)) = n
           /\ \A i \in 1 .. n : SubSeq(s, 1, n)[i] = s[i]
OBVIOUS

\* The longest prefix is the sequence.
LEMMA WholePrefix ==
    ASSUME NEW S, NEW s \in Seq(S)
    PROVE  SubSeq(s, 1, Len(s)) = s
OBVIOUS

\* A prefix grows by one element.
LEMMA PrefixStep ==
    ASSUME NEW S, NEW s \in Seq(S), NEW n \in 0 .. Len(s) - 1
    PROVE  SubSeq(s, 1, n + 1) = Append(SubSeq(s, 1, n), s[n + 1])
OBVIOUS

\* Sequences that agree so far have the same prefix.
LEMMA SamePrefix ==
    ASSUME NEW S, NEW s \in Seq(S), NEW t \in Seq(S),
           NEW n \in 0 .. Len(s), n \in 0 .. Len(t),
           \A i \in 1 .. n : t[i] = s[i]
    PROVE  SubSeq(t, 1, n) = SubSeq(s, 1, n)
OBVIOUS

\* Two logs with the same records, up to n.
SameRecords(s, t, n) == \A i \in 1 .. n : s[i].record = t[i].record

\* The fields of a frame.
LEMMA FrameOf ==
    ASSUME NEW s \in Seq(Frame), NEW i \in 1 .. Len(s)
    PROVE  /\ s[i].seq \in Nat /\ s[i].record \in WalRecord
           /\ s[i].whole \in BOOLEAN /\ s[i].acked \in BOOLEAN
<1>1. s[i] \in Frame
  BY SeqOf, Zenon
<1> QED BY <1>1, Zenon DEF Frame

-----------------------------------------------------------------------------
\* The replay.

\* Replaying a record gives a job table.
LEMMA ApplyType ==
    ASSUME NEW t \in [Jobs -> JobRecord], NEW r \in WalRecord
    PROVE  ApplyRecordForRecovery(t, r) \in [Jobs -> JobRecord]
<1>1. r.id \in Jobs /\ t[r.id] \in JobRecord
  BY Zenon DEF WalRecord
<1>2. Entry(t[r.id], r) \in JobRecord
  BY <1>1 DEF Entry, JobRecord, WalRecord, RecordType, TargetState, JobState
<1> QED BY <1>1, <1>2, Zenon DEF ApplyRecordForRecovery, ApplyRecord

\* The function that Replay defines, for the first n records of s.
IsTable(g, s, n) ==
    g = [i \in 0 .. n |-> IF i = 0 THEN NoJobs
                          ELSE ApplyRecordForRecovery(g[i - 1], s[i].record)]

\* Replay is defined by recursion: the function it chooses exists,
LEMMA TableExists ==
    ASSUME NEW s, NEW n \in Nat
    PROVE  \E g : IsTable(g, s, n)
<1> DEFINE S == {m \in Nat : \E g : IsTable(g, s, m)}
<1>1. 0 \in S
  <2> DEFINE g == [i \in 0 .. 0 |-> NoJobs]
  <2>1. IsTable(g, s, 0)
    BY DEF IsTable
  <2> HIDE DEF g
  <2> QED BY <2>1, Zenon
<1>2. ASSUME NEW m \in Nat, m \in S PROVE m + 1 \in S
  <2>1. PICK g : IsTable(g, s, m)
    BY <1>2, Zenon
  <2> DEFINE e == ApplyRecordForRecovery(g[m], s[m + 1].record)
             h == [i \in 0 .. m + 1 |-> IF i = m + 1 THEN e ELSE g[i]]
  <2>2. \A i \in 0 .. m : g[i] = IF i = 0 THEN NoJobs
                                 ELSE ApplyRecordForRecovery(g[i - 1], s[i].record)
    BY <2>1, Zenon DEF IsTable
  <2>3. \A i \in 0 .. m : h[i] = g[i]
    BY <1>2
  <2>4. h[m + 1] = e
    BY <1>2, SMTT(30)
  <2>5. ASSUME NEW i \in 0 .. m + 1
        PROVE  h[i] = IF i = 0 THEN NoJobs
                      ELSE ApplyRecordForRecovery(h[i - 1], s[i].record)
    <3>1. CASE i \in 0 .. m
      <4>1. i = 0 \/ h[i - 1] = g[i - 1]
        BY <2>3, <3>1
      <4> HIDE DEF h
      <4> QED BY <2>2, <2>3, <3>1, <4>1, Zenon
    <3>2. CASE i = m + 1
      <4>1. i # 0 /\ i - 1 = m /\ h[m] = g[m]
        BY <2>3, <3>2
      <4> HIDE DEF h
      <4> QED BY <2>4, <3>2, <4>1, Zenon
    <3> QED BY <3>1, <3>2
  <2>6. IsTable(h, s, m + 1)
    <3> HIDE DEF e
    <3>1. h = [i \in 0 .. m + 1 |-> h[i]]
      BY Zenon
    <3> HIDE DEF h
    <3> QED BY <2>5, <3>1, Zenon DEF IsTable
  <2> HIDE DEF h
  <2> QED BY <2>6
<1> HIDE DEF S
<1>3. n \in S
  BY <1>1, <1>2, SetInduction, Zenon
<1> QED BY <1>3, Zenon DEF S

\* and only the records it reads determine it.
LEMMA TablesAgree ==
    ASSUME NEW s, NEW t, NEW n \in Nat, NEW m \in Nat,
           NEW g, NEW h, IsTable(g, s, n), IsTable(h, t, m),
           NEW k \in Nat, k <= n, k <= m, SameRecords(s, t, k)
    PROVE  g[k] = h[k]
<1> DEFINE S == {i \in Nat : i <= k => g[i] = h[i]}
<1>1. /\ \A i \in 0 .. n : g[i] = IF i = 0 THEN NoJobs
                                  ELSE ApplyRecordForRecovery(g[i - 1], s[i].record)
      /\ \A i \in 0 .. m : h[i] = IF i = 0 THEN NoJobs
                                  ELSE ApplyRecordForRecovery(h[i - 1], t[i].record)
  BY Zenon DEF IsTable
<1>2. 0 \in S
  BY <1>1
<1>3. ASSUME NEW i \in Nat, i \in S PROVE i + 1 \in S
  <2> SUFFICES ASSUME i + 1 <= k PROVE g[i + 1] = h[i + 1]
    OBVIOUS
  <2>1. /\ i + 1 \in 0 .. n /\ i + 1 \in 0 .. m /\ i + 1 \in 1 .. k
        /\ i + 1 # 0 /\ (i + 1) - 1 = i
    OBVIOUS
  <2>2. g[i] = h[i]
    BY <1>3, <2>1
  <2> HIDE DEF S
  <2>3. /\ g[i + 1] = ApplyRecordForRecovery(g[i], s[i + 1].record)
        /\ h[i + 1] = ApplyRecordForRecovery(h[i], t[i + 1].record)
    BY <1>1, <2>1, Zenon
  <2>4. s[i + 1].record = t[i + 1].record
    BY <2>1, Zenon DEF SameRecords
  <2> QED BY <2>2, <2>3, <2>4, Zenon
<1> HIDE DEF S
<1>4. k \in S
  BY <1>2, <1>3, SetInduction, Zenon
<1> QED BY <1>4 DEF S

\* Replay is the last value of such a function.
LEMMA ReplayIs ==
    ASSUME NEW S, NEW s \in Seq(S)
    PROVE  \E g : IsTable(g, s, Len(s)) /\ Replay(s) = g[Len(s)]
<1> DEFINE T == CHOOSE g : IsTable(g, s, Len(s))
<1>1. IsTable(T, s, Len(s))
  BY TableExists, SeqOf, Zenon
<1>2. Replay(s) = T[Len(s)]
  BY Zenon DEF Replay, IsTable
<1> HIDE DEF T
<1> QED BY <1>1, <1>2, Zenon

\* It depends on the records only.
LEMMA ReplaySame ==
    ASSUME NEW s \in Seq(Frame), NEW t \in Seq(Frame), Len(s) = Len(t),
           SameRecords(s, t, Len(s))
    PROVE  Replay(s) = Replay(t)
<1>1. PICK g : IsTable(g, s, Len(s)) /\ Replay(s) = g[Len(s)]
  BY ReplayIs, Zenon
<1>2. PICK h : IsTable(h, t, Len(t)) /\ Replay(t) = h[Len(t)]
  BY ReplayIs, Zenon
<1>3. Len(s) \in Nat /\ Len(t) \in Nat
  BY SeqOf, Zenon
<1>4. g[Len(s)] = h[Len(s)]
  BY <1>1, <1>2, <1>3, TablesAgree, SMTT(30)
<1> QED BY <1>1, <1>2, <1>4, Zenon

\* An empty log holds no job.
LEMMA ReplayEmpty == Replay(<<>>) = NoJobs
<1>1. <<>> \in Seq(Frame) /\ Len(<<>>) = 0
  OBVIOUS
<1>2. PICK g : IsTable(g, <<>>, 0) /\ Replay(<<>>) = g[0]
  BY <1>1, ReplayIs, Zenon
<1> QED BY <1>2 DEF IsTable

\* A frame at the end is replayed last.
LEMMA ReplayAppend ==
    ASSUME NEW s \in Seq(Frame), NEW f \in Frame
    PROVE  Replay(Append(s, f)) = ApplyRecordForRecovery(Replay(s), f.record)
<1> DEFINE t == Append(s, f)
           n == Len(s)
<1>1. /\ t \in Seq(Frame) /\ Len(t) = n + 1 /\ t[n + 1] = f /\ n \in Nat
      /\ \A i \in 1 .. n : t[i] = s[i]
  BY AppendOf, SeqOf
<1> HIDE DEF t, n
<1>2. PICK g : IsTable(g, s, n) /\ Replay(s) = g[n]
  BY ReplayIs, Zenon DEF n
<1>3. PICK h : IsTable(h, t, n + 1) /\ Replay(t) = h[n + 1]
  BY <1>1, ReplayIs, Zenon
<1>4. h[n] = g[n]
  <2>1. n + 1 \in Nat /\ n <= n + 1 /\ n <= n
    BY <1>1
  <2>2. SameRecords(t, s, n)
    BY <1>1, Zenon DEF SameRecords
  <2> QED BY <1>1, <1>2, <1>3, <2>1, <2>2, TablesAgree, SMTT(30)
<1>5. h[n + 1] = ApplyRecordForRecovery(h[n], t[n + 1].record)
  <2>1. n + 1 \in 0 .. n + 1 /\ n + 1 # 0 /\ (n + 1) - 1 = n
    BY <1>1
  <2>2. \A i \in 0 .. n + 1 : h[i] = IF i = 0 THEN NoJobs
                              ELSE ApplyRecordForRecovery(h[i - 1], t[i].record)
    BY <1>3, Zenon DEF IsTable
  <2> QED BY <2>1, <2>2, Zenon
<1> QED BY <1>1, <1>2, <1>3, <1>4, <1>5, Zenon DEF t

\* A replay gives a job table.
LEMMA ReplayType ==
    ASSUME NEW s \in Seq(Frame)
    PROVE  Replay(s) \in [Jobs -> JobRecord]
<1> DEFINE S == {n \in Nat : n <= Len(s) => Replay(SubSeq(s, 1, n)) \in [Jobs -> JobRecord]}
<1>1. 0 \in S
  <2>1. SubSeq(s, 1, 0) = <<>>
    BY PrefixOf, SeqOf
  <2>2. NoJobs \in [Jobs -> JobRecord]
    BY Zenon DEF NoJobs, Absent, JobRecord
  <2> QED BY <2>1, <2>2, ReplayEmpty, Zenon
<1>2. ASSUME NEW n \in Nat, n \in S PROVE n + 1 \in S
  <2> SUFFICES ASSUME n + 1 <= Len(s)
               PROVE  Replay(SubSeq(s, 1, n + 1)) \in [Jobs -> JobRecord]
    OBVIOUS
  <2>1. n \in 0 .. Len(s) - 1 /\ n \in 0 .. Len(s) /\ n + 1 \in 1 .. Len(s)
    BY SeqOf
  <2>2. Replay(SubSeq(s, 1, n)) \in [Jobs -> JobRecord]
    BY <1>2, <2>1
  <2> HIDE DEF S
  <2>3. SubSeq(s, 1, n) \in Seq(Frame) /\ s[n + 1] \in Frame
    BY <2>1, PrefixOf, SeqOf, Zenon
  <2>4. s[n + 1].record \in WalRecord
    BY <2>1, FrameOf, Zenon
  <2>5. SubSeq(s, 1, n + 1) = Append(SubSeq(s, 1, n), s[n + 1])
    BY <2>1, PrefixStep, Zenon
  <2> QED BY <2>2, <2>3, <2>4, <2>5, ReplayAppend, ApplyType, Zenon
<1> HIDE DEF S
<1>3. Len(s) \in S
  BY <1>1, <1>2, SetInduction, SeqOf, Zenon
<1>4. Len(s) <= Len(s)
  BY SeqOf
<1>5. Replay(SubSeq(s, 1, Len(s))) \in [Jobs -> JobRecord]
  BY <1>3, <1>4, Zenon DEF S
<1> QED BY <1>5, WholePrefix, Zenon

-----------------------------------------------------------------------------
\* The highest epoch of the leases in a log, and of those of one job.

IsMaxEpoch(s, n, e) ==
    /\ e \in Nat
    /\ \A i \in 1 .. n : s[i].record.type = "JobLeased" => s[i].record.lease <= e
    /\ e = 0 \/ \E i \in 1 .. n : s[i].record.type = "JobLeased" /\ s[i].record.lease = e

\* The leases of a log have a highest epoch.
LEMMA MaxEpochExists ==
    ASSUME NEW s \in Seq(Frame)
    PROVE  \E e : IsMaxEpoch(s, Len(s), e)
<1> DEFINE S == {n \in Nat : n <= Len(s) => \E e : IsMaxEpoch(s, n, e)}
<1>1. 0 \in S
  <2>1. IsMaxEpoch(s, 0, 0)
    BY DEF IsMaxEpoch
  <2> QED BY <2>1, Zenon
<1>2. ASSUME NEW n \in Nat, n \in S PROVE n + 1 \in S
  <2> SUFFICES ASSUME n + 1 <= Len(s) PROVE \E e : IsMaxEpoch(s, n + 1, e)
    OBVIOUS
  <2>1. n <= Len(s) /\ n + 1 \in 1 .. Len(s)
    BY SeqOf
  <2>2. PICK e : IsMaxEpoch(s, n, e)
    BY <1>2, <2>1, Zenon
  <2> HIDE DEF S
  <2>3. s[n + 1].record.lease \in Nat /\ \A i \in 1 .. n : s[i].record.lease \in Nat
    BY <2>1, FrameOf DEF WalRecord
  <2>4. CASE s[n + 1].record.type = "JobLeased" /\ e < s[n + 1].record.lease
    <3>1. IsMaxEpoch(s, n + 1, s[n + 1].record.lease)
      BY <2>2, <2>3, <2>4, SMTT(30) DEF IsMaxEpoch
    <3> QED BY <3>1, Zenon
  <2>5. CASE ~(s[n + 1].record.type = "JobLeased" /\ e < s[n + 1].record.lease)
    <3>1. IsMaxEpoch(s, n + 1, e)
      BY <2>2, <2>3, <2>5, SMTT(30) DEF IsMaxEpoch
    <3> QED BY <3>1, Zenon
  <2> QED BY <2>4, <2>5, Zenon
<1> HIDE DEF S
<1>3. Len(s) \in S
  BY <1>1, <1>2, SetInduction, SeqOf, Zenon
<1>4. Len(s) <= Len(s)
  BY SeqOf
<1> QED BY <1>3, <1>4, Zenon DEF S

\* MaxLeaseEpoch is the highest epoch of the leases in the log,
LEMMA MaxEpochIs ==
    ASSUME NEW s \in Seq(Frame)
    PROVE  IsMaxEpoch(s, Len(s), MaxLeaseEpoch(s))
<1> DEFINE E == {0} \cup {s[i].record.lease :
                             i \in {k \in DOMAIN s : s[k].record.type = "JobLeased"}}
<1>1. PICK e : IsMaxEpoch(s, Len(s), e)
  BY MaxEpochExists, Zenon
<1>2. DOMAIN s = 1 .. Len(s)
  BY SeqOf, Zenon
<1>3. \A i \in 1 .. Len(s) : s[i].record.lease \in Nat
  BY FrameOf, Zenon DEF WalRecord
<1>4. E \subseteq Nat
  BY <1>2, <1>3, SMTT(30)
<1>5. e \in E /\ \A f \in E : f <= e
  BY <1>1, <1>2, SMTT(30) DEF IsMaxEpoch
<1>6. MaxLeaseEpoch(s) = CHOOSE m \in E : \A f \in E : f <= m
  BY Zenon DEF MaxLeaseEpoch
<1>7. MaxLeaseEpoch(s) \in E /\ \A f \in E : f <= MaxLeaseEpoch(s)
  <2> HIDE DEF E
  <2> QED BY <1>5, <1>6, Zenon
<1>8. MaxLeaseEpoch(s) = e
  <2> HIDE DEF E
  <2>1. e <= MaxLeaseEpoch(s) /\ MaxLeaseEpoch(s) <= e
    BY <1>5, <1>7, Zenon
  <2>2. e \in Nat /\ MaxLeaseEpoch(s) \in Nat
    BY <1>4, <1>5, <1>7, Zenon
  <2> QED BY <2>1, <2>2, SMTT(30)
<1> QED BY <1>1, <1>8, Zenon

\* and the only such number.
LEMMA MaxEpochOnly ==
    ASSUME NEW s \in Seq(Frame), NEW e, IsMaxEpoch(s, Len(s), e)
    PROVE  MaxLeaseEpoch(s) = e
<1>1. IsMaxEpoch(s, Len(s), MaxLeaseEpoch(s))
  BY MaxEpochIs, Zenon
<1> HIDE DEF MaxLeaseEpoch
<1>2. Len(s) \in Nat
  BY SeqOf, Zenon
<1> QED BY <1>1, <1>2, SMTT(30) DEF IsMaxEpoch

\* It is a number.
LEMMA MaxEpochType ==
    ASSUME NEW s \in Seq(Frame)
    PROVE  MaxLeaseEpoch(s) \in Nat
BY MaxEpochIs, Zenon DEF IsMaxEpoch

\* The same of one job's leases.
IsLastLease(s, j, e) ==
    /\ e \in Nat
    /\ \A i \in 1 .. Len(s) :
          s[i].record.type = "JobLeased" /\ s[i].record.id = j => s[i].record.lease <= e
    /\ e = 0 \/ \E i \in 1 .. Len(s) : /\ s[i].record.type = "JobLeased"
                                       /\ s[i].record.id = j
                                       /\ s[i].record.lease = e

\* The log that LeaseIn looks at: only the leases of j count.
Masked(s, j) ==
    [i \in DOMAIN s |-> IF s[i].record.id = j THEN s[i]
                        ELSE [s[i] EXCEPT !.record.lease = 0]]

\* The log with the leases of the other jobs blanked out.
LEMMA MaskedLog ==
    ASSUME NEW s \in Seq(Frame), NEW j
    PROVE  /\ Masked(s, j) \in Seq(Frame)
           /\ Len(Masked(s, j)) = Len(s)
           /\ \A i \in 1 .. Len(s) :
                 /\ Masked(s, j)[i].record.type = s[i].record.type
                 /\ Masked(s, j)[i].record.lease =
                       IF s[i].record.id = j THEN s[i].record.lease ELSE 0
<1> DEFINE M == Masked(s, j)
<1>1. Len(s) \in Nat /\ DOMAIN s = 1 .. Len(s)
  BY SeqOf, Zenon
<1>2. ASSUME NEW i \in 1 .. Len(s)
      PROVE  /\ M[i] \in Frame
             /\ M[i].record.type = s[i].record.type
             /\ M[i].record.lease = IF s[i].record.id = j THEN s[i].record.lease ELSE 0
  <2>1. s[i] \in Frame
    BY SeqOf, Zenon
  <2>2. CASE s[i].record.id = j
    BY <1>1, <2>1, <2>2, Zenon DEF Masked
  <2>3. CASE s[i].record.id # j
    <3> DEFINE r == [s[i].record EXCEPT !.lease = 0]
    <3>1. M[i] = [s[i] EXCEPT !.record = r]
      BY <1>1, <2>3, Zenon DEF Masked
    <3>2. r \in WalRecord /\ r.type = s[i].record.type /\ r.lease = 0
      BY <2>1, Zenon DEF Frame, WalRecord
    <3> HIDE DEF M, r
    <3> QED BY <2>1, <2>3, <3>1, <3>2, Zenon DEF Frame
  <2> QED BY <2>2, <2>3, Zenon
<1>3. M = [i \in 1 .. Len(s) |-> M[i]]
  BY <1>1, Zenon DEF Masked
<1> HIDE DEF M
<1>4. M \in Seq(Frame) /\ Len(M) = Len(s)
  BY <1>1, <1>2, <1>3, SMTT(30)
<1> QED BY <1>2, <1>4, Zenon DEF M

\* The last lease of a job is the highest epoch of the masked log.
LEMMA LeaseInIs ==
    ASSUME NEW s \in Seq(Frame), NEW j, NEW e
    PROVE  IsLastLease(s, j, e) <=> IsMaxEpoch(Masked(s, j), Len(Masked(s, j)), e)
<1>1. \A i \in 1 .. Len(s) : s[i].record.lease \in Nat
  BY FrameOf, Zenon DEF WalRecord
<1>2. /\ Len(Masked(s, j)) = Len(s)
      /\ \A i \in 1 .. Len(s) :
            /\ Masked(s, j)[i].record.type = s[i].record.type
            /\ Masked(s, j)[i].record.lease =
                  IF s[i].record.id = j THEN s[i].record.lease ELSE 0
  BY MaskedLog
<1> QED BY <1>1, <1>2, SMTT(30) DEF IsLastLease, IsMaxEpoch

\* LeasesIn gives the last lease of each job.
LEMMA LeaseInOnly ==
    ASSUME NEW s \in Seq(Frame), NEW j \in Jobs, NEW e
    PROVE  /\ IsLastLease(s, j, LeasesIn(s)[j])
           /\ IsLastLease(s, j, e) => LeasesIn(s)[j] = e
<1>1. LeasesIn(s)[j] = MaxLeaseEpoch(Masked(s, j))
  BY Zenon DEF LeasesIn, LeaseIn, Masked
<1>2. Masked(s, j) \in Seq(Frame)
  BY MaskedLog, Zenon
<1> QED BY <1>1, <1>2, LeaseInIs, MaxEpochIs, MaxEpochOnly, Zenon

\* The last leases are numbers.
LEMMA LeasesType ==
    ASSUME NEW s \in Seq(Frame)
    PROVE  LeasesIn(s) \in [Jobs -> Nat]
<1>1. \A j \in Jobs : LeasesIn(s)[j] \in Nat
  BY LeaseInOnly, Zenon DEF IsLastLease
<1> QED BY <1>1, Zenon DEF LeasesIn

\* No lease of one job is above the highest.
LEMMA LeaseBelowMax ==
    ASSUME NEW s \in Seq(Frame), NEW j \in Jobs
    PROVE  LeasesIn(s)[j] <= MaxLeaseEpoch(s)
<1>1. IsLastLease(s, j, LeasesIn(s)[j]) /\ IsMaxEpoch(s, Len(s), MaxLeaseEpoch(s))
  BY LeaseInOnly, MaxEpochIs, Zenon
<1> HIDE DEF MaxLeaseEpoch, LeasesIn
<1> QED BY <1>1 DEF IsLastLease, IsMaxEpoch

\* Both depend on the records only.
LEMMA EpochsSame ==
    ASSUME NEW s \in Seq(Frame), NEW t \in Seq(Frame), Len(s) = Len(t),
           SameRecords(s, t, Len(s))
    PROVE  MaxLeaseEpoch(s) = MaxLeaseEpoch(t) /\ LeasesIn(s) = LeasesIn(t)
<1>1. IsMaxEpoch(s, Len(s), MaxLeaseEpoch(t))
  <2>1. IsMaxEpoch(t, Len(t), MaxLeaseEpoch(t))
    BY MaxEpochIs, Zenon
  <2> QED BY <2>1, Zenon DEF IsMaxEpoch, SameRecords
<1>2. ASSUME NEW j \in Jobs PROVE LeasesIn(s)[j] = LeasesIn(t)[j]
  <2>1. IsLastLease(t, j, LeasesIn(t)[j])
    BY LeaseInOnly, Zenon
  <2>2. IsLastLease(s, j, LeasesIn(t)[j])
    BY <2>1, Zenon DEF IsLastLease, SameRecords
  <2> QED BY <2>2, LeaseInOnly, Zenon
<1>3. LeasesIn(s) \in [Jobs -> Nat] /\ LeasesIn(t) \in [Jobs -> Nat]
  BY LeasesType, Zenon
<1> QED BY <1>1, <1>2, <1>3, MaxEpochOnly, SMTT(30)

\* An empty log issued no lease.
LEMMA EpochsEmpty == MaxLeaseEpoch(<<>>) = 0 /\ LeasesIn(<<>>) = NoEpochs
<1>1. <<>> \in Seq(Frame) /\ Len(<<>>) = 0
  OBVIOUS
<1>2. IsMaxEpoch(<<>>, 0, 0)
  BY DEF IsMaxEpoch
<1>3. ASSUME NEW j \in Jobs PROVE LeasesIn(<<>>)[j] = 0
  <2>1. IsLastLease(<<>>, j, 0)
    BY <1>1 DEF IsLastLease
  <2> QED BY <1>1, <2>1, LeaseInOnly, Zenon
<1>4. LeasesIn(<<>>) \in [Jobs -> Nat]
  BY <1>1, LeasesType, Zenon
<1> QED BY <1>1, <1>2, <1>3, <1>4, MaxEpochOnly, Zenon DEF NoEpochs

\* A record that is no lease changes neither.
LEMMA EpochsKept ==
    ASSUME NEW s \in Seq(Frame), NEW f \in Frame, f.record.type # "JobLeased"
    PROVE  /\ MaxLeaseEpoch(Append(s, f)) = MaxLeaseEpoch(s)
           /\ LeasesIn(Append(s, f)) = LeasesIn(s)
<1> DEFINE t == Append(s, f)
<1>1. /\ t \in Seq(Frame) /\ Len(t) = Len(s) + 1 /\ t[Len(s) + 1] = f /\ Len(s) \in Nat
      /\ \A i \in 1 .. Len(s) : t[i] = s[i]
  BY AppendOf, SeqOf, SMTT(30)
<1> HIDE DEF t
<1>2. IsMaxEpoch(t, Len(t), MaxLeaseEpoch(s))
  <2>1. IsMaxEpoch(s, Len(s), MaxLeaseEpoch(s))
    BY MaxEpochIs, Zenon
  <2> QED BY <1>1, <2>1, SMTT(30) DEF IsMaxEpoch
<1>3. ASSUME NEW j \in Jobs PROVE LeasesIn(t)[j] = LeasesIn(s)[j]
  <2>1. IsLastLease(s, j, LeasesIn(s)[j])
    BY LeaseInOnly, Zenon
  <2>2. IsLastLease(t, j, LeasesIn(s)[j])
    BY <1>1, <2>1, SMTT(30) DEF IsLastLease
  <2> QED BY <1>1, <2>2, LeaseInOnly, Zenon
<1>4. LeasesIn(s) \in [Jobs -> Nat] /\ LeasesIn(t) \in [Jobs -> Nat]
  BY <1>1, LeasesType, Zenon
<1>5. LeasesIn(t) = LeasesIn(s)
  BY <1>3, <1>4, SMTT(30)
<1>6. MaxLeaseEpoch(t) = MaxLeaseEpoch(s)
  BY <1>1, <1>2, MaxEpochOnly, Zenon
<1> QED BY <1>5, <1>6, Zenon DEF t

\* A lease with the next epoch is the highest of all and the last of its job.
LEMMA EpochsNext ==
    ASSUME NEW s \in Seq(Frame), NEW f \in Frame, f.record.type = "JobLeased",
           f.record.lease = MaxLeaseEpoch(s) + 1
    PROVE  /\ MaxLeaseEpoch(Append(s, f)) = MaxLeaseEpoch(s) + 1
           /\ LeasesIn(Append(s, f)) = [LeasesIn(s) EXCEPT ![f.record.id] = f.record.lease]
<1> DEFINE t == Append(s, f)
           e == f.record.lease
<1>1. /\ t \in Seq(Frame) /\ Len(t) = Len(s) + 1 /\ t[Len(s) + 1] = f /\ Len(s) \in Nat
      /\ \A i \in 1 .. Len(s) : t[i] = s[i]
  BY AppendOf, SeqOf, SMTT(30)
<1>2. MaxLeaseEpoch(s) \in Nat /\ e \in Nat /\ e = MaxLeaseEpoch(s) + 1 /\ f.record.id \in Jobs
  BY MaxEpochType, Zenon DEF Frame, WalRecord
<1> HIDE DEF t, e
<1>3. IsMaxEpoch(s, Len(s), MaxLeaseEpoch(s))
  BY MaxEpochIs, Zenon
<1>4. \A i \in 1 .. Len(s) : s[i].record.type = "JobLeased" => s[i].record.lease <= e
  <2>1. \A i \in 1 .. Len(s) : s[i].record.lease \in Nat
    BY FrameOf, Zenon DEF WalRecord
  <2> QED BY <1>2, <1>3, <2>1, SMTT(30) DEF IsMaxEpoch
<1>5. IsMaxEpoch(t, Len(t), e)
  <2>1. /\ t[Len(s) + 1].record.type = "JobLeased" /\ t[Len(s) + 1].record.lease = e
        /\ Len(s) + 1 \in 1 .. Len(t)
    BY <1>1, SMTT(30) DEF e
  <2>2. \A i \in 1 .. Len(t) : t[i].record.type = "JobLeased" => t[i].record.lease <= e
    BY <1>1, <1>2, <1>4, <2>1, SMTT(30)
  <2> QED BY <1>2, <2>1, <2>2, Zenon DEF IsMaxEpoch
<1>6. ASSUME NEW j \in Jobs
      PROVE  LeasesIn(t)[j] = IF j = f.record.id THEN e ELSE LeasesIn(s)[j]
  <2>1. CASE j = f.record.id
    <3>1. IsLastLease(t, j, e)
      BY <1>1, <1>2, <1>4, <2>1, SMTT(30) DEF IsLastLease, e
    <3> QED BY <1>1, <2>1, <3>1, LeaseInOnly, SMTT(30)
  <2>2. CASE j # f.record.id
    <3>1. IsLastLease(s, j, LeasesIn(s)[j])
      BY LeaseInOnly, Zenon
    <3>2. IsLastLease(t, j, LeasesIn(s)[j])
      BY <1>1, <2>2, <3>1, SMTT(30) DEF IsLastLease
    <3> QED BY <1>1, <2>2, <3>2, LeaseInOnly, Zenon
  <2> QED BY <2>1, <2>2, Zenon
<1>7. LeasesIn(s) \in [Jobs -> Nat] /\ LeasesIn(t) \in [Jobs -> Nat]
  BY <1>1, LeasesType, Zenon
<1>8. LeasesIn(t) = [LeasesIn(s) EXCEPT ![f.record.id] = e]
  BY <1>6, <1>7, ZenonT(60)
<1> QED BY <1>1, <1>2, <1>5, <1>8, MaxEpochOnly, Zenon DEF t, e

-----------------------------------------------------------------------------
\* The first n frames are accepted by a scan.
GoodUpTo(s, n) == \A i \in 1 .. n : s[i].whole /\ s[i].seq = i

\* LogIsLegal, without GoodPrefix: every accepted frame is allowed by those
\* before it.
Legal(s) ==
    \A n \in 0 .. Len(s) - 1 :
        GoodUpTo(s, n + 1) => s[n + 1].record \in AllowedAfter(SubSeq(s, 1, n))

\* What crashes alone leave: accepted frames, the last of them perhaps torn.
Tidy(s) ==
    \A i \in 1 .. Len(s) :
        /\ i < Len(s) => s[i].whole
        /\ s[i].whole => s[i].seq = i


\* A record that is allowed, case by case.
LEMMA AllowedIs ==
    ASSUME NEW table, NEW leases, NEW epoch, NEW r
    PROVE  r \in Contract!Allowed(table, leases, epoch) <=>
              \E j \in Jobs :
                 \/ table[j].state = "Absent" /\ r = Record("JobSubmitted", j, 0, 0)
                 \/ /\ table[j].state \in {"Queued", "RetryWaiting"}
                    /\ r = Record("JobLeased", j, epoch, table[j].attempts + 1)
                 \/ /\ table[j].state = "Running"
                    /\ \E type \in {"JobCompleted", "JobDead", "JobRetryScheduled"} :
                          /\ r = Record(type, j, leases[j], table[j].attempts)
                          /\ type = "JobRetryScheduled" =>
                                table[j].attempts < MaxAttempts[j]
                 \/ table[j].state \in Live /\ r = Record("JobCancelled", j, 0, 0)
<1>1. /\ Contract!Live = Live
      /\ \A type, id, lease, attempt :
            Contract!Record(type, id, lease, attempt) = Record(type, id, lease, attempt)
  BY Zenon DEF Contract!Live, Contract!JobState, Contract!Terminal, Live, JobState, Terminal,
         Contract!Record, Record
<1> QED BY <1>1, Zenon DEF Contract!Allowed

\* JobLog allows records only, and leases only under the next epoch.
LEMMA AllowedType ==
    ASSUME NEW table \in [Jobs -> JobRecord], NEW leases \in [Jobs -> Nat],
           NEW epoch \in Nat, NEW r \in Contract!Allowed(table, leases, epoch)
    PROVE  /\ r \in WalRecord
           /\ r.type = "JobLeased" => r.lease = epoch
BY AllowedIs DEF Record, WalRecord, RecordType, JobRecord

\* What JobLog allows depends on the records in the log alone.
LEMMA AllowedSame ==
    ASSUME NEW s \in Seq(Frame), NEW t \in Seq(Frame), Len(s) = Len(t),
           SameRecords(s, t, Len(s))
    PROVE  AllowedAfter(s) = AllowedAfter(t)
<1>1. Replay(s) = Replay(t) /\ MaxLeaseEpoch(s) = MaxLeaseEpoch(t) /\ LeasesIn(s) = LeasesIn(t)
  BY ReplaySame, EpochsSame, Zenon
<1> QED BY <1>1, Zenon DEF AllowedAfter

\* What an allowed record does to the replay and the epochs.
LEMMA AllowedApplied ==
    ASSUME NEW s \in Seq(Frame), NEW f \in Frame, f.record \in AllowedAfter(s)
    PROVE  LET t == Append(s, f)
               r == f.record
           IN /\ Replay(t) = ApplyRecordForRecovery(Replay(s), r)
              /\ LeasesIn(t) = IF r.type = "JobLeased"
                               THEN [LeasesIn(s) EXCEPT ![r.id] = r.lease] ELSE LeasesIn(s)
              /\ MaxLeaseEpoch(t) = IF r.type = "JobLeased"
                                    THEN MaxLeaseEpoch(s) + 1 ELSE MaxLeaseEpoch(s)
<1>1. Replay(s) \in [Jobs -> JobRecord] /\ LeasesIn(s) \in [Jobs -> Nat]
      /\ MaxLeaseEpoch(s) + 1 \in Nat
  BY ReplayType, LeasesType, MaxEpochType, SMTT(30)
<1>2. f.record.type = "JobLeased" => f.record.lease = MaxLeaseEpoch(s) + 1
  BY <1>1, AllowedType, SMTT(30) DEF AllowedAfter
<1>3. CASE f.record.type = "JobLeased"
  BY <1>2, <1>3, EpochsNext, ReplayAppend, Zenon
<1>4. CASE f.record.type # "JobLeased"
  BY <1>4, EpochsKept, ReplayAppend, Zenon
<1> QED BY <1>3, <1>4, Zenon

-----------------------------------------------------------------------------
\* Legal logs.

\* An empty log is legal.
LEMMA LegalEmpty == Legal(<<>>)
BY DEF Legal

\* So is every prefix of a legal log,
LEMMA LegalPrefix ==
    ASSUME NEW s \in Seq(Frame), Legal(s), NEW m \in 0 .. Len(s)
    PROVE  Legal(SubSeq(s, 1, m))
<1> DEFINE t == SubSeq(s, 1, m)
<1>1. t \in Seq(Frame) /\ Len(t) = m /\ \A i \in 1 .. m : t[i] = s[i]
  BY PrefixOf, Zenon
<1> HIDE DEF t
<1> SUFFICES ASSUME NEW n \in 0 .. m - 1, GoodUpTo(t, n + 1)
             PROVE  t[n + 1].record \in AllowedAfter(SubSeq(t, 1, n))
  BY <1>1, Zenon DEF Legal, t
<1>2. n \in 0 .. Len(s) - 1 /\ n \in 0 .. m /\ n \in 0 .. Len(s) /\ n + 1 \in 1 .. m
  BY SeqOf, SMTT(30)
<1>3. GoodUpTo(s, n + 1)
  BY <1>1, <1>2, SMTT(30) DEF GoodUpTo
<1>4. SubSeq(t, 1, n) = SubSeq(s, 1, n)
  BY <1>1, <1>2, SamePrefix, SMTT(30)
<1> QED BY <1>1, <1>2, <1>3, <1>4, Zenon DEF Legal

\* and a legal log with a frame that JobLog allows.
LEMMA LegalAppend ==
    ASSUME NEW s \in Seq(Frame), Legal(s), NEW f \in Frame,
           f.whole /\ f.seq = Len(s) + 1 => f.record \in AllowedAfter(s)
    PROVE  Legal(Append(s, f))
<1> DEFINE t == Append(s, f)
<1>1. /\ t \in Seq(Frame) /\ Len(t) = Len(s) + 1 /\ Len(s) \in Nat
      /\ \A i \in 1 .. Len(s) : t[i] = s[i]
      /\ t[Len(s) + 1] = f
  BY AppendOf, SeqOf, SMTT(30)
<1> HIDE DEF t
<1> SUFFICES ASSUME NEW n \in 0 .. Len(s), GoodUpTo(t, n + 1)
             PROVE  t[n + 1].record \in AllowedAfter(SubSeq(t, 1, n))
  BY <1>1, SMTT(30) DEF Legal, t
<1>2. SubSeq(t, 1, n) = SubSeq(s, 1, n)
  BY <1>1, SamePrefix, SMTT(30)
<1>3. CASE n \in 0 .. Len(s) - 1
  <2>1. GoodUpTo(s, n + 1) /\ t[n + 1] = s[n + 1]
    BY <1>1, <1>3, SMTT(30) DEF GoodUpTo
  <2> QED BY <1>2, <1>3, <2>1, Zenon DEF Legal
<1>4. CASE n = Len(s)
  <2>1. f.whole /\ f.seq = Len(s) + 1
    BY <1>1, <1>4 DEF GoodUpTo
  <2>2. SubSeq(s, 1, n) = s
    BY <1>4, WholePrefix, Zenon
  <2> QED BY <1>1, <1>2, <1>4, <2>1, <2>2, Zenon
<1> QED BY <1>1, <1>3, <1>4, SMTT(30)

\* Whether a frame was acknowledged does not matter.
LEMMA LegalSame ==
    ASSUME NEW s \in Seq(Frame), Legal(s), NEW t \in Seq(Frame), Len(t) = Len(s),
           \A i \in 1 .. Len(s) : /\ t[i].record = s[i].record /\ t[i].seq = s[i].seq
                                  /\ t[i].whole = s[i].whole
    PROVE  Legal(t)
<1> SUFFICES ASSUME NEW n \in 0 .. Len(s) - 1, GoodUpTo(t, n + 1)
             PROVE  t[n + 1].record \in AllowedAfter(SubSeq(t, 1, n))
  BY Zenon DEF Legal
<1>1. Len(s) \in Nat /\ n \in 0 .. Len(s) /\ n \in 0 .. Len(t) /\ n + 1 \in 1 .. Len(s)
  BY SeqOf, SMTT(30)
<1>2. GoodUpTo(s, n + 1)
  BY <1>1, SMTT(30) DEF GoodUpTo
<1>3. /\ SubSeq(t, 1, n) \in Seq(Frame) /\ Len(SubSeq(t, 1, n)) = n
      /\ \A i \in 1 .. n : SubSeq(t, 1, n)[i] = t[i]
  BY <1>1, PrefixOf, Zenon
<1>4. /\ SubSeq(s, 1, n) \in Seq(Frame) /\ Len(SubSeq(s, 1, n)) = n
      /\ \A i \in 1 .. n : SubSeq(s, 1, n)[i] = s[i]
  BY <1>1, PrefixOf, Zenon
<1>5. SameRecords(SubSeq(t, 1, n), SubSeq(s, 1, n), n)
  BY <1>1, <1>3, <1>4, SMTT(30) DEF SameRecords
<1>6. AllowedAfter(SubSeq(t, 1, n)) = AllowedAfter(SubSeq(s, 1, n))
  BY <1>3, <1>4, <1>5, AllowedSame, Zenon
<1> QED BY <1>1, <1>2, <1>6, Zenon DEF Legal

\* GoodPrefix is the number of accepted frames.
LEMMA GoodPrefixIs ==
    ASSUME NEW s \in Seq(Frame)
    PROVE  /\ GoodPrefix(s) \in 0 .. Len(s)
           /\ GoodUpTo(s, GoodPrefix(s))
           /\ GoodPrefix(s) < Len(s) => \/ ~s[GoodPrefix(s) + 1].whole
                                        \/ s[GoodPrefix(s) + 1].seq # GoodPrefix(s) + 1
<1> DEFINE B == {i \in Nat : i \in 1 .. Len(s) /\ ~(s[i].whole /\ s[i].seq = i)}
           P(k) == /\ \A i \in 1 .. k : s[i].whole /\ s[i].seq = i
                   /\ k < Len(s) => ~s[k + 1].whole \/ s[k + 1].seq # k + 1
<1>1. Len(s) \in Nat
  BY SeqOf, Zenon
<1>2. \E k \in 0 .. Len(s) : P(k)
  <2>1. CASE B = {}
    <3>1. Len(s) \in 0 .. Len(s) /\ P(Len(s))
      BY <1>1, <2>1, SMTT(30)
    <3> HIDE DEF P
    <3> QED BY <3>1, Zenon
  <2>2. CASE B # {}
    <3>1. PICK b \in B : \A i \in B : b <= i
      BY <2>2, NatMin, Zenon
    <3>2. b \in 1 .. Len(s) /\ ~(s[b].whole /\ s[b].seq = b)
      BY Zenon
    <3>3. \A i \in 1 .. b - 1 : s[i].whole /\ s[i].seq = i
      BY <1>1, <3>1, <3>2, SMTT(30)
    <3>4. b - 1 \in 0 .. Len(s) /\ (b - 1) + 1 = b
      BY <1>1, <3>2, SMTT(30)
    <3>5. P(b - 1)
      BY <3>2, <3>3, <3>4, Zenon
    <3> HIDE DEF P
    <3> QED BY <3>4, <3>5, Zenon
  <2> QED BY <2>1, <2>2, Zenon
<1>3. GoodPrefix(s) = CHOOSE k \in 0 .. Len(s) : P(k)
  BY Zenon DEF GoodPrefix
<1>4. GoodPrefix(s) \in 0 .. Len(s) /\ P(GoodPrefix(s))
  <2> HIDE DEF P
  <2> QED BY <1>2, <1>3, Zenon
<1> QED BY <1>4, Zenon DEF GoodUpTo

\* Legal is LogIsLegal for the log on disk.
LEMMA LegalMeans == TypeOK /\ Legal(file) => LogIsLegal
<1> SUFFICES ASSUME TypeOK, Legal(file), NEW i \in 1 .. GoodPrefix(file)
             PROVE  file[i].record \in AllowedAfter(SubSeq(file, 1, i - 1))
  BY Zenon DEF LogIsLegal
<1>1. file \in Seq(Frame) /\ Len(file) \in Nat
  BY SeqOf, Zenon DEF TypeOK
<1>2. GoodPrefix(file) \in 0 .. Len(file) /\ GoodUpTo(file, GoodPrefix(file))
  BY <1>1, GoodPrefixIs, Zenon
<1>3. i - 1 \in 0 .. Len(file) - 1 /\ (i - 1) + 1 = i
  BY <1>1, <1>2, SMTT(30)
<1>4. GoodUpTo(file, i)
  BY <1>1, <1>2, SMTT(30) DEF GoodUpTo
<1>5. file[i].record \in AllowedAfter(SubSeq(file, 1, i - 1))
  BY <1>3, <1>4, Zenon DEF Legal
<1> QED BY <1>5, Zenon

-----------------------------------------------------------------------------
\* The inductive invariant.

\* The header is synced before the first frame is written.
HeaderInv ==
    /\ header # "synced" => file = <<>>
    /\ phase = "header" => header = "written"
    /\ phase = "reconcile" => header \in {"written", "synced"}
    /\ phase = "open" => header = "synced"

\* A process that has not read the log knows nothing.
Forgotten ==
    /\ phase \in {"down", "header", "refused"} => logged = NoJobs /\ lastLease = NoEpochs
    /\ phase # "reconcile" => lost = {}

\* While recovery writes its records: memory is the replay of the log without
\* them, and the jobs still Running are those it has yet to write a record for.
Reconciling ==
    phase = "reconcile" =>
        /\ GoodUpTo(file, Len(file))
        /\ nextSeq = Len(file) + 1
        /\ lost = Lost(Replay(file))
        /\ \A j \in Jobs : logged[j].attempts = Replay(file)[j].attempts
        /\ \A j \in lost : logged[j] = Replay(file)[j]
        /\ lastLease = LeasesIn(file)
        /\ nextLeaseEpoch = MaxLeaseEpoch(file) + 1

\* The frame that waits for its sync.
Pending == IF writing = None THEN 0 ELSE 1

\* The next frame gets the number of its place.
Clean == nextSeq + Pending = Len(file) + 1

\* While the queue is open: a clean log is good throughout and memory is its
\* replay, without the frame that waits; in a dirty one the numbers have fallen
\* behind, and no later frame is accepted.
Appending ==
    phase = "open" =>
        /\ nextSeq + Pending <= Len(file) + 1
        /\ Clean =>
              /\ GoodUpTo(file, Len(file))
              /\ logged = Replay(SubSeq(file, 1, Len(file) - Pending))
              /\ lastLease = LeasesIn(SubSeq(file, 1, Len(file) - Pending))
              /\ nextLeaseEpoch = MaxLeaseEpoch(SubSeq(file, 1, Len(file) - Pending)) + 1
              /\ writing # None => file[Len(file)].record = writing

\* Until a write or a sync fails.
FaultFree ==
    faults = 0 =>
        /\ Tidy(file)
        /\ \A i \in 1 .. Len(file) : file[i].acked => i <= synced /\ file[i].whole
        /\ phase = "open" => Clean
        /\ phase = "refused" => header = "torn"

RecoveryInv ==
    /\ TypeOK
    /\ HeaderInv
    /\ Forgotten
    /\ Legal(file)
    /\ Reconciling
    /\ Appending
    /\ FaultFree

\* The types of the file.
LEMMA FileIs ==
    ASSUME TypeOK
    PROVE  /\ file \in Seq(Frame) /\ Len(file) \in Nat /\ synced \in Nat
           /\ synced <= Len(file) /\ nextSeq \in Nat
           /\ \A i \in 1 .. Len(file) : file[i] \in Frame
BY SeqOf, SMTT(30) DEF TypeOK

\* At most one append is on its way.
LEMMA PendingIs ==
    /\ writing = None => Pending = 0
    /\ writing # None => Pending = 1
BY Zenon DEF Pending

-----------------------------------------------------------------------------
\* The frames that are written, and what acknowledging does to them.

\* A frame that is written whole, and in part.
LEMMA NewFrame ==
    ASSUME NEW seq \in Nat, NEW r \in WalRecord
    PROVE  LET f == WalFrame(seq, r)
           IN /\ f \in Frame /\ f.seq = seq /\ f.record = r /\ f.whole /\ ~f.acked
              /\ Torn(f) \in Frame /\ ~Torn(f).whole
BY Zenon DEF WalFrame, Torn, Frame

\* Tearing spoils a frame and nothing else of it.
LEMMA TornFrame ==
    ASSUME NEW f \in Frame
    PROVE  Torn(f) \in Frame /\ ~Torn(f).whole /\ Torn(f).acked = f.acked
BY Zenon DEF Torn, Frame

\* t is s, with more frames acknowledged.
MoreAcked(s, t) ==
    /\ t \in Seq(Frame) /\ Len(t) = Len(s)
    /\ \A i \in 1 .. Len(s) :
          /\ t[i].seq = s[i].seq /\ t[i].record = s[i].record
          /\ t[i].whole = s[i].whole
          /\ s[i].acked => t[i] = s[i]

\* Acknowledging a frame changes nothing else of it.
LEMMA AckFrame ==
    ASSUME NEW f \in Frame
    PROVE  LET a == [f EXCEPT !.acked = TRUE]
           IN /\ a \in Frame /\ a.seq = f.seq /\ a.record = f.record
              /\ a.whole = f.whole /\ (f.acked => a = f)
<1> DEFINE a == [f EXCEPT !.acked = TRUE]
<1>1. a \in Frame /\ a.seq = f.seq /\ a.record = f.record /\ a.whole = f.whole
  BY Zenon DEF Frame
<1>2. ASSUME f.acked PROVE a = f
  <2>1. f.acked = TRUE
    BY <1>2, Zenon DEF Frame
  <2> QED BY <2>1, Zenon DEF Frame
<1> QED BY <1>1, <1>2, Zenon

\* Recovery acknowledges every frame.
LEMMA AckedMore ==
    ASSUME NEW s \in Seq(Frame)
    PROVE  MoreAcked(s, Acked(s))
<1>1. /\ Len(s) \in Nat /\ DOMAIN s = 1 .. Len(s)
      /\ \A i \in 1 .. Len(s) : s[i] \in Frame
  BY SeqOf, Zenon
<1>2. Acked(s) = [i \in 1 .. Len(s) |-> [s[i] EXCEPT !.acked = TRUE]]
  BY <1>1, Zenon DEF Acked
<1>3. \A i \in 1 .. Len(s) : /\ Acked(s)[i] = [s[i] EXCEPT !.acked = TRUE]
                             /\ Acked(s)[i] \in Frame
  BY <1>1, <1>2, AckFrame, ZenonT(60)
<1>4. Acked(s) \in Seq(Frame) /\ Len(Acked(s)) = Len(s)
  BY <1>1, <1>2, <1>3, SMTT(30)
<1> QED BY <1>1, <1>3, <1>4, AckFrame, Zenon DEF MoreAcked

\* A synced append acknowledges the last frame.
LEMMA AckLastMore ==
    ASSUME NEW s \in Seq(Frame), s # <<>>
    PROVE  /\ MoreAcked(s, [s EXCEPT ![Len(s)].acked = TRUE])
           /\ \A i \in 1 .. Len(s) - 1 : [s EXCEPT ![Len(s)].acked = TRUE][i] = s[i]
<1> DEFINE n == Len(s)
           a == [s[n] EXCEPT !.acked = TRUE]
           t == [s EXCEPT ![n] = a]
<1>1. /\ n \in Nat /\ n # 0 /\ DOMAIN s = 1 .. n
      /\ \A i \in 1 .. n : s[i] \in Frame
  BY SeqOf, SMTT(30)
<1>2. [s EXCEPT ![Len(s)].acked = TRUE] = t
  BY Zenon
<1>3. n \in 1 .. n /\ s[n] \in Frame
  BY <1>1, SMTT(30)
<1>4. /\ a \in Frame /\ a.seq = s[n].seq /\ a.record = s[n].record
      /\ a.whole = s[n].whole /\ (s[n].acked => a = s[n])
  BY <1>3, AckFrame, Zenon
<1> HIDE DEF n, a
<1>5. t[n] = a /\ \A i \in 1 .. n - 1 : t[i] = s[i]
  BY <1>1, <1>3, SMTT(30)
<1>6. t \in Seq(Frame) /\ Len(t) = n
  BY <1>1, <1>4, SMTT(30) DEF n
<1> HIDE DEF t
<1>7. MoreAcked(s, t)
  <2>1. ASSUME NEW i \in 1 .. n
        PROVE  /\ t[i].seq = s[i].seq /\ t[i].record = s[i].record
               /\ t[i].whole = s[i].whole /\ (s[i].acked => t[i] = s[i])
    <3>1. CASE i = n
      BY <1>4, <1>5, <3>1, Zenon
    <3>2. CASE i # n
      <4>1. t[i] = s[i]
        BY <1>1, <1>5, <3>2, SMTT(30)
      <4> QED BY <4>1, Zenon
    <3> QED BY <3>1, <3>2, Zenon
  <2> QED BY <1>6, <2>1, Zenon DEF MoreAcked, n
<1> QED BY <1>2, <1>5, <1>7, Zenon DEF n

\* Acknowledging changes nothing that a scan or a replay sees.
LEMMA AckedSame ==
    ASSUME NEW s \in Seq(Frame), NEW t, MoreAcked(s, t)
    PROVE  /\ t \in Seq(Frame) /\ Len(t) = Len(s)
           /\ Replay(t) = Replay(s) /\ LeasesIn(t) = LeasesIn(s)
           /\ MaxLeaseEpoch(t) = MaxLeaseEpoch(s)
           /\ Legal(s) => Legal(t)
           /\ GoodUpTo(s, Len(s)) => GoodUpTo(t, Len(t))
           /\ Tidy(s) => Tidy(t)
<1>1. /\ t \in Seq(Frame) /\ Len(t) = Len(s) /\ Len(s) \in Nat
      /\ \A i \in 1 .. Len(s) : /\ t[i].record = s[i].record /\ t[i].seq = s[i].seq
                                /\ t[i].whole = s[i].whole
  BY SeqOf, Zenon DEF MoreAcked
<1>2. SameRecords(t, s, Len(t))
  BY <1>1, Zenon DEF SameRecords
<1>3. /\ Replay(t) = Replay(s) /\ LeasesIn(t) = LeasesIn(s)
      /\ MaxLeaseEpoch(t) = MaxLeaseEpoch(s)
  BY <1>1, <1>2, ReplaySame, EpochsSame, Zenon
<1>4. Legal(s) => Legal(t)
  BY <1>1, LegalSame, Zenon
<1>5. GoodUpTo(s, Len(s)) => GoodUpTo(t, Len(t))
  BY <1>1, Zenon DEF GoodUpTo
<1>6. Tidy(s) => Tidy(t)
  BY <1>1, Zenon DEF Tidy
<1> QED BY <1>1, <1>3, <1>4, <1>5, <1>6, ZenonT(60)

-----------------------------------------------------------------------------
\* What a scan makes of the logs that crashes alone leave.

\* A log whose frames are all good is tidy.
LEMMA GoodIsTidy ==
    ASSUME NEW s \in Seq(Frame), GoodUpTo(s, Len(s))
    PROVE  Tidy(s)
BY Zenon DEF GoodUpTo, Tidy

\* In a tidy log every whole frame is in the good prefix.
LEMMA GoodPrefixAll ==
    ASSUME NEW s \in Seq(Frame), Tidy(s), NEW i \in 1 .. Len(s), s[i].whole
    PROVE  i <= GoodPrefix(s)
<1> DEFINE g == GoodPrefix(s)
<1>1. /\ g \in 0 .. Len(s)
      /\ g < Len(s) => ~s[g + 1].whole \/ s[g + 1].seq # g + 1
  BY GoodPrefixIs, Zenon
<1>2. Len(s) \in Nat
  BY SeqOf, Zenon
<1> HIDE DEF g
<1>3. CASE g = Len(s)
  BY <1>2, <1>3, SMTT(30) DEF g
<1>4. CASE g < Len(s)
  <2>1. g + 1 \in 1 .. Len(s)
    BY <1>1, <1>2, <1>4, SMTT(30)
  <2>2. ~s[g + 1].whole /\ ~(g + 1 < Len(s))
    BY <1>1, <1>4, <2>1, Zenon DEF Tidy
  <2>3. i # g + 1
    BY <2>2, Zenon
  <2> QED BY <1>1, <1>2, <2>2, <2>3, SMTT(30) DEF g
<1> QED BY <1>1, <1>2, <1>3, <1>4, SMTT(30)

\* scan_and_recover accepts a tidy log.
LEMMA TidyScans ==
    ASSUME NEW s \in Seq(Frame), Tidy(s)
    PROVE  ~ScanFails(s)
<1> SUFFICES ASSUME ScanFails(s) PROVE FALSE
  BY Zenon
<1> DEFINE g == GoodPrefix(s)
<1>1. /\ g \in 0 .. Len(s)
      /\ g < Len(s) => ~s[g + 1].whole \/ s[g + 1].seq # g + 1
  BY GoodPrefixIs, Zenon
<1>2. Len(s) \in Nat
  BY SeqOf, Zenon
<1>3. g < Len(s) /\ (s[g + 1].whole \/ g + 1 < Len(s))
  BY Zenon DEF ScanFails
<1> HIDE DEF g
<1>4. g + 1 \in 1 .. Len(s)
  BY <1>1, <1>2, <1>3, SMTT(30)
<1> QED BY <1>1, <1>3, <1>4, Zenon DEF Tidy

-----------------------------------------------------------------------------
\* Each step keeps the invariant.

\* A process that ends leaves a log, and nothing else.
LEMMA ProcessEnds ==
    ASSUME RecoveryInv, phase' = "down", ForgetMemory,
           file' \in Seq(Frame), Legal(file'), synced' \in 0 .. Len(file'),
           header' \in {"none", "torn", "written", "synced"},
           header' # "synced" => file' = <<>>,
           crashes' \in 0 .. MaxCrashes, faults' \in 0 .. MaxFaults,
           faults' = 0 =>
              /\ Tidy(file')
              /\ \A i \in 1 .. Len(file') :
                    file'[i].acked => i <= synced' /\ file'[i].whole
    PROVE  RecoveryInv'
<1>1. /\ logged' = NoJobs /\ lastLease' = NoEpochs /\ nextLeaseEpoch' = 1
      /\ nextSeq' = 1 /\ writing' = None /\ lost' = {}
  BY Zenon DEF ForgetMemory
<1>2. NoJobs \in [Jobs -> JobRecord] /\ NoEpochs \in [Jobs -> Nat]
  BY Zenon DEF NoJobs, NoEpochs, Absent, JobRecord
<1>3. TypeOK'
  BY <1>1, <1>2, SMTT(30) DEF TypeOK
<1>4. HeaderInv' /\ Forgotten' /\ Legal(file)' /\ Reconciling' /\ Appending'
  BY <1>1, Zenon DEF HeaderInv, Forgotten, Reconciling, Appending
<1>5. FaultFree'
  BY Zenon DEF FaultFree
<1> QED BY <1>3, <1>4, <1>5, Zenon DEF RecoveryInv

\* The header of a new log is written.
LEMMA CreateHeaderKeeps ==
    ASSUME RecoveryInv, CreateHeader
    PROVE  RecoveryInv'
<1>1. /\ phase = "down" /\ phase' = "header" /\ header = "none" /\ header' = "written"
      /\ UNCHANGED <<file, synced, nextSeq, logged, lastLease, nextLeaseEpoch, writing,
                     lost, crashes, faults>>
  BY Zenon DEF CreateHeader, memoryVars, boundVars
<1>2. TypeOK' /\ HeaderInv' /\ Forgotten' /\ Legal(file)' /\ FaultFree'
  BY <1>1, Zenon DEF RecoveryInv, TypeOK, HeaderInv, Forgotten, FaultFree
<1>3. Reconciling' /\ Appending'
  BY <1>1, Zenon DEF Reconciling, Appending
<1> QED BY <1>2, <1>3, Zenon DEF RecoveryInv

\* A new log is ready.
LEMMA NewLogKeeps ==
    ASSUME RecoveryInv, NewLog
    PROVE  RecoveryInv'
<1>1. /\ phase = "header" /\ phase' = "open" /\ nextSeq' = 1 /\ nextLeaseEpoch' = 1
      /\ file' = file /\ synced' = Len(file) /\ header' = "synced"
      /\ UNCHANGED <<logged, lastLease, writing, lost, crashes, faults>>
  BY Zenon DEF NewLog, Sync, boundVars
<1>2. TypeOK /\ file = <<>> /\ logged = NoJobs /\ lastLease = NoEpochs /\ writing = None
  BY <1>1, Zenon DEF RecoveryInv, HeaderInv, Forgotten, TypeOK
<1>3. TypeOK'
  BY <1>1, <1>2, SMTT(30) DEF TypeOK
<1>4. HeaderInv' /\ Forgotten' /\ Legal(file)' /\ Reconciling'
  BY <1>1, Zenon DEF RecoveryInv, HeaderInv, Forgotten, Reconciling
<1>5. Pending' = 0 /\ Len(file') = 0 /\ Clean'
  BY <1>1, <1>2, SMTT(30) DEF Pending, Clean
<1>6. Appending'
  <2>1. SubSeq(file', 1, Len(file') - Pending') = <<>>
    BY <1>1, <1>2, <1>5, SMTT(30)
  <2>2. GoodUpTo(file', Len(file'))
    BY <1>5, SMTT(30) DEF GoodUpTo
  <2>3. nextSeq' + Pending' <= Len(file') + 1
    BY <1>1, <1>5, SMTT(30)
  <2>4. /\ logged' = Replay(<<>>) /\ lastLease' = LeasesIn(<<>>)
        /\ nextLeaseEpoch' = MaxLeaseEpoch(<<>>) + 1 /\ writing' = None
    BY <1>1, <1>2, ReplayEmpty, EpochsEmpty, SMTT(30)
  <2> QED BY <2>1, <2>2, <2>3, <2>4, ZenonT(60) DEF Appending
<1>7. FaultFree'
  BY <1>1, <1>5, SMTT(30) DEF FaultFree, Tidy
<1> QED BY <1>3, <1>4, <1>6, <1>7, ZenonT(60) DEF RecoveryInv

\* Creating the log fails.
LEMMA CreateFailsKeeps ==
    ASSUME RecoveryInv, CreateFails
    PROVE  RecoveryInv'
<1>1. /\ faults < MaxFaults /\ faults' = faults + 1 /\ phase' = "down"
      /\ UNCHANGED <<file, synced, nextSeq, logged, lastLease, nextLeaseEpoch, writing,
                     lost, crashes>>
      /\ \/ phase = "down" /\ header = "none" /\ header' \in {"none", "torn"}
         \/ phase = "header" /\ header' = header
  BY Zenon DEF CreateFails, IOError, memoryVars
<1>2. faults \in Nat /\ MaxFaults \in Nat /\ faults' # 0 /\ faults' \in 0 .. MaxFaults
  BY <1>1, RecoveryAssumption, SMTT(30) DEF RecoveryInv, TypeOK
<1>3. writing = None
  BY <1>1, Zenon DEF RecoveryInv, TypeOK
<1>4. TypeOK'
  BY <1>1, <1>2, <1>3, Zenon DEF RecoveryInv, TypeOK
<1>5. HeaderInv' /\ Forgotten' /\ Legal(file)' /\ Reconciling' /\ Appending'
  BY <1>1, Zenon DEF RecoveryInv, HeaderInv, Forgotten, Reconciling, Appending
<1>6. FaultFree'
  BY <1>2, ZenonT(60) DEF FaultFree
<1> QED BY <1>4, <1>5, <1>6, Zenon DEF RecoveryInv

\* A log that cannot be read is refused.
LEMMA RefuseLogKeeps ==
    ASSUME RecoveryInv, RefuseLog
    PROVE  RecoveryInv'
<1>1. /\ phase \in {"down", "refused"} /\ phase' = "refused"
      /\ header = "torn" \/ ScanFails(file)
      /\ UNCHANGED <<header, file, synced, nextSeq, logged, lastLease, nextLeaseEpoch,
                     writing, lost, crashes, faults>>
  BY Zenon DEF RefuseLog, fileVars, memoryVars, boundVars
<1>2. writing = None
  BY <1>1, Zenon DEF RecoveryInv, TypeOK
<1>3. TypeOK'
  BY <1>1, <1>2, Zenon DEF RecoveryInv, TypeOK
<1>4. HeaderInv' /\ Forgotten' /\ Legal(file)' /\ Reconciling' /\ Appending'
  BY <1>1, Zenon DEF RecoveryInv, HeaderInv, Forgotten, Reconciling, Appending
<1>5. FaultFree'
  <2>1. faults = 0 => ~ScanFails(file)
    BY TidyScans, FileIs, Zenon DEF RecoveryInv, FaultFree
  <2>2. faults = 0 => header = "torn"
    BY <1>1, <2>1, Zenon
  <2> QED BY <1>1, <2>2, Zenon DEF RecoveryInv, FaultFree
<1> QED BY <1>3, <1>4, <1>5, Zenon DEF RecoveryInv

\* The scan cuts the torn tail and replays the rest.
LEMMA ScanAndReplayKeeps ==
    ASSUME RecoveryInv, ScanAndReplay
    PROVE  RecoveryInv'
<1> DEFINE s == SubSeq(file, 1, GoodPrefix(file))
<1>1. /\ phase = "down" /\ phase' = "reconcile" /\ header \in {"written", "synced"}
      /\ Repaired(s) /\ logged' = Replay(s) /\ lastLease' = LeasesIn(s)
      /\ nextLeaseEpoch' = MaxLeaseEpoch(s) + 1 /\ nextSeq' = NextSequence(s)
      /\ lost' = Lost(Replay(s))
      /\ UNCHANGED <<writing, crashes, faults>>
  BY Zenon DEF ScanAndReplay, boundVars
<1>2. TypeOK /\ Legal(file) /\ file \in Seq(Frame) /\ Len(file) \in Nat /\ writing = None
  BY <1>1, FileIs, Zenon DEF RecoveryInv, TypeOK
<1>3. GoodPrefix(file) \in 0 .. Len(file) /\ GoodUpTo(file, GoodPrefix(file))
  BY <1>2, GoodPrefixIs, Zenon
<1>4. /\ s \in Seq(Frame) /\ Len(s) = GoodPrefix(file) /\ Len(s) \in Nat
      /\ \A i \in 1 .. Len(s) : s[i] = file[i]
  BY <1>2, <1>3, PrefixOf, SeqOf, ZenonT(60)
<1>5. Legal(s)
  BY <1>2, <1>3, LegalPrefix, Zenon
<1>6. GoodUpTo(s, Len(s))
  BY <1>3, <1>4, Zenon DEF GoodUpTo
<1>7. /\ file' = s /\ synced' \in 0 .. Len(s) /\ header' \in {"written", "synced"}
      /\ header' # "synced" => file' = <<>>
      /\ (file' = file /\ synced' = synced) \/ synced' = Len(s)
  <2> HIDE DEF s
  <2>1. CASE s = file
    BY <1>1, <1>2, <2>1, ZenonT(60) DEF Repaired, fileVars, RecoveryInv, HeaderInv, TypeOK
  <2>2. CASE s # file
    BY <1>1, <1>4, <2>2, SMTT(30) DEF Repaired, Sync
  <2> QED BY <2>1, <2>2, Zenon
<1>8. /\ Replay(s) \in [Jobs -> JobRecord] /\ LeasesIn(s) \in [Jobs -> Nat]
      /\ MaxLeaseEpoch(s) \in Nat
  BY <1>4, ReplayType, LeasesType, MaxEpochType, ZenonT(60)
<1>9. Tidy(s)
  BY <1>4, <1>6, GoodIsTidy, ZenonT(60)
<1> HIDE DEF s
<1>10. nextSeq' = Len(file') + 1 /\ lost' \subseteq Jobs
  BY <1>1, <1>7, ZenonT(60) DEF NextSequence, Lost
<1>11. TypeOK'
  BY <1>1, <1>2, <1>4, <1>7, <1>8, <1>10, SMTT(30) DEF TypeOK
<1>12. HeaderInv' /\ Forgotten' /\ Legal(file)' /\ Appending'
  BY <1>1, <1>5, <1>7, Zenon DEF HeaderInv, Forgotten, Appending
<1>13. Reconciling'
  BY <1>1, <1>6, <1>7, <1>10, ZenonT(60) DEF Reconciling
<1>14. FaultFree'
  <2> SUFFICES ASSUME faults' = 0
               PROVE  \A i \in 1 .. Len(s) : s[i].acked => i <= synced' /\ s[i].whole
    BY <1>1, <1>7, <1>9, ZenonT(60) DEF FaultFree
  <2>1. ASSUME NEW i \in 1 .. Len(s), s[i].acked
        PROVE  i <= synced' /\ s[i].whole
    <3>1. s[i].whole
      BY <1>6, Zenon DEF GoodUpTo
    <3>2. CASE file' = file /\ synced' = synced
      BY <1>1, <1>7, <2>1, <3>1, <3>2, ZenonT(60) DEF RecoveryInv, FaultFree
    <3>3. CASE synced' = Len(s)
      BY <1>4, <3>1, <3>3, SMTT(30)
    <3> QED BY <1>7, <3>2, <3>3, ZenonT(60)
  <2> QED BY <2>1, Zenon
<1> QED BY <1>11, <1>12, <1>13, <1>14, ZenonT(60) DEF RecoveryInv

\* The repair fails: the torn tail is still there, or is cut off and not synced.
LEMMA RepairFailsKeeps ==
    ASSUME RecoveryInv, RepairFails
    PROVE  RecoveryInv'
<1> DEFINE g == GoodPrefix(file)
           s == SubSeq(file, 1, g)
<1>1. /\ phase = "down" /\ faults < MaxFaults /\ faults' = faults + 1 /\ TruncatedTail(file)
      /\ \/ file' = file /\ synced' = synced
         \/ file' = s /\ synced' = IF synced < g THEN synced ELSE g
      /\ UNCHANGED <<header, nextSeq, logged, lastLease, nextLeaseEpoch, phase, writing,
                     lost, crashes>>
  BY Zenon DEF RepairFails, IOError, memoryVars
<1>2. /\ TypeOK /\ Legal(file) /\ file \in Seq(Frame) /\ Len(file) \in Nat /\ writing = None
      /\ synced \in Nat /\ synced <= Len(file)
  BY <1>1, FileIs, Zenon DEF RecoveryInv, TypeOK
<1>3. faults' # 0 /\ faults' \in 0 .. MaxFaults
  BY <1>1, <1>2, RecoveryAssumption, SMTT(30) DEF TypeOK
<1>4. g \in 0 .. Len(file) /\ g < Len(file)
  BY <1>1, <1>2, GoodPrefixIs, Zenon DEF TruncatedTail
<1>5. s \in Seq(Frame) /\ Len(s) = g /\ Legal(s)
  BY <1>2, <1>4, PrefixOf, LegalPrefix, ZenonT(60)
<1> HIDE DEF g, s
<1>6. file' \in Seq(Frame) /\ Legal(file') /\ synced' \in 0 .. Len(file')
  <2>1. CASE file' = file /\ synced' = synced
    BY <1>2, <2>1, SMTT(30)
  <2>2. CASE file' = s /\ synced' = IF synced < g THEN synced ELSE g
    <3>1. synced' \in 0 .. g
      BY <1>2, <1>4, <2>2, SMTT(30)
    <3> QED BY <1>5, <2>2, <3>1, ZenonT(60)
  <2> QED BY <1>1, <2>1, <2>2, Zenon
<1>7. header = "synced"
  <2>1. file # <<>>
    BY <1>2, <1>4, SMTT(30)
  <2> QED BY <2>1, Zenon DEF RecoveryInv, HeaderInv
<1>8. TypeOK'
  BY <1>1, <1>2, <1>3, <1>6, ZenonT(60) DEF TypeOK
<1>9. HeaderInv' /\ Forgotten' /\ Reconciling' /\ Appending'
  BY <1>1, <1>7, Zenon DEF RecoveryInv, HeaderInv, Forgotten, Reconciling, Appending
<1>10. FaultFree'
  BY <1>3, ZenonT(60) DEF FaultFree
<1> QED BY <1>6, <1>8, <1>9, <1>10, ZenonT(60) DEF RecoveryInv

\* A reconciliation record ends the execution of its job and counts none.
LEMMA ReconciliationIs ==
    ASSUME RecoveryInv, phase = "reconcile", NEW j \in lost
    PROVE  LET r == ReconciliationRecord(j)
               table == ApplyRecordForRecovery(Replay(file), r)
           IN /\ j \in Jobs /\ r \in WalRecord /\ r.type # "JobLeased"
              /\ r \in AllowedAfter(file)
              /\ Lost(table) = lost \ {j}
              /\ \A k \in Jobs : table[k].attempts = Replay(file)[k].attempts
              /\ \A k \in Jobs \ {j} : table[k] = Replay(file)[k]
<1> DEFINE r == ReconciliationRecord(j)
           old == Replay(file)
           table == ApplyRecordForRecovery(old, r)
<1>1. /\ lost = Lost(old) /\ logged[j] = old[j] /\ lastLease = LeasesIn(file)
      /\ file \in Seq(Frame)
  BY FileIs, Zenon DEF RecoveryInv, Reconciling
<1>2. /\ old \in [Jobs -> JobRecord] /\ lastLease \in [Jobs -> Nat]
  BY <1>1, ReplayType, LeasesType, Zenon
<1>3. j \in Jobs /\ old[j].state = "Running" /\ old[j].attempts \in Nat
  BY <1>1, <1>2, Zenon DEF Lost, JobRecord
<1> HIDE DEF old
<1>4. /\ r = Record(r.type, j, lastLease[j], old[j].attempts)
      /\ r.type = IF old[j].attempts < MaxAttempts[j] THEN "JobRetryScheduled" ELSE "JobDead"
      /\ r.id = j
  BY <1>1, Zenon DEF ReconciliationRecord, Record
<1> HIDE DEF r
<1>5. r.type \in {"JobRetryScheduled", "JobDead"}
  BY <1>4, ZenonT(60)
<1>6. r \in WalRecord
  BY <1>2, <1>3, <1>4, <1>5, SMTT(30) DEF Record, WalRecord, RecordType
<1>7. r \in AllowedAfter(file)
  BY <1>1, <1>3, <1>4, <1>5, AllowedIs, ZenonT(60) DEF AllowedAfter, old
<1>8. table = [old EXCEPT ![j] = [state |-> TargetState[r.type], attempts |-> old[j].attempts]]
  BY <1>2, <1>3, <1>4, <1>5, Zenon DEF ApplyRecordForRecovery, ApplyRecord, Entry
<1>9. TargetState[r.type] # "Running"
  BY <1>5, SMTT(30) DEF TargetState
<1> HIDE DEF table
<1>10. /\ \A k \in Jobs \ {j} : table[k] = old[k]
       /\ table[j].state # "Running" /\ table[j].attempts = old[j].attempts
  BY <1>2, <1>3, <1>8, <1>9, ZenonT(60)
<1>11. Lost(table) = lost \ {j}
  BY <1>1, <1>10, Zenon DEF Lost
<1>12. \A k \in Jobs : table[k].attempts = old[k].attempts
  BY <1>10, Zenon
<1> QED BY <1>3, <1>5, <1>6, <1>7, <1>10, <1>11, <1>12, ZenonT(60) DEF r, old, table

\* A Running job is reconciled: its record is appended.
LEMMA ReconcileKeeps ==
    ASSUME RecoveryInv, NEW j \in Jobs, Reconcile(j)
    PROVE  RecoveryInv'
<1> DEFINE r == ReconciliationRecord(j)
           f == WalFrame(nextSeq, r)
           table == ApplyRecordForRecovery(Replay(file), r)
<1>1. /\ phase = "reconcile" /\ phase' = phase /\ j \in lost
      /\ file' = Append(file, f) /\ nextSeq' = nextSeq + 1 /\ lost' = lost \ {j}
      /\ UNCHANGED <<header, synced, logged, lastLease, nextLeaseEpoch, writing, crashes,
                     faults>>
  BY Zenon DEF Reconcile, WriteFrame, memoryVars, boundVars
<1>2. /\ r \in WalRecord /\ r.type # "JobLeased" /\ r \in AllowedAfter(file)
      /\ Lost(table) = lost \ {j}
      /\ \A k \in Jobs : table[k].attempts = Replay(file)[k].attempts
      /\ \A k \in Jobs \ {j} : table[k] = Replay(file)[k]
  BY <1>1, ReconciliationIs, Zenon
<1>3. TypeOK /\ file \in Seq(Frame) /\ Len(file) \in Nat /\ nextSeq \in Nat
      /\ writing = None /\ Legal(file)
  BY <1>1, FileIs, Zenon DEF RecoveryInv, TypeOK
<1>4. /\ GoodUpTo(file, Len(file)) /\ nextSeq = Len(file) + 1
      /\ \A k \in Jobs : logged[k].attempts = Replay(file)[k].attempts
      /\ \A k \in lost : logged[k] = Replay(file)[k]
      /\ lastLease = LeasesIn(file) /\ nextLeaseEpoch = MaxLeaseEpoch(file) + 1
  BY <1>1, ZenonT(60) DEF RecoveryInv, Reconciling
<1>5. /\ f \in Frame /\ f.seq = nextSeq /\ f.record = r /\ f.whole /\ ~f.acked
  BY <1>2, <1>3, NewFrame, SMTT(30)
<1> HIDE DEF f, r
<1>6. /\ file' \in Seq(Frame) /\ Len(file') = Len(file) + 1 /\ file'[Len(file) + 1] = f
      /\ \A i \in 1 .. Len(file) : file'[i] = file[i]
  <2>1. file' = Append(file, f) /\ file \in Seq(Frame) /\ f \in Frame
    BY <1>1, <1>3, <1>5, Zenon
  <2> QED BY <2>1, AppendOf, SMTT(30)
<1>7. Legal(file')
  BY <1>1, <1>2, <1>3, <1>5, LegalAppend, ZenonT(60)
<1>8. GoodUpTo(file', Len(file'))
  BY <1>3, <1>4, <1>5, <1>6, SMTT(30) DEF GoodUpTo
<1>9. /\ Replay(file') = table /\ LeasesIn(file') = LeasesIn(file)
      /\ MaxLeaseEpoch(file') = MaxLeaseEpoch(file)
  BY <1>1, <1>2, <1>3, <1>5, ReplayAppend, EpochsKept, ZenonT(60)
<1> HIDE DEF table
<1>10. TypeOK'
  <2>1. synced' \in 0 .. Len(file') /\ nextSeq' \in Nat \ {0} /\ lost' \subseteq Jobs
    BY <1>1, <1>3, <1>6, SMTT(30) DEF TypeOK
  <2> QED BY <1>1, <1>3, <1>6, <2>1, ZenonT(60) DEF TypeOK
<1>11. header = "synced"
  <2>1. ASSUME file = <<>> PROVE FALSE
    <3>1. Lost(Replay(file)) = {}
      BY <2>1, ReplayEmpty, SMTT(30) DEF Lost, NoJobs, Absent
    <3> QED BY <1>1, <3>1, Zenon DEF RecoveryInv, Reconciling
  <2> QED BY <2>1, Zenon DEF RecoveryInv, HeaderInv
<1>12. HeaderInv' /\ Forgotten' /\ Appending'
  BY <1>1, <1>11, Zenon DEF HeaderInv, Forgotten, Appending
<1>13. Reconciling'
  <2>1. \A k \in Jobs : logged'[k].attempts = Replay(file')[k].attempts
    BY <1>1, <1>2, <1>4, <1>9, ZenonT(60)
  <2>2. \A k \in lost' : logged'[k] = Replay(file')[k]
    <3>1. lost \subseteq Jobs
      BY <1>3, Zenon DEF TypeOK
    <3> QED BY <1>1, <1>2, <1>4, <1>9, <3>1, ZenonT(60)
  <2>3. nextSeq' = Len(file') + 1 /\ lost' = Lost(Replay(file'))
    BY <1>1, <1>2, <1>3, <1>4, <1>6, <1>9, ZenonT(60)
  <2>4. lastLease' = LeasesIn(file') /\ nextLeaseEpoch' = MaxLeaseEpoch(file') + 1
    BY <1>1, <1>4, <1>9, Zenon
  <2> QED BY <1>8, <2>1, <2>2, <2>3, <2>4, ZenonT(60) DEF Reconciling
<1>14. FaultFree'
  <2>1. Tidy(file')
    BY <1>6, <1>8, GoodIsTidy, ZenonT(60)
  <2>2. faults' = 0 => \A i \in 1 .. Len(file') :
                          file'[i].acked => i <= synced' /\ file'[i].whole
    BY <1>1, <1>3, <1>5, <1>6, SMTT(30) DEF RecoveryInv, FaultFree
  <2> QED BY <1>1, <2>1, <2>2, ZenonT(60) DEF FaultFree
<1> QED BY <1>7, <1>10, <1>12, <1>13, <1>14, ZenonT(60) DEF RecoveryInv

\* Recovery syncs the file and opens the log.
LEMMA FinishRecoveryKeeps ==
    ASSUME RecoveryInv, FinishRecovery
    PROVE  RecoveryInv'
<1>1. /\ phase = "reconcile" /\ phase' = "open" /\ lost = {}
      /\ file' = Acked(file) /\ synced' = Len(Acked(file)) /\ header' = "synced"
      /\ logged' = Replay(file)
      /\ UNCHANGED <<nextSeq, lastLease, nextLeaseEpoch, writing, lost, crashes, faults>>
  BY Zenon DEF FinishRecovery, Sync, boundVars
<1>2. TypeOK /\ file \in Seq(Frame) /\ Len(file) \in Nat /\ writing = None /\ Legal(file)
  BY <1>1, FileIs, Zenon DEF RecoveryInv, TypeOK
<1>3. /\ GoodUpTo(file, Len(file)) /\ nextSeq = Len(file) + 1
      /\ lastLease = LeasesIn(file) /\ nextLeaseEpoch = MaxLeaseEpoch(file) + 1
  BY <1>1, Zenon DEF RecoveryInv, Reconciling
<1>4. MoreAcked(file, file')
  BY <1>1, <1>2, AckedMore, Zenon
<1>5. /\ file' \in Seq(Frame) /\ Len(file') = Len(file)
      /\ Replay(file') = Replay(file) /\ LeasesIn(file') = LeasesIn(file)
      /\ MaxLeaseEpoch(file') = MaxLeaseEpoch(file)
      /\ Legal(file') /\ GoodUpTo(file', Len(file'))
  BY <1>2, <1>3, <1>4, AckedSame, ZenonT(60)
<1>6. synced' = Len(file')
  BY <1>1, Zenon
<1>7. Replay(file) \in [Jobs -> JobRecord]
  BY <1>2, ReplayType, ZenonT(60)
<1>8. TypeOK'
  BY <1>1, <1>2, <1>5, <1>6, <1>7, SMTT(30) DEF TypeOK
<1>9. HeaderInv' /\ Forgotten' /\ Reconciling'
  BY <1>1, Zenon DEF HeaderInv, Forgotten, Reconciling
<1>10. Pending' = 0 /\ Clean' /\ nextSeq' + Pending' <= Len(file') + 1
  BY <1>1, <1>2, <1>3, <1>5, SMTT(30) DEF Pending, Clean
<1>11. SubSeq(file', 1, Len(file') - Pending') = file'
  BY <1>2, <1>5, <1>10, WholePrefix, SMTT(30)
<1>12. Appending'
  BY <1>1, <1>2, <1>3, <1>5, <1>10, <1>11, ZenonT(60) DEF Appending
<1>13. FaultFree'
  <2>1. Tidy(file')
    BY <1>5, GoodIsTidy, ZenonT(60)
  <2>2. \A i \in 1 .. Len(file') : i <= synced' /\ file'[i].whole
    BY <1>2, <1>5, <1>6, SMTT(30) DEF GoodUpTo
  <2> QED BY <1>1, <1>10, <2>1, <2>2, ZenonT(60) DEF FaultFree
<1> QED BY <1>5, <1>8, <1>9, <1>12, <1>13, ZenonT(60) DEF RecoveryInv

\* JobLog's copy of the recovery table is JobStore's.
LEMMA SameApply ==
    \A st, r : Contract!ApplyRecordForRecovery(st, r) = ApplyRecordForRecovery(st, r)
<1>1. ASSUME NEW st, NEW r
      PROVE  Contract!ApplyRecordForRecovery(st, r) = ApplyRecordForRecovery(st, r)
  BY Zenon DEF Contract!ApplyRecordForRecovery, Contract!ApplyRecord, Contract!Entry,
         Contract!TargetState, ApplyRecordForRecovery, ApplyRecord, Entry, TargetState
<1> QED BY <1>1, Zenon

\* A record is written.
LEMMA AppendWriteKeeps ==
    ASSUME RecoveryInv, NEW r, AppendWrite(r)
    PROVE  RecoveryInv'
<1> DEFINE f == WalFrame(nextSeq, r)
<1>1. /\ phase = "open" /\ phase' = phase /\ writing = None /\ writing' = r
      /\ r \in Contract!Persistable /\ file' = Append(file, f)
      /\ UNCHANGED <<header, synced, nextSeq, logged, lastLease, nextLeaseEpoch, lost,
                     crashes, faults>>
  BY Zenon DEF AppendWrite, Requested, WriteFrame, memoryVars, boundVars
<1>2. TypeOK /\ file \in Seq(Frame) /\ Len(file) \in Nat /\ nextSeq \in Nat /\ Legal(file)
  BY FileIs, Zenon DEF RecoveryInv
<1>3. r \in Contract!Allowed(logged, lastLease, nextLeaseEpoch) /\ r \in WalRecord
  <2>1. r \in Contract!Allowed(logged, lastLease, nextLeaseEpoch)
    BY <1>1, Zenon DEF Contract!Persistable
  <2> QED BY <1>2, <2>1, AllowedType, ZenonT(60) DEF TypeOK
<1>4. /\ f \in Frame /\ f.seq = nextSeq /\ f.record = r /\ f.whole /\ ~f.acked
  BY <1>2, <1>3, NewFrame, SMTT(30)
<1> HIDE DEF f
<1>5. /\ file' \in Seq(Frame) /\ Len(file') = Len(file) + 1 /\ file'[Len(file) + 1] = f
      /\ \A i \in 1 .. Len(file) : file'[i] = file[i]
  BY <1>1, <1>2, <1>4, AppendOf, SMTT(30)
<1>6. r # None
  BY <1>3, RecoveryAssumption, Zenon
<1>7. Pending = 0 /\ Pending' = 1
  BY <1>1, <1>6, ZenonT(60) DEF Pending
<1>8. Clean' <=> Clean
  BY <1>1, <1>2, <1>5, <1>7, SMTT(30) DEF Clean
<1>9. SubSeq(file, 1, Len(file) - Pending) = file
  BY <1>2, <1>7, WholePrefix, SMTT(30)
<1>10. /\ nextSeq <= Len(file) + 1
       /\ Clean => /\ GoodUpTo(file, Len(file)) /\ logged = Replay(file)
                   /\ lastLease = LeasesIn(file)
                   /\ nextLeaseEpoch = MaxLeaseEpoch(file) + 1
  <2>1. /\ nextSeq + Pending <= Len(file) + 1
        /\ Clean => /\ GoodUpTo(file, Len(file)) /\ logged = Replay(file)
                    /\ lastLease = LeasesIn(file)
                    /\ nextLeaseEpoch = MaxLeaseEpoch(file) + 1
    BY <1>1, <1>9, ZenonT(60) DEF RecoveryInv, Appending
  <2>2. nextSeq <= Len(file) + 1
    BY <1>2, <1>7, <2>1, SMTT(30)
  <2> QED BY <2>1, <2>2, Zenon
<1>11. Clean => f.record \in AllowedAfter(file)
  BY <1>3, <1>4, <1>10, ZenonT(60) DEF AllowedAfter
<1>12. f.seq = Len(file) + 1 => Clean
  BY <1>2, <1>4, <1>7, SMTT(30) DEF Clean
<1>13. Legal(file')
  BY <1>1, <1>2, <1>4, <1>11, <1>12, LegalAppend, ZenonT(60)
<1>14. TypeOK'
  <2>1. synced' \in 0 .. Len(file') /\ file' # <<>>
    BY <1>1, <1>2, <1>5, SeqOf, SMTT(30) DEF TypeOK
  <2> QED BY <1>1, <1>2, <1>3, <1>5, <2>1, ZenonT(60) DEF TypeOK
<1>15. HeaderInv' /\ Forgotten' /\ Reconciling'
  BY <1>1, Zenon DEF RecoveryInv, HeaderInv, Forgotten, Reconciling
<1>16. Appending'
  <2>1. nextSeq' + Pending' <= Len(file') + 1
    <3>1. nextSeq' = nextSeq /\ Pending' = 1 /\ Len(file') = Len(file) + 1
      BY <1>1, <1>5, <1>7, Zenon
    <3>2. nextSeq <= Len(file) + 1
      BY <1>10, Zenon
    <3> QED BY <1>2, <3>1, <3>2, SMTT(30)
  <2>2. SubSeq(file', 1, Len(file') - Pending') = file
    <3>1. SubSeq(file', 1, Len(file)) = SubSeq(file, 1, Len(file))
      BY <1>2, <1>5, SamePrefix, SMTT(30)
    <3>2. Len(file') - Pending' = Len(file)
      BY <1>2, <1>5, <1>7, SMTT(30)
    <3> QED BY <1>2, <3>1, <3>2, WholePrefix, ZenonT(60)
  <2>3. ASSUME Clean
        PROVE  GoodUpTo(file', Len(file'))
    <3>1. nextSeq = Len(file) + 1
      BY <1>2, <1>7, <2>3, SMTT(30) DEF Clean
    <3> QED BY <1>2, <1>4, <1>5, <1>10, <2>3, <3>1, SMTT(30) DEF GoodUpTo
  <2>4. file'[Len(file')].record = writing'
    BY <1>1, <1>4, <1>5, ZenonT(60)
  <2> QED BY <1>1, <1>8, <1>10, <2>1, <2>2, <2>3, <2>4, ZenonT(60) DEF Appending
<1>17. FaultFree'
  <2> SUFFICES ASSUME faults' = 0 PROVE FaultFree'
    BY Zenon DEF FaultFree
  <2>1. Clean /\ Clean'
    BY <1>1, <1>8, Zenon DEF RecoveryInv, FaultFree
  <2>2. Tidy(file')
    BY <1>1, <1>5, <1>16, <2>1, GoodIsTidy, ZenonT(60) DEF Appending
  <2>3. \A i \in 1 .. Len(file') : file'[i].acked => i <= synced' /\ file'[i].whole
    BY <1>1, <1>2, <1>4, <1>5, SMTT(30) DEF RecoveryInv, FaultFree
  <2> QED BY <1>1, <2>1, <2>2, <2>3, ZenonT(60) DEF FaultFree
<1> QED BY <1>13, <1>14, <1>15, <1>16, <1>17, ZenonT(60) DEF RecoveryInv

\* Writing fails, after some of the bytes or none.
LEMMA AppendFailsKeeps ==
    ASSUME RecoveryInv, NEW r, AppendFails(r)
    PROVE  RecoveryInv'
<1> DEFINE f == Torn(WalFrame(nextSeq, r))
<1>1. /\ phase = "open" /\ writing = None /\ r \in Contract!Persistable
      /\ faults < MaxFaults /\ faults' = faults + 1
      /\ file' = file \/ file' = Append(file, f)
      /\ UNCHANGED <<header, synced, nextSeq, logged, lastLease, nextLeaseEpoch, phase,
                     writing, lost, crashes>>
  BY Zenon DEF AppendFails, Requested, WriteFails, IOError, memoryVars
<1>2. TypeOK /\ file \in Seq(Frame) /\ Len(file) \in Nat /\ nextSeq \in Nat /\ Legal(file)
  BY FileIs, Zenon DEF RecoveryInv
<1>3. r \in WalRecord
  <2>1. r \in Contract!Allowed(logged, lastLease, nextLeaseEpoch)
    BY <1>1, Zenon DEF Contract!Persistable
  <2> QED BY <1>2, <2>1, AllowedType, Zenon DEF TypeOK
<1>4. f \in Frame /\ ~f.whole
  BY <1>2, <1>3, NewFrame, ZenonT(60)
<1> HIDE DEF f
<1>5. faults' # 0 /\ faults' \in 0 .. MaxFaults
  BY <1>1, <1>2, RecoveryAssumption, SMTT(30) DEF TypeOK
<1>6. Pending = 0 /\ Pending' = 0 /\ nextSeq + Pending <= Len(file) + 1
  BY <1>1, Zenon DEF Pending, RecoveryInv, Appending
<1>7. FaultFree'
  BY <1>5, Zenon DEF FaultFree
<1>8. HeaderInv' /\ Forgotten' /\ Reconciling'
  BY <1>1, Zenon DEF RecoveryInv, HeaderInv, Forgotten, Reconciling
<1>9. CASE file' = file
  <2>1. TypeOK'
    BY <1>1, <1>2, <1>5, <1>9, ZenonT(60) DEF TypeOK
  <2>2. Appending'
    BY <1>1, <1>6, <1>9, ZenonT(60) DEF RecoveryInv, Appending, Clean
  <2> QED BY <1>2, <1>7, <1>8, <1>9, <2>1, <2>2, ZenonT(60) DEF RecoveryInv
<1>10. CASE file' = Append(file, f)
  <2>1. file' \in Seq(Frame) /\ Len(file') = Len(file) + 1
    BY <1>2, <1>4, <1>10, AppendOf, ZenonT(60)
  <2>2. Legal(file')
    BY <1>2, <1>4, <1>10, LegalAppend, Zenon
  <2>3. TypeOK'
    <3>1. synced' \in 0 .. Len(file')
      BY <1>1, <1>2, <2>1, SMTT(30) DEF TypeOK
    <3> QED BY <1>1, <1>2, <1>5, <2>1, <3>1, Zenon DEF TypeOK
  <2>4. ~Clean' /\ nextSeq' + Pending' <= Len(file') + 1
    BY <1>1, <1>2, <1>6, <2>1, SMTT(30) DEF Clean
  <2>5. Appending'
    BY <2>4, Zenon DEF Appending
  <2> QED BY <1>7, <1>8, <2>2, <2>3, <2>5, ZenonT(60) DEF RecoveryInv
<1> QED BY <1>1, <1>9, <1>10, Zenon

\* The record is synced and acknowledged.
LEMMA AppendSyncKeeps ==
    ASSUME RecoveryInv, AppendSync
    PROVE  RecoveryInv'
<1> DEFINE t == [file EXCEPT ![Len(file)].acked = TRUE]
<1>1. /\ writing # None /\ writing' = None /\ nextSeq' = nextSeq + 1
      /\ file' = t /\ synced' = Len(t) /\ header' = "synced"
      /\ Contract!Log(writing)
      /\ UNCHANGED <<phase, lost, crashes, faults>>
  BY Zenon DEF AppendSync, AckLast, Sync, boundVars
<1>2. /\ TypeOK /\ file \in Seq(Frame) /\ Len(file) \in Nat /\ nextSeq \in Nat /\ Legal(file)
      /\ file # <<>> /\ phase = "open" /\ writing \in WalRecord
  BY <1>1, FileIs, Zenon DEF RecoveryInv, TypeOK
<1>3. MoreAcked(file, file') /\ \A i \in 1 .. Len(file) - 1 : file'[i] = file[i]
  BY <1>1, <1>2, AckLastMore, Zenon
<1> HIDE DEF t
<1>4. /\ file' \in Seq(Frame) /\ Len(file') = Len(file)
      /\ Replay(file') = Replay(file) /\ LeasesIn(file') = LeasesIn(file)
      /\ MaxLeaseEpoch(file') = MaxLeaseEpoch(file)
      /\ Legal(file')
      /\ GoodUpTo(file, Len(file)) => GoodUpTo(file', Len(file'))
      /\ Tidy(file) => Tidy(file')
  BY <1>2, <1>3, AckedSame, ZenonT(60)
<1>5. /\ logged' = ApplyRecordForRecovery(logged, writing)
      /\ writing.type = "JobLeased" =>
            /\ lastLease' = [lastLease EXCEPT ![writing.id] = writing.lease]
            /\ nextLeaseEpoch' = nextLeaseEpoch + 1
      /\ writing.type # "JobLeased" =>
            lastLease' = lastLease /\ nextLeaseEpoch' = nextLeaseEpoch
  BY <1>1, SameApply, ZenonT(60) DEF Contract!Log
<1>6. /\ logged' \in [Jobs -> JobRecord] /\ lastLease' \in [Jobs -> Nat]
      /\ nextLeaseEpoch' \in Nat \ {0}
  <2>1. logged' \in [Jobs -> JobRecord]
    BY <1>2, <1>5, ApplyType, Zenon DEF TypeOK
  <2>2. writing.id \in Jobs /\ writing.lease \in Nat
    BY <1>2, ZenonT(60) DEF WalRecord
  <2> QED BY <1>2, <1>5, <2>1, <2>2, SMTT(30) DEF TypeOK
<1>7. TypeOK'
  <2>1. synced' = Len(file') /\ nextSeq' \in Nat \ {0}
    BY <1>1, <1>2, SMTT(30) DEF TypeOK
  <2> QED BY <1>1, <1>2, <1>4, <1>6, <2>1, SMTT(30) DEF TypeOK
<1>8. HeaderInv' /\ Forgotten' /\ Reconciling'
  BY <1>1, <1>2, Zenon DEF RecoveryInv, HeaderInv, Forgotten, Reconciling
<1>9. Pending = 1 /\ Pending' = 0
  BY <1>1, Zenon DEF Pending
<1>10. Clean' <=> Clean
  BY <1>1, <1>2, <1>4, <1>9, SMTT(30) DEF Clean
<1>11. nextSeq' + Pending' <= Len(file') + 1
  BY <1>1, <1>2, <1>4, <1>9, SMTT(30) DEF RecoveryInv, Appending
<1>12. SubSeq(file', 1, Len(file') - Pending') = file'
  BY <1>4, <1>2, <1>9, WholePrefix, SMTT(30)
<1>13. ASSUME Clean
       PROVE  /\ GoodUpTo(file', Len(file'))
              /\ logged' = Replay(file') /\ lastLease' = LeasesIn(file')
              /\ nextLeaseEpoch' = MaxLeaseEpoch(file') + 1
  <2> DEFINE n == Len(file) - 1
             s == SubSeq(file, 1, n)
             f == file[Len(file)]
  <2>1. n \in 0 .. Len(file) - 1 /\ n + 1 = Len(file) /\ n \in 0 .. Len(file)
        /\ Len(file) \in 1 .. Len(file)
    BY <1>2, SeqOf, SMTT(30)
  <2>2. s \in Seq(Frame) /\ f \in Frame
    BY <1>2, <2>1, PrefixOf, SeqOf, ZenonT(60)
  <2>3. file = Append(s, f)
    <3>1. SubSeq(file, 1, n + 1) = Append(SubSeq(file, 1, n), file[n + 1])
      BY <1>2, <2>1, PrefixStep, ZenonT(60)
    <3> QED BY <1>2, <2>1, <3>1, WholePrefix, ZenonT(60)
  <2>4. /\ GoodUpTo(file, Len(file)) /\ logged = Replay(s) /\ lastLease = LeasesIn(s)
        /\ nextLeaseEpoch = MaxLeaseEpoch(s) + 1 /\ f.record = writing
    BY <1>1, <1>2, <1>9, <1>13, ZenonT(60) DEF RecoveryInv, Appending
  <2>5. f.record \in AllowedAfter(s)
    BY <1>2, <2>1, <2>4, ZenonT(60) DEF Legal
  <2> HIDE DEF f, s, n
  <2>6. /\ Replay(file) = ApplyRecordForRecovery(Replay(s), f.record)
        /\ LeasesIn(file) = IF f.record.type = "JobLeased"
                            THEN [LeasesIn(s) EXCEPT ![f.record.id] = f.record.lease]
                            ELSE LeasesIn(s)
        /\ MaxLeaseEpoch(file) = IF f.record.type = "JobLeased"
                                 THEN MaxLeaseEpoch(s) + 1 ELSE MaxLeaseEpoch(s)
    BY <2>2, <2>3, <2>5, AllowedApplied, ZenonT(60)
  <2>7. Replay(file') = logged' /\ LeasesIn(file') = lastLease'
    BY <1>4, <1>5, <2>4, <2>6, ZenonT(60)
  <2>8. nextLeaseEpoch' = MaxLeaseEpoch(file') + 1
    BY <1>4, <1>5, <2>4, <2>6, ZenonT(60)
  <2> QED BY <1>4, <2>4, <2>7, <2>8, ZenonT(60)
<1>14. Appending'
  BY <1>1, <1>10, <1>11, <1>12, <1>13, ZenonT(60) DEF Appending
<1>15. FaultFree'
  <2> SUFFICES ASSUME faults' = 0 PROVE FaultFree'
    BY Zenon DEF FaultFree
  <2>1. Clean /\ Tidy(file')
    BY <1>1, <1>2, <1>4, ZenonT(60) DEF RecoveryInv, FaultFree
  <2>2. \A i \in 1 .. Len(file') : i <= synced' /\ file'[i].whole
    <3>1. synced' = Len(file')
      BY <1>1, Zenon
    <3> QED BY <1>2, <1>4, <1>13, <2>1, <3>1, SMTT(30) DEF GoodUpTo
  <2> QED BY <1>1, <1>2, <1>10, <2>1, <2>2, ZenonT(60) DEF FaultFree
<1> QED BY <1>4, <1>7, <1>8, <1>14, <1>15, ZenonT(60) DEF RecoveryInv

\* Syncing fails: the frame stays unacknowledged.
LEMMA AppendSyncFailsKeeps ==
    ASSUME RecoveryInv, AppendSyncFails
    PROVE  RecoveryInv'
<1>1. /\ writing # None /\ writing' = None /\ faults < MaxFaults /\ faults' = faults + 1
      /\ UNCHANGED <<header, file, synced, nextSeq, logged, lastLease, nextLeaseEpoch,
                     phase, lost, crashes>>
  BY Zenon DEF AppendSyncFails, IOError, fileVars, memoryVars
<1>2. TypeOK /\ Len(file) \in Nat /\ nextSeq \in Nat /\ phase = "open" /\ Legal(file)
  BY <1>1, FileIs, ZenonT(60) DEF RecoveryInv, TypeOK
<1>3. faults' # 0 /\ faults' \in 0 .. MaxFaults
  BY <1>1, <1>2, RecoveryAssumption, SMTT(30) DEF TypeOK
<1>4. TypeOK'
  BY <1>1, <1>2, <1>3, ZenonT(60) DEF TypeOK
<1>5. HeaderInv' /\ Forgotten' /\ Legal(file)' /\ Reconciling'
  BY <1>1, <1>2, Zenon DEF RecoveryInv, HeaderInv, Forgotten, Reconciling
<1>6. Pending = 1 /\ Pending' = 0 /\ nextSeq + Pending <= Len(file) + 1
  BY <1>1, <1>2, Zenon DEF Pending, RecoveryInv, Appending
<1>7. ~Clean' /\ nextSeq' + Pending' <= Len(file') + 1
  BY <1>1, <1>2, <1>6, SMTT(30) DEF Clean
<1>8. Appending' /\ FaultFree'
  BY <1>3, <1>7, Zenon DEF Appending, FaultFree
<1> QED BY <1>4, <1>5, <1>8, ZenonT(60) DEF RecoveryInv

\* The log is closed.
LEMMA CloseKeeps ==
    ASSUME RecoveryInv, Close
    PROVE  RecoveryInv'
<1>1. /\ phase' = "down" /\ ForgetMemory
      /\ UNCHANGED <<header, file, synced, crashes, faults>>
  BY Zenon DEF Close, fileVars, boundVars
<1>2. /\ file' \in Seq(Frame) /\ Legal(file') /\ synced' \in 0 .. Len(file')
      /\ header' \in {"none", "torn", "written", "synced"}
      /\ header' # "synced" => file' = <<>>
      /\ crashes' \in 0 .. MaxCrashes /\ faults' \in 0 .. MaxFaults
  BY <1>1, Zenon DEF RecoveryInv, TypeOK, HeaderInv
<1>3. faults' = 0 =>
         /\ Tidy(file')
         /\ \A i \in 1 .. Len(file') : file'[i].acked => i <= synced' /\ file'[i].whole
  BY <1>1, Zenon DEF RecoveryInv, FaultFree
<1> QED BY <1>1, <1>2, <1>3, ProcessEnds, ZenonT(60)

\* validate_recovered_state rejects what was recovered.
LEMMA ConfigRejectedKeeps ==
    ASSUME RecoveryInv, ConfigRejected
    PROVE  RecoveryInv'
<1>1. /\ phase = "reconcile" /\ phase' = "down" /\ ForgetMemory
      /\ file' = file /\ synced' = Len(file) /\ header' = "synced"
      /\ UNCHANGED <<crashes, faults>>
  BY Zenon DEF ConfigRejected, Sync, boundVars
<1>2. GoodUpTo(file, Len(file)) /\ file \in Seq(Frame) /\ Len(file) \in Nat
  BY <1>1, FileIs, ZenonT(60) DEF RecoveryInv, Reconciling
<1>3. /\ file' \in Seq(Frame) /\ Legal(file') /\ synced' \in 0 .. Len(file')
      /\ header' \in {"none", "torn", "written", "synced"}
      /\ header' # "synced" => file' = <<>>
      /\ crashes' \in 0 .. MaxCrashes /\ faults' \in 0 .. MaxFaults
  BY <1>1, <1>2, SMTT(30) DEF RecoveryInv, TypeOK
<1>4. Tidy(file') /\ \A i \in 1 .. Len(file') : i <= synced' /\ file'[i].whole
  BY <1>1, <1>2, GoodIsTidy, SMTT(30) DEF GoodUpTo
<1> QED BY <1>1, <1>3, <1>4, ProcessEnds, ZenonT(60)

\* Recovery fails between two of its steps.
LEMMA RecoveryFailsKeeps ==
    ASSUME RecoveryInv, RecoveryFails
    PROVE  RecoveryInv'
<1>1. /\ phase = "reconcile" /\ phase' = "down" /\ ForgetMemory
      /\ faults < MaxFaults /\ faults' = faults + 1
      /\ UNCHANGED <<header, synced, crashes>>
      /\ \/ file' = file
         \/ \E j \in lost :
               file' = Append(file, Torn(WalFrame(nextSeq, ReconciliationRecord(j))))
  BY Zenon DEF RecoveryFails, IOError, WriteFails
<1>2. TypeOK /\ file \in Seq(Frame) /\ Len(file) \in Nat /\ nextSeq \in Nat /\ Legal(file)
  BY FileIs, Zenon DEF RecoveryInv
<1>3. faults' # 0 /\ faults' \in 0 .. MaxFaults /\ crashes' \in 0 .. MaxCrashes
      /\ header' \in {"none", "torn", "written", "synced"}
  BY <1>1, <1>2, RecoveryAssumption, SMTT(30) DEF TypeOK
<1>4. CASE file' = file
  <2>1. /\ synced' \in 0 .. Len(file')
        /\ header' # "synced" => file' = <<>>
    BY <1>1, <1>4, Zenon DEF RecoveryInv, TypeOK, HeaderInv
  <2> QED BY <1>1, <1>2, <1>3, <1>4, <2>1, ProcessEnds, ZenonT(60)
<1>5. ASSUME NEW j \in lost,
             file' = Append(file, Torn(WalFrame(nextSeq, ReconciliationRecord(j))))
      PROVE  RecoveryInv'
  <2> DEFINE f == Torn(WalFrame(nextSeq, ReconciliationRecord(j)))
  <2>1. ReconciliationRecord(j) \in WalRecord
    BY <1>1, ReconciliationIs, ZenonT(60)
  <2>2. f \in Frame /\ ~f.whole
    BY <1>2, <2>1, NewFrame, Zenon
  <2> HIDE DEF f
  <2>3. file' = Append(file, f)
    BY <1>5, Zenon DEF f
  <2>4. file' \in Seq(Frame) /\ Len(file') = Len(file) + 1
    BY <1>2, <2>2, <2>3, AppendOf, ZenonT(60)
  <2>5. Legal(file')
    BY <1>2, <2>2, <2>3, LegalAppend, Zenon
  <2>6. synced' \in 0 .. Len(file')
    BY <1>1, <1>2, <2>4 DEF TypeOK
  <2>7. header = "synced"
    <3>1. ASSUME file = <<>> PROVE FALSE
      <4>1. Lost(Replay(file)) = {}
        BY <3>1, ReplayEmpty, SMTT(30) DEF Lost, NoJobs, Absent
      <4> QED BY <1>1, <4>1, Zenon DEF RecoveryInv, Reconciling
    <3> QED BY <3>1, Zenon DEF RecoveryInv, HeaderInv
  <2> QED BY <1>1, <1>3, <2>4, <2>5, <2>6, <2>7, ProcessEnds, ZenonT(60)
<1> QED BY <1>1, <1>4, <1>5, Zenon

\* What a crash leaves: the frames up to some n, and perhaps a part of the next.
LEMMA CrashLeaves ==
    ASSUME TypeOK, file' \in Surviving
    PROVE  \E n \in synced .. Len(file) :
              /\ n \in 0 .. Len(file)
              /\ \/ file' = SubSeq(file, 1, n)
                 \/ /\ n < Len(file)
                    /\ file' = Append(SubSeq(file, 1, n), Torn(file[n + 1]))
<1>1. Len(file) \in Nat /\ synced \in Nat
  BY FileIs, Zenon
<1>2. CASE \E n \in synced .. Len(file) : file' = SubSeq(file, 1, n)
  BY <1>1, <1>2, SMTT(30)
<1>3. CASE \E n \in synced .. Len(file) - 1 :
              file' = Append(SubSeq(file, 1, n), Torn(file[n + 1]))
  <2>1. PICK n \in synced .. Len(file) - 1 :
              file' = Append(SubSeq(file, 1, n), Torn(file[n + 1]))
    BY <1>3, Zenon
  <2>2. n \in synced .. Len(file) /\ n \in 0 .. Len(file) /\ n < Len(file)
    BY <1>1, SMTT(30)
  <2> QED BY <2>1, <2>2, Zenon
<1> QED BY <1>2, <1>3, Zenon DEF Surviving

\* The process dies, and power may be lost.
LEMMA CrashKeeps ==
    ASSUME RecoveryInv, Crash
    PROVE  RecoveryInv'
<1>1. /\ phase' = "down" /\ ForgetMemory /\ file' \in Surviving
      /\ crashes < MaxCrashes /\ crashes' = crashes + 1
      /\ header' \in SurvivingHeader
      /\ synced' = synced /\ faults' = faults
  BY Zenon DEF Crash
<1>2. TypeOK /\ file \in Seq(Frame) /\ Len(file) \in Nat /\ synced \in Nat /\ Legal(file)
      /\ synced <= Len(file)
  BY FileIs, Zenon DEF RecoveryInv
<1>3. crashes' \in 0 .. MaxCrashes /\ faults' \in 0 .. MaxFaults
  BY <1>1, <1>2, RecoveryAssumption, SMTT(30) DEF TypeOK
<1>4. /\ header' \in {"none", "torn", "written", "synced"}
      /\ header = "synced" => header' = "synced"
  BY <1>1, <1>2, Zenon DEF SurvivingHeader, TypeOK
<1>5. PICK n \in synced .. Len(file) :
              /\ n \in 0 .. Len(file)
              /\ \/ file' = SubSeq(file, 1, n)
                 \/ /\ n < Len(file)
                    /\ file' = Append(SubSeq(file, 1, n), Torn(file[n + 1]))
  BY <1>1, <1>2, CrashLeaves, ZenonT(60)
<1> DEFINE s == SubSeq(file, 1, n)
<1>6. s \in Seq(Frame) /\ Len(s) = n /\ \A i \in 1 .. n : s[i] = file[i]
  BY <1>2, <1>5, PrefixOf, ZenonT(60)
<1>7. Legal(s)
  BY <1>2, <1>5, LegalPrefix, ZenonT(60)
<1>8. ASSUME header # "synced" PROVE file' = <<>>
  <2>1. Len(file) = 0
    BY <1>2, <1>8, SeqOf, ZenonT(60) DEF RecoveryInv, HeaderInv
  <2>2. n = 0 /\ file' = s
    BY <1>2, <1>5, <2>1, SMTT(30)
  <2> QED BY <1>6, <2>2, SeqOf, ZenonT(60)
<1> HIDE DEF s
<1>9. CASE file' = s
  <2>1. synced' \in 0 .. Len(file')
    BY <1>1, <1>2, <1>6, <1>9, SMTT(30)
  <2>2. ASSUME faults' = 0
        PROVE  /\ Tidy(file')
               /\ \A i \in 1 .. Len(file') :
                     file'[i].acked => i <= synced' /\ file'[i].whole
    <3>1. Tidy(file) /\ \A i \in 1 .. Len(file) :
                           file[i].acked => i <= synced /\ file[i].whole
      BY <1>1, <2>2, Zenon DEF RecoveryInv, FaultFree
    <3>2. \A i \in 1 .. Len(file') :
             /\ i \in 1 .. Len(file) /\ file'[i] = file[i]
             /\ i < Len(file') => i < Len(file)
      BY <1>2, <1>5, <1>6, <1>9, SMTT(30)
    <3>3. Tidy(file')
      BY <3>1, <3>2, Zenon DEF Tidy
    <3> QED BY <1>1, <3>1, <3>2, <3>3, Zenon
  <2> QED BY <1>1, <1>3, <1>4, <1>6, <1>7, <1>8, <1>9, <2>1, <2>2, ProcessEnds, ZenonT(60)
<1>10. CASE n < Len(file) /\ file' = Append(s, Torn(file[n + 1]))
  <2> DEFINE f == Torn(file[n + 1])
  <2>1. n + 1 \in 1 .. Len(file)
    BY <1>2, <1>5, <1>10
  <2>2. file[n + 1] \in Frame
    BY <1>2, <2>1, SeqOf, Zenon
  <2>3. f \in Frame /\ ~f.whole /\ f.acked = file[n + 1].acked
    BY <2>2, TornFrame, Zenon
  <2>4. file' = Append(s, f)
    BY <1>10, Zenon
  <2> HIDE DEF f
  <2>5. /\ file' \in Seq(Frame) /\ Len(file') = n + 1 /\ file'[n + 1] = f
        /\ \A i \in 1 .. n : file'[i] = file[i]
    BY <1>6, <2>3, <2>4, AppendOf, SMTT(30)
  <2>6. Legal(file')
    BY <1>6, <1>7, <2>3, <2>4, LegalAppend, Zenon
  <2>7. synced' \in 0 .. Len(file')
    <3>1. n \in Nat /\ synced <= n
      BY <1>2, <1>5
    <3>2. synced' = synced /\ synced \in Nat /\ Len(file') = n + 1
      BY <1>1, <1>2, <2>5, Zenon
    <3> QED BY <3>1, <3>2
  <2>8. ASSUME faults' = 0
        PROVE  /\ Tidy(file')
               /\ \A i \in 1 .. Len(file') :
                     file'[i].acked => i <= synced' /\ file'[i].whole
    <3>1. Tidy(file) /\ \A i \in 1 .. Len(file) :
                           file[i].acked => i <= synced /\ file[i].whole
      BY <1>1, <2>8, Zenon DEF RecoveryInv, FaultFree
    <3>2. ~f.acked
      BY <1>2, <1>5, <2>1, <2>3, <3>1, SMTT(30)
    <3>3. Tidy(file')
      <4>1. ASSUME NEW i \in 1 .. Len(file')
            PROVE  /\ i < Len(file') => file'[i].whole
                   /\ file'[i].whole => file'[i].seq = i
        <5>1. CASE i = n + 1
          BY <2>3, <2>5, <5>1, SMTT(30)
        <5>2. CASE i # n + 1
          <6>1. i \in 1 .. n /\ i \in 1 .. Len(file) /\ i < Len(file)
            BY <1>2, <1>5, <1>10, <2>5, <5>2, SMTT(30)
          <6> QED BY <2>5, <3>1, <6>1, ZenonT(60) DEF Tidy
        <5> QED BY <5>1, <5>2, ZenonT(60)
      <4> QED BY <4>1, Zenon DEF Tidy
    <3>4. ASSUME NEW i \in 1 .. Len(file'), file'[i].acked
          PROVE  i <= synced' /\ file'[i].whole
      <4>1. i # n + 1
        BY <2>5, <3>2, <3>4, ZenonT(60)
      <4>2. i \in 1 .. n /\ i \in 1 .. Len(file)
        BY <1>2, <1>5, <2>5, <4>1, SMTT(30)
      <4> QED BY <1>1, <2>5, <3>1, <3>4, <4>2, ZenonT(60)
    <3> QED BY <3>3, <3>4, Zenon
  <2> QED BY <1>1, <1>3, <1>4, <1>8, <2>5, <2>6, <2>7, <2>8, ProcessEnds, Zenon
<1> QED BY <1>5, <1>9, <1>10, ZenonT(60) DEF s

-----------------------------------------------------------------------------
\* The inductive invariant, and what follows from it.

\* An empty data directory starts the invariant.
LEMMA RecoveryInvInit == Init => RecoveryInv
<1> SUFFICES ASSUME Init PROVE RecoveryInv
  BY Zenon
<1>1. /\ header = "none" /\ file = <<>> /\ synced = 0 /\ phase = "down" /\ crashes = 0
      /\ faults = 0 /\ logged = NoJobs /\ lastLease = NoEpochs /\ nextLeaseEpoch = 1
      /\ nextSeq = 1 /\ writing = None /\ lost = {}
  BY Zenon DEF Init
<1>2. NoJobs \in [Jobs -> JobRecord] /\ NoEpochs \in [Jobs -> Nat]
  BY Zenon DEF NoJobs, NoEpochs, Absent, JobRecord
<1>3. file \in Seq(Frame) /\ Len(file) = 0
  BY <1>1, SMTT(30)
<1>4. TypeOK
  BY <1>1, <1>2, <1>3, RecoveryAssumption, SMTT(30) DEF TypeOK
<1>5. HeaderInv /\ Forgotten /\ Legal(file) /\ Reconciling /\ Appending
  BY <1>1, LegalEmpty, Zenon DEF HeaderInv, Forgotten, Reconciling, Appending
<1>6. FaultFree
  BY <1>1, <1>3, SMTT(30) DEF FaultFree, Tidy
<1> QED BY <1>4, <1>5, <1>6, ZenonT(60) DEF RecoveryInv

\* Every step keeps the invariant.
LEMMA RecoveryInvStep == RecoveryInv /\ [Next]_vars => RecoveryInv'
<1> SUFFICES ASSUME RecoveryInv, [Next]_vars PROVE RecoveryInv'
  BY Zenon
<1>1. CASE CreateHeader
  BY <1>1, CreateHeaderKeeps, Zenon
<1>2. CASE NewLog
  BY <1>2, NewLogKeeps, ZenonT(60)
<1>3. CASE CreateFails
  BY <1>3, CreateFailsKeeps, Zenon
<1>4. CASE RefuseLog
  BY <1>4, RefuseLogKeeps, Zenon
<1>5. CASE ScanAndReplay
  BY <1>5, ScanAndReplayKeeps, Zenon
<1>6. ASSUME NEW j \in Jobs, Reconcile(j) PROVE RecoveryInv'
  BY <1>6, ReconcileKeeps, ZenonT(60)
<1>7. CASE FinishRecovery
  BY <1>7, FinishRecoveryKeeps, Zenon
<1>8. CASE ConfigRejected
  BY <1>8, ConfigRejectedKeeps, Zenon
<1>9. CASE RecoveryFails
  BY <1>9, RecoveryFailsKeeps, Zenon
<1>10. ASSUME NEW r, AppendWrite(r) PROVE RecoveryInv'
  BY <1>10, AppendWriteKeeps, Zenon
<1>11. ASSUME NEW r, AppendFails(r) PROVE RecoveryInv'
  BY <1>11, AppendFailsKeeps, ZenonT(60)
<1>12. CASE AppendSync
  BY <1>12, AppendSyncKeeps, Zenon
<1>13. CASE AppendSyncFails
  BY <1>13, AppendSyncFailsKeeps, Zenon
<1>14. CASE Close
  BY <1>14, CloseKeeps, Zenon
<1>15. CASE Crash
  BY <1>15, CrashKeeps, Zenon
<1>16. CASE RepairFails
  BY <1>16, RepairFailsKeeps, Zenon
<1>17. CASE UNCHANGED vars
  <2>1. UNCHANGED <<header, file, synced, nextSeq, logged, lastLease, nextLeaseEpoch, phase,
                    writing, lost, crashes, faults>>
    BY <1>17, Zenon DEF vars, fileVars, memoryVars, boundVars
  <2> QED BY <2>1, ZenonT(60) DEF RecoveryInv, TypeOK, HeaderInv, Forgotten, Reconciling, Appending,
                      FaultFree, Clean, Pending
<1> QED BY <1>1, <1>2, <1>3, <1>4, <1>5, <1>6, <1>7, <1>8, <1>9, <1>10, <1>11, <1>12,
           <1>13, <1>14, <1>15, <1>16, <1>17, Zenon DEF Next

\* The inductive invariant holds in every reachable state of the log: it is kept
\* by every step of recover(), of the writer thread, and by a crash between them.
THEOREM RecoveryInvariant == Spec => []RecoveryInv
BY RecoveryInvInit, RecoveryInvStep, PTL DEF Spec

\* The type invariant of the log and the process: for every set of jobs, every
\* number of crashes and of I/O errors, and logs of every length.
THEOREM RecoveryTypeCorrect == Spec => []TypeOK
<1>1. RecoveryInv => TypeOK
  BY Zenon DEF RecoveryInv
<1> QED BY <1>1, RecoveryInvariant, PTL

\* What recovery accepts is one legal history of every job over all lifetimes,
\* whatever crashed, tore or failed: recover() and WriterThread::process_write.
THEOREM LegalHistory == Spec => []LogIsLegal
<1>1. RecoveryInv => LogIsLegal
  BY LegalMeans, ZenonT(60) DEF RecoveryInv
<1> QED BY <1>1, RecoveryInvariant, PTL

\* Between two appends the process knows what the next recovery would find.
THEOREM MemoryMatchesFile == Spec => []MemoryIsReplay
<1>1. RecoveryInv => MemoryIsReplay
  <2> SUFFICES ASSUME RecoveryInv, faults = 0, phase = "open", writing = None
               PROVE  /\ logged = Replay(file)
                      /\ nextSeq = Len(file) + 1
                      /\ nextLeaseEpoch = MaxLeaseEpoch(file) + 1
    BY Zenon DEF MemoryIsReplay
  <2>1. file \in Seq(Frame) /\ Len(file) \in Nat /\ nextSeq \in Nat
    BY FileIs, Zenon DEF RecoveryInv
  <2>2. Clean /\ Pending = 0
    BY PendingIs, Zenon DEF RecoveryInv, FaultFree
  <2>3. nextSeq = Len(file) + 1
    BY <2>1, <2>2, SMTT(30) DEF Clean
  <2>4. SubSeq(file, 1, Len(file) - Pending) = file
    BY <2>1, <2>2, WholePrefix, SMTT(30)
  <2> QED BY <2>2, <2>3, <2>4, ZenonT(60) DEF RecoveryInv, Appending
<1> QED BY <1>1, RecoveryInvariant, PTL

\* Crashes alone make recovery refuse nothing but a log whose header is torn,
\* and such a log has no record.
THEOREM RefusalIsHeader == Spec => []RefusedOnlyForHeader
<1>1. RecoveryInv => RefusedOnlyForHeader
  BY Zenon DEF RecoveryInv, FaultFree, HeaderInv, RefusedOnlyForHeader
<1> QED BY <1>1, RecoveryInvariant, PTL

-----------------------------------------------------------------------------
\* Acknowledged frames.

\* The acknowledged frames of s are in t, as they were.
Keeps(s, t) ==
    \A i \in DOMAIN s : s[i].acked => i \in DOMAIN t /\ t[i] = s[i]

\* What it takes to keep the acknowledged frames.
LEMMA KeepsOf ==
    ASSUME NEW s \in Seq(Frame), NEW t \in Seq(Frame),
           \A i \in 1 .. Len(s) : s[i].acked => i <= Len(t) /\ t[i] = s[i]
    PROVE  Keeps(s, t)
<1>1. /\ Len(s) \in Nat /\ Len(t) \in Nat /\ DOMAIN s = 1 .. Len(s)
      /\ DOMAIN t = 1 .. Len(t)
  BY SeqOf, Zenon
<1> QED BY <1>1, SMTT(30) DEF Keeps

\* An append keeps them.
LEMMA KeepsAppend ==
    ASSUME NEW s \in Seq(Frame), NEW f \in Frame
    PROVE  Keeps(s, Append(s, f))
<1> DEFINE t == Append(s, f)
<1>1. /\ t \in Seq(Frame) /\ Len(t) = Len(s) + 1 /\ Len(s) \in Nat
      /\ \A i \in 1 .. Len(s) : t[i] = s[i]
  BY AppendOf, SeqOf, SMTT(30)
<1> HIDE DEF t
<1>2. \A i \in 1 .. Len(s) : i <= Len(t) /\ t[i] = s[i]
  BY <1>1, SMTT(30)
<1>3. Keeps(s, t)
  BY <1>1, <1>2, KeepsOf, ZenonT(60)
<1> QED BY <1>3, Zenon DEF t

\* No step without a fault loses or changes an acknowledged frame.
LEMMA AcknowledgedStep == RecoveryInv /\ [Next]_vars /\ faults' = 0 => Keeps(file, file')
<1> SUFFICES ASSUME RecoveryInv, [Next]_vars, faults' = 0 PROVE Keeps(file, file')
  BY Zenon
<1>1. TypeOK /\ file \in Seq(Frame) /\ Len(file) \in Nat /\ synced \in Nat
      /\ nextSeq \in Nat /\ faults \in Nat /\ DOMAIN file = 1 .. Len(file)
  BY FileIs, SeqOf, SMTT(30) DEF RecoveryInv, TypeOK
<1>2. ~(faults' = faults + 1)
  BY <1>1, SMTT(30)
<1>3. CASE UNCHANGED file
  BY <1>3, Zenon DEF Keeps
<1>4. ASSUME faults = 0
      PROVE  /\ Tidy(file)
             /\ \A i \in 1 .. Len(file) : file[i].acked => i <= synced /\ file[i].whole
  BY <1>4, Zenon DEF RecoveryInv, FaultFree
<1>5. CASE ScanAndReplay
  <2> DEFINE s == SubSeq(file, 1, GoodPrefix(file))
  <2>1. Repaired(s) /\ faults = 0
    BY <1>5, Zenon DEF ScanAndReplay, boundVars
  <2>2. GoodPrefix(file) \in 0 .. Len(file)
    BY <1>1, GoodPrefixIs, Zenon
  <2>3. /\ s \in Seq(Frame) /\ Len(s) = GoodPrefix(file)
        /\ \A i \in 1 .. GoodPrefix(file) : s[i] = file[i]
    BY <1>1, <2>2, PrefixOf, ZenonT(60)
  <2> HIDE DEF s
  <2>4. file' = s
    BY <2>1, Zenon DEF Repaired, fileVars, Sync
  <2>5. ASSUME NEW i \in 1 .. Len(file), file[i].acked
        PROVE  i <= Len(s) /\ s[i] = file[i]
    <3>1. i <= GoodPrefix(file)
      BY <1>1, <1>4, <2>1, <2>5, GoodPrefixAll, ZenonT(60)
    <3>2. i \in 1 .. GoodPrefix(file)
      BY <2>2, <3>1, SMTT(30)
    <3> QED BY <2>3, <3>1, <3>2, ZenonT(60)
  <2> QED BY <1>1, <2>3, <2>4, <2>5, KeepsOf, ZenonT(60)
<1>6. ASSUME NEW j \in Jobs, Reconcile(j) PROVE Keeps(file, file')
  <2>1. /\ phase = "reconcile" /\ j \in lost
        /\ file' = Append(file, WalFrame(nextSeq, ReconciliationRecord(j)))
    BY <1>6, Zenon DEF Reconcile, WriteFrame
  <2>2. ReconciliationRecord(j) \in WalRecord
    BY <2>1, ReconciliationIs, Zenon
  <2>3. WalFrame(nextSeq, ReconciliationRecord(j)) \in Frame
    BY <1>1, <2>2, NewFrame, ZenonT(60)
  <2> QED BY <1>1, <2>1, <2>3, KeepsAppend, ZenonT(60)
<1>7. ASSUME NEW r, AppendWrite(r) PROVE Keeps(file, file')
  <2>1. r \in Contract!Persistable /\ file' = Append(file, WalFrame(nextSeq, r))
    BY <1>7, Zenon DEF AppendWrite, Requested, WriteFrame
  <2>2. r \in Contract!Allowed(logged, lastLease, nextLeaseEpoch)
    BY <2>1, Zenon DEF Contract!Persistable
  <2>3. r \in WalRecord
    BY <1>1, <2>2, AllowedType, ZenonT(60) DEF TypeOK
  <2>4. WalFrame(nextSeq, r) \in Frame
    BY <1>1, <2>3, NewFrame, ZenonT(60)
  <2> QED BY <1>1, <2>1, <2>4, KeepsAppend, ZenonT(60)
<1>8. ASSUME MoreAcked(file, file') PROVE Keeps(file, file')
  BY <1>1, <1>8, KeepsOf, SMTT(30) DEF MoreAcked
<1>9. CASE FinishRecovery
  <2>1. file' = Acked(file)
    BY <1>9, Zenon DEF FinishRecovery, Sync
  <2> QED BY <1>1, <1>8, <2>1, AckedMore, ZenonT(60)
<1>10. CASE AppendSync
  <2>1. file' = [file EXCEPT ![Len(file)].acked = TRUE] /\ file # <<>>
    BY <1>1, <1>10, ZenonT(60) DEF AppendSync, AckLast, Sync, TypeOK
  <2> QED BY <1>1, <1>8, <2>1, AckLastMore, ZenonT(60)
<1>11. CASE Crash
  <2>1. file' \in Surviving /\ faults = 0
    BY <1>11, Zenon DEF Crash
  <2>2. PICK n \in synced .. Len(file) :
              /\ n \in 0 .. Len(file)
              /\ \/ file' = SubSeq(file, 1, n)
                 \/ /\ n < Len(file)
                    /\ file' = Append(SubSeq(file, 1, n), Torn(file[n + 1]))
    BY <1>1, <2>1, CrashLeaves, ZenonT(60)
  <2> DEFINE s == SubSeq(file, 1, n)
  <2>3. s \in Seq(Frame) /\ Len(s) = n /\ \A i \in 1 .. n : s[i] = file[i]
    BY <1>1, <2>2, PrefixOf, ZenonT(60)
  <2>4. /\ file' \in Seq(Frame) /\ n <= Len(file')
        /\ \A i \in 1 .. n : file'[i] = file[i]
    <3> HIDE DEF s
    <3>1. CASE file' = s
      BY <2>2, <2>3, <3>1, SMTT(30)
    <3>2. CASE n < Len(file) /\ file' = Append(s, Torn(file[n + 1]))
      <4>1. file[n + 1] \in Frame
        BY <1>1, <2>2, <3>2, SeqOf, SMTT(30)
      <4>2. Torn(file[n + 1]) \in Frame
        BY <4>1, TornFrame, ZenonT(60)
      <4>3. /\ file' \in Seq(Frame) /\ Len(file') = n + 1
            /\ \A i \in 1 .. n : file'[i] = s[i]
        BY <2>3, <3>2, <4>2, AppendOf, SMTT(30)
      <4> QED BY <2>2, <2>3, <4>3, SMTT(30)
    <3> QED BY <2>2, <3>1, <3>2, ZenonT(60) DEF s
  <2>5. ASSUME NEW i \in 1 .. Len(file), file[i].acked
        PROVE  i <= Len(file') /\ file'[i] = file[i]
    <3>1. i <= synced
      BY <1>4, <2>1, <2>5, ZenonT(60)
    <3>2. i \in 1 .. n /\ Len(file') \in Nat
      BY <1>1, <2>2, <2>4, <3>1, SeqOf, SMTT(30)
    <3> QED BY <2>2, <2>4, <3>2, SMTT(30)
  <2> QED BY <1>1, <2>4, <2>5, KeepsOf, ZenonT(60)
<1>12. CASE CreateHeader \/ NewLog \/ RefuseLog \/ ConfigRejected \/ Close
  BY <1>3, <1>12, ZenonT(60) DEF CreateHeader, NewLog, RefuseLog, ConfigRejected, Close, Sync, fileVars
<1>13. ASSUME CreateFails \/ RepairFails \/ RecoveryFails \/ (\E r : AppendFails(r)) \/ AppendSyncFails
       PROVE  FALSE
  BY <1>2, <1>13, ZenonT(60) DEF CreateFails, RepairFails, RecoveryFails, AppendFails, AppendSyncFails,
                              IOError
<1>14. CASE UNCHANGED vars
  BY <1>3, <1>14, Zenon DEF vars, fileVars
<1> QED BY <1>5, <1>6, <1>7, <1>9, <1>10, <1>11, <1>12, <1>13, <1>14, ZenonT(60) DEF Next

\* As long as no write or sync fails, no crash, repair, append or restart
\* removes or changes a frame somebody was told is durable.
THEOREM NothingAcknowledgedLost == Spec => AcknowledgedKept
<1>1. RecoveryInv /\ [Next]_vars =>
         [faults' = 0 => \A i \in DOMAIN file : file[i].acked =>
             i \in DOMAIN file' /\ file'[i] = file[i]]_vars
  BY AcknowledgedStep, Zenon DEF Keeps
<1> QED BY <1>1, RecoveryInvariant, PTL DEF Spec, AcknowledgedKept

-----------------------------------------------------------------------------
\* What the next start finds beyond what somebody was told.

\* RefusedIsLast, without GoodPrefix, and why it lasts: as long as the numbers
\* are those of the places, the last frame is acknowledged before another is
\* written.
Confirmed ==
    phase = "open" =>
        /\ \A i \in 1 .. Len(file) - 1 : GoodUpTo(file, i + 1) => file[i].acked
        /\ Clean /\ writing = None /\ file # <<>> => file[Len(file)].acked

\* A record is written, in whole or in part.
LEMMA ConfirmedAppend ==
    ASSUME RecoveryInv, Confirmed, phase = "open", writing = None, NEW f \in Frame,
           f.whole => f.seq = nextSeq, file' = Append(file, f)
    PROVE  \A i \in 1 .. Len(file') - 1 : GoodUpTo(file', i + 1) => file'[i].acked
<1>1. file \in Seq(Frame) /\ Len(file) \in Nat /\ nextSeq \in Nat
  BY FileIs, Zenon DEF RecoveryInv
<1>2. /\ file' \in Seq(Frame) /\ Len(file') = Len(file) + 1 /\ file'[Len(file) + 1] = f
      /\ \A i \in 1 .. Len(file) : file'[i] = file[i]
  BY <1>1, AppendOf, SMTT(30)
<1> SUFFICES ASSUME NEW i \in 1 .. Len(file') - 1, GoodUpTo(file', i + 1)
             PROVE  file'[i].acked
  BY Zenon
<1>3. i \in 1 .. Len(file) /\ file'[i] = file[i]
  BY <1>1, <1>2, SMTT(30)
<1>4. CASE i < Len(file)
  <2>1. i \in 1 .. Len(file) - 1 /\ GoodUpTo(file, i + 1)
    BY <1>1, <1>2, <1>3, <1>4, SMTT(30) DEF GoodUpTo
  <2> QED BY <1>3, <2>1, Zenon DEF Confirmed
<1>5. CASE i = Len(file)
  <2>1. f.whole /\ f.seq = Len(file) + 1
    BY <1>1, <1>2, <1>5, SMTT(30) DEF GoodUpTo
  <2>2. Clean /\ file # <<>>
    BY <1>1, <1>3, <1>5, <2>1, PendingIs, SMTT(30) DEF Clean
  <2> QED BY <1>3, <1>5, <2>2, Zenon DEF Confirmed
<1> QED BY <1>1, <1>3, <1>4, <1>5, SMTT(30)

\* Every step keeps it.
LEMMA ConfirmedStep == RecoveryInv /\ Confirmed /\ [Next]_vars => Confirmed'
<1> SUFFICES ASSUME RecoveryInv, Confirmed, [Next]_vars, phase' = "open" PROVE Confirmed'
  BY Zenon DEF Confirmed
<1>1. TypeOK /\ file \in Seq(Frame) /\ Len(file) \in Nat /\ nextSeq \in Nat
  BY FileIs, Zenon DEF RecoveryInv
<1>2. CASE NewLog
  <2>1. file' = <<>>
    BY <1>2, Zenon DEF NewLog, Sync, RecoveryInv, HeaderInv
  <2> QED BY <2>1, SMTT(30) DEF Confirmed
<1>3. CASE FinishRecovery
  <2>1. file' = Acked(file) /\ DOMAIN file = 1 .. Len(file)
    BY <1>1, <1>3, SeqOf, Zenon DEF FinishRecovery, Sync
  <2>2. MoreAcked(file, file')
    BY <1>1, <2>1, AckedMore, Zenon
  <2>3. \A i \in 1 .. Len(file) : file'[i].acked
    <3>1. ASSUME NEW i \in 1 .. Len(file) PROVE file'[i].acked
      <4>1. file[i] \in Frame /\ file'[i] = [file[i] EXCEPT !.acked = TRUE]
        BY <1>1, <2>1, SeqOf, Zenon DEF Acked
      <4> QED BY <4>1, Zenon DEF Frame
    <3> QED BY <3>1, Zenon
  <2>4. Len(file') = Len(file) /\ file' \in Seq(Frame)
    BY <2>2, Zenon DEF MoreAcked
  <2> QED BY <1>1, <2>3, <2>4, SMTT(30) DEF Confirmed
<1>4. ASSUME NEW r, AppendWrite(r) PROVE Confirmed'
  <2>1. /\ phase = "open" /\ writing = None /\ writing' = r /\ r \in Contract!Persistable
        /\ file' = Append(file, WalFrame(nextSeq, r))
    BY <1>4, Zenon DEF AppendWrite, Requested, WriteFrame
  <2>2. r \in Contract!Allowed(logged, lastLease, nextLeaseEpoch)
    BY <2>1, Zenon DEF Contract!Persistable
  <2>3. r \in WalRecord /\ r # None
    BY <1>1, <2>2, AllowedType, RecoveryAssumption, ZenonT(60) DEF TypeOK
  <2>4. WalFrame(nextSeq, r) \in Frame /\ WalFrame(nextSeq, r).seq = nextSeq
    BY <1>1, <2>3, NewFrame, ZenonT(60)
  <2>5. \A i \in 1 .. Len(file') - 1 : GoodUpTo(file', i + 1) => file'[i].acked
    BY <2>1, <2>4, ConfirmedAppend, ZenonT(60)
  <2> QED BY <2>1, <2>3, <2>5, ZenonT(60) DEF Confirmed
<1>5. ASSUME NEW r, AppendFails(r) PROVE Confirmed'
  <2> DEFINE f == Torn(WalFrame(nextSeq, r))
  <2>1. /\ phase = "open" /\ writing = None /\ r \in Contract!Persistable
        /\ file' = file \/ file' = Append(file, f)
        /\ UNCHANGED <<phase, writing, nextSeq>>
    BY <1>5, Zenon DEF AppendFails, Requested, WriteFails
  <2>2. r \in Contract!Allowed(logged, lastLease, nextLeaseEpoch)
    BY <2>1, Zenon DEF Contract!Persistable
  <2>3. r \in WalRecord
    BY <1>1, <2>2, AllowedType, ZenonT(60) DEF TypeOK
  <2>4. f \in Frame /\ ~f.whole
    BY <1>1, <2>3, NewFrame, ZenonT(60)
  <2> HIDE DEF f
  <2>5. CASE file' = file
    BY <2>1, <2>5, ZenonT(60) DEF Confirmed, Clean, Pending
  <2>6. CASE file' = Append(file, f)
    <3>1. \A i \in 1 .. Len(file') - 1 : GoodUpTo(file', i + 1) => file'[i].acked
      BY <2>1, <2>4, <2>6, ConfirmedAppend, ZenonT(60)
    <3>2. Len(file') = Len(file) + 1
      BY <1>1, <2>4, <2>6, AppendOf, ZenonT(60)
    <3>3. nextSeq + Pending <= Len(file) + 1 /\ Pending = 0 /\ Pending' = 0
      BY <2>1, Zenon DEF RecoveryInv, Appending, Pending
    <3>4. ~Clean'
      BY <1>1, <2>1, <3>2, <3>3, SMTT(30) DEF Clean
    <3> QED BY <3>1, <3>4, Zenon DEF Confirmed
  <2> QED BY <2>1, <2>5, <2>6, Zenon
<1>6. CASE AppendSync
  <2>1. /\ file' = [file EXCEPT ![Len(file)].acked = TRUE] /\ file # <<>> /\ phase = "open"
    BY <1>1, <1>6, ZenonT(60) DEF AppendSync, AckLast, Sync, TypeOK
  <2>2. MoreAcked(file, file')
    BY <1>1, <2>1, AckLastMore, ZenonT(60)
  <2>3. /\ Len(file') = Len(file)
        /\ \A i \in 1 .. Len(file) : /\ file[i].acked => file'[i].acked
                                     /\ file'[i].whole = file[i].whole
                                     /\ file'[i].seq = file[i].seq
    BY <2>2, Zenon DEF MoreAcked
  <2>4. file'[Len(file)].acked
    <3>1. Len(file) \in 1 .. Len(file) /\ DOMAIN file = 1 .. Len(file)
      BY <1>1, <2>1, SeqOf, SMTT(30)
    <3>2. /\ file[Len(file)] \in Frame
          /\ file'[Len(file)] = [file[Len(file)] EXCEPT !.acked = TRUE]
      BY <1>1, <2>1, <3>1, SeqOf, Zenon
    <3> QED BY <3>2, Zenon DEF Frame
  <2>5. ASSUME NEW i \in 1 .. Len(file) - 1, GoodUpTo(file', i + 1) PROVE file'[i].acked
    <3>1. i \in 1 .. Len(file) /\ GoodUpTo(file, i + 1)
      BY <1>1, <2>3, <2>5, SMTT(30) DEF GoodUpTo
    <3> QED BY <2>1, <2>3, <3>1, Zenon DEF Confirmed
  <2> QED BY <2>3, <2>4, <2>5, Zenon DEF Confirmed
<1>7. CASE AppendSyncFails
  <2>1. /\ writing # None /\ writing' = None /\ file' = file /\ nextSeq' = nextSeq
        /\ phase = "open"
    BY <1>7, Zenon DEF AppendSyncFails, fileVars
  <2>2. nextSeq + Pending <= Len(file) + 1 /\ Pending = 1 /\ Pending' = 0
    BY <2>1, Zenon DEF RecoveryInv, Appending, Pending
  <2>3. ~Clean'
    BY <1>1, <2>1, <2>2, SMTT(30) DEF Clean
  <2> QED BY <2>1, <2>3, Zenon DEF Confirmed
<1>8. CASE UNCHANGED vars
  BY <1>8, ZenonT(60) DEF vars, fileVars, Confirmed, Clean, Pending
<1>9. ASSUME \/ CreateHeader \/ CreateFails \/ RefuseLog \/ ScanAndReplay \/ RepairFails
             \/ (\E j \in Jobs : Reconcile(j)) \/ ConfigRejected \/ RecoveryFails \/ Close
             \/ Crash
      PROVE  FALSE
  BY <1>9, ZenonT(60) DEF CreateHeader, CreateFails, RefuseLog, ScanAndReplay, RepairFails, Reconcile,
              ConfigRejected, RecoveryFails, Close, Crash
<1> QED BY <1>2, <1>3, <1>4, <1>5, <1>6, <1>7, <1>8, <1>9, ZenonT(60) DEF Next

\* Of the records that a scan accepts while the queue is open, only the last can
\* be one whose caller was told Err, or was told nothing, whatever failed before:
\* WriterThread::process_write gives its number to the next frame.
THEOREM OnlyLastIsUnconfirmed == Spec => []RefusedIsLast
<1>1. Init => Confirmed
  BY Zenon DEF Init, Confirmed
<1>2. RecoveryInv /\ Confirmed => RefusedIsLast
  <2> SUFFICES ASSUME RecoveryInv, Confirmed, phase = "open",
                      NEW i \in 1 .. GoodPrefix(file) - 1
               PROVE  file[i].acked
    BY Zenon DEF RefusedIsLast
  <2>1. file \in Seq(Frame) /\ Len(file) \in Nat
    BY FileIs, Zenon DEF RecoveryInv
  <2>2. GoodPrefix(file) \in 0 .. Len(file) /\ GoodUpTo(file, GoodPrefix(file))
    BY <2>1, GoodPrefixIs, Zenon
  <2> HIDE DEF GoodPrefix
  <2>3. i \in 1 .. Len(file) - 1 /\ GoodUpTo(file, i + 1)
    BY <2>1, <2>2, SMTT(30) DEF GoodUpTo
  <2> QED BY <2>3, Zenon DEF Confirmed
<1> QED BY <1>1, <1>2, ConfirmedStep, RecoveryInvariant, PTL DEF Spec

-----------------------------------------------------------------------------
\* Reconciliation.

\* Only FinishRecovery opens the queue after a scan, and then no job is lost.
LEMMA ReconcileStep ==
    RecoveryInv /\ [Next]_vars /\ phase = "reconcile" /\ phase' = "open" =>
        \A j \in Jobs : /\ logged'[j].state # "Running"
                        /\ logged'[j].attempts = logged[j].attempts
<1> SUFFICES ASSUME RecoveryInv, [Next]_vars, phase = "reconcile", phase' = "open",
                    NEW j \in Jobs
             PROVE  /\ logged'[j].state # "Running"
                    /\ logged'[j].attempts = logged[j].attempts
  BY Zenon
<1>1. writing = None
  BY Zenon DEF RecoveryInv, TypeOK
<1>2. FinishRecovery
  BY <1>1, ZenonT(60) DEF Next, vars, CreateHeader, NewLog, CreateFails, RefuseLog, ScanAndReplay,
              RepairFails, Reconcile, ConfigRejected, RecoveryFails, AppendWrite, AppendFails,
              Requested, AppendSync, AppendSyncFails, Close, Crash
<1>3. lost = {} /\ logged' = Replay(file)
  BY <1>2, Zenon DEF FinishRecovery
<1>4. lost = Lost(Replay(file)) /\ logged[j].attempts = Replay(file)[j].attempts
  BY Zenon DEF RecoveryInv, Reconciling
<1> QED BY <1>3, <1>4, Zenon DEF Lost

\* recover() exposes no job as Running and counts no attempt of its own, however
\* often it was interrupted before.
THEOREM ReconciledWhenOpen == Spec => RecoveryReconciles
<1>1. RecoveryInv /\ [Next]_vars =>
         [phase = "reconcile" /\ phase' = "open" =>
             \A j \in Jobs : /\ logged'[j].state # "Running"
                             /\ logged'[j].attempts = logged[j].attempts]_vars
  BY ReconcileStep, Zenon
<1> QED BY <1>1, RecoveryInvariant, PTL DEF Spec, RecoveryReconciles
=============================================================================
