--------------------------- MODULE DataDirProofs ---------------------------
(***************************************************************************)
(* Theorems about DataDir: what one user of a data directory may rely on,  *)
(* for any number of users of any kind, any frame sizes and any number of  *)
(* kills, power losses and I/O errors.                                     *)
(***************************************************************************)
EXTENDS DataDir, TLAPS

Header == {"missing", "empty", "torn", "written", "synced"}
Step == {"idle", "locked", "creating", "scanning", "scanned", "reconcile",
         "reconciling", "open", "writing", "syncing", "joined"}
Outcome == {"none", "clean", "truncated", "corrupt"}

TypeInv ==
    /\ header \in Header
    /\ file \in Seq(Chunk)
    /\ synced \in Nat
    /\ lock \in Users \cup {None}
    /\ st \in [Users -> Step]
    /\ caller \in [Users -> {"in", "out"}]
    /\ closing \in [Users -> BOOLEAN]
    /\ seen \in [Users -> Seq(Chunk)]
    /\ pos \in [Users -> Nat]
    /\ outcome \in [Users -> Outcome]
    /\ nextSeq \in [Users -> Nat]
    /\ spoiled \in BOOLEAN

\* Whoever does anything in the directory holds LOCK; whoever holds it does.
Active(u) == st[u] \notin {"idle", "joined"}

LockInv == \A u \in Users : Active(u) <=> lock = u

CallInv ==
    \A u \in Users : caller[u] = "out" /\ Kind[u] # "handle" => st[u] = "idle"

\* The chunks lie one behind the other and none is empty.
Layout(s) ==
    /\ \A i \in DOMAIN s : /\ s[i].start < s[i].stop
                           /\ s[i].stop <= s[i].start + s[i].size
    /\ \A i, j \in DOMAIN s : i < j => s[i].stop <= s[j].start

\* Acknowledged frames are on the disk.
AckedSynced(s, n) == \A i \in DOMAIN s : s[i].acked => s[i].stop <= n

\* Unless it is spoiled, only the last frame can be torn.
Intact(s) ==
    \A i \in DOMAIN s :
        /\ s[i].seq = i
        /\ i < Len(s) \/ s[i].acked => Whole(s[i])

FileInv ==
    /\ Layout(file)
    /\ AckedSynced(file, synced)
    /\ ~spoiled => Intact(file)

\* A scan under way: it reads the file, and has accepted what it should.
Scanned(u) ==
    /\ seen[u] = file
    /\ pos[u] <= Len(file)
    /\ \A i \in 1 .. pos[u] :
          Whole(file[i]) /\ (Kind[u] # "writer" => file[i].seq = i)

\* How it ended.
Ended(u) ==
    /\ outcome[u] \in {"clean", "truncated", "corrupt"}
    /\ outcome[u] = "clean" <=> pos[u] = Len(file)
    /\ outcome[u] # "clean" => ~FrameAccepted(u)
    /\ outcome[u] = "truncated" => ~Whole(file[pos[u] + 1])
    /\ outcome[u] = "corrupt" => Whole(file[pos[u] + 1]) \/ pos[u] + 1 < Len(file)

Last == file[Len(file)]

UserInv(u) ==
    /\ st[u] \in {"scanning", "scanned"} => Scanned(u)
    /\ st[u] = "scanned" => Ended(u)
    /\ st[u] \in {"writing", "reconciling", "syncing"} => file # <<>> /\ ~Last.acked
    /\ st[u] = "syncing" => Whole(Last)
    /\ st[u] = "reconcile" /\ ~spoiled => \A i \in DOMAIN file : Whole(file[i])

IInv ==
    /\ TypeInv
    /\ LockInv
    /\ CallInv
    /\ FileInv
    /\ \A u \in Users : UserInv(u)

-----------------------------------------------------------------------------
\* The invariant holds of an empty directory.
LEMMA InitInv == Init => IInv
<1> SUFFICES ASSUME Init PROVE IInv
  BY Zenon
<1> USE DataDirAssumption DEF Init
<1>1. TypeInv
  <2>1. <<>> \in Seq(Chunk) /\ 0 \in Nat /\ 1 \in Nat
    OBVIOUS
  <2>2. QED
    BY Zenon, <2>1 DEF TypeInv, Header, Step, Outcome
<1>2. LockInv /\ CallInv
  BY Zenon DEF LockInv, CallInv, Active
<1>3. FileInv
  BY DEF FileInv, Layout, AckedSynced, Intact
<1>4. QED
  BY <1>1, <1>2, <1>3, Zenon DEF IInv, UserInv

-----------------------------------------------------------------------------
\* Types.

\* The chunks of the file, and what acknowledging or completing makes of them.
LEMMA ChunkTypes ==
    ASSUME TypeInv
    PROVE  /\ Bytes(file) \in Nat
           /\ \A i \in DOMAIN file : /\ AckedFrame(file[i]) \in Chunk
                                     /\ Completed(file[i]) \in Chunk
<1>1. ASSUME NEW i \in DOMAIN file PROVE file[i] \in Chunk
  BY <1>1 DEF TypeInv
<1>2. Bytes(file) \in Nat
  <2>1. CASE file = <<>>
    BY <2>1, Zenon DEF Bytes
  <2>2. CASE file # <<>>
    <3>1. Len(file) \in DOMAIN file
      BY <2>2 DEF TypeInv
    <3>2. QED
      BY <1>1, <2>2, <3>1, Zenon DEF Bytes, Chunk
  <2>3. QED
    BY <2>1, <2>2, Zenon
<1>3. ASSUME NEW f \in Chunk PROVE AckedFrame(f) \in Chunk /\ Completed(f) \in Chunk
  <2>1. f.start \in Nat /\ f.size \in Nat
    BY DataDirAssumption, Zenon DEF Chunk
  <2>2. f.start + f.size \in Nat
    BY <2>1
  <2>3. QED
    BY <2>2, Zenon DEF Chunk, AckedFrame, Completed
<1>4. QED
  BY <1>1, <1>2, <1>3, Zenon

\* An interval from 1 determines its end.
LEMMA SameInterval ==
    ASSUME NEW m \in Nat, NEW n \in Nat, 1 .. m = 1 .. n
    PROVE  m = n
<1>1. CASE m < n
  <2>1. n \in 1 .. n /\ n \notin 1 .. m
    BY <1>1
  <2>2. QED
    BY <2>1, Zenon
<1>2. CASE n < m
  <2>1. m \in 1 .. m /\ m \notin 1 .. n
    BY <1>2
  <2>2. QED
    BY <2>1, Zenon
<1>3. QED
  BY <1>1, <1>2

\* Sequences over the same domain are equally long.
LEMMA SameLength ==
    ASSUME NEW S, NEW T, NEW s \in Seq(S), NEW t \in Seq(T), DOMAIN s = DOMAIN t
    PROVE  Len(s) = Len(t)
<1>1. /\ Len(s) \in Nat /\ DOMAIN s = 1 .. Len(s)
      /\ Len(t) \in Nat /\ DOMAIN t = 1 .. Len(t)
  OBVIOUS
<1>2. QED
  BY <1>1, SameInterval, Zenon

\* FrameScan sees one frame for each chunk.
LEMMA FramesOf ==
    ASSUME NEW s \in Seq(Chunk)
    PROVE  /\ Len(s) \in Nat /\ DOMAIN s = 1 .. Len(s)
           /\ Len(Frames(s)) = Len(s)
           /\ \A i \in DOMAIN s : /\ Frames(s)[i].whole = Whole(s[i])
                                  /\ Frames(s)[i].seq = s[i].seq
<1> DEFINE R == [whole : BOOLEAN, seq : Nat]
<1>1. Len(s) \in Nat /\ DOMAIN s = 1 .. Len(s)
  OBVIOUS
<1>2. \A i \in DOMAIN s : s[i] \in Chunk
  OBVIOUS
<1>3. \A i \in DOMAIN s : Frames(s)[i] = [whole |-> Whole(s[i]), seq |-> s[i].seq]
  BY Zenon DEF Frames
<1>4. \A i \in 1 .. Len(s) : [whole |-> Whole(s[i]), seq |-> s[i].seq] \in R
  BY <1>1, <1>2, Zenon DEF Whole, Chunk
<1>5. DOMAIN Frames(s) = DOMAIN s /\ Frames(s) = [i \in DOMAIN s |-> Frames(s)[i]]
  BY Zenon DEF Frames
<1> HIDE DEF R
<1>6. Frames(s) \in Seq(R) /\ DOMAIN Frames(s) = DOMAIN s
  <2>1. \A i \in 1 .. Len(s) : Frames(s)[i] \in R
    BY <1>1, <1>3, <1>4, Zenon
  <2>2. Frames(s) = [i \in 1 .. Len(s) |-> Frames(s)[i]]
    BY <1>1, <1>5, Zenon
  <2>3. QED
    BY <1>1, <1>5, <2>1, <2>2
<1>7. Len(Frames(s)) = Len(s)
  BY <1>6, SameLength
<1>8. \A i \in DOMAIN s : /\ Frames(s)[i].whole = Whole(s[i])
                          /\ Frames(s)[i].seq = s[i].seq
  BY Zenon DEF Frames
<1>9. QED
  BY <1>1, <1>7, <1>8, Zenon

\* A file has a number of bytes.
LEMMA BytesOf ==
    ASSUME NEW s \in Seq(Chunk)
    PROVE  Bytes(s) \in Nat
<1>1. CASE s = <<>>
  BY <1>1, Zenon DEF Bytes
<1>2. CASE s # <<>>
  <2>1. s[Len(s)] \in Chunk
    BY <1>2
  <2>2. QED
    BY <1>2, <2>1, Zenon DEF Bytes, Chunk
<1>3. QED
  BY <1>1, <1>2, Zenon

\* What a user forgets of its scan.
LEMMA ForgetTypes ==
    ASSUME TypeInv, NEW u \in Users, ForgetScan(u)
    PROVE  /\ seen' \in [Users -> Seq(Chunk)]
           /\ pos' \in [Users -> Nat]
           /\ outcome' \in [Users -> Outcome]
<1>1. <<>> \in Seq(Chunk)
  OBVIOUS
<1>2. QED
  BY <1>1, Zenon DEF TypeInv, ForgetScan, Outcome

\* What is left of a user that is gone.
LEMMA GoneTypes ==
    ASSUME TypeInv, NEW u \in Users, Gone(u)
    PROVE  /\ st' \in [Users -> Step]
           /\ caller' \in [Users -> {"in", "out"}]
           /\ closing' \in [Users -> BOOLEAN]
           /\ nextSeq' \in [Users -> Nat]
           /\ seen' \in [Users -> Seq(Chunk)]
           /\ pos' \in [Users -> Nat]
           /\ outcome' \in [Users -> Outcome]
<1>1. /\ seen' \in [Users -> Seq(Chunk)]
      /\ pos' \in [Users -> Nat]
      /\ outcome' \in [Users -> Outcome]
  BY ForgetTypes, Zenon DEF Gone
<1>2. nextSeq' \in [Users -> Nat]
  BY Zenon DEF Gone, TypeInv
<1>3. /\ st' \in [Users -> Step]
      /\ caller' \in [Users -> {"in", "out"}]
      /\ closing' \in [Users -> BOOLEAN]
  BY Zenon DEF Gone, TypeInv, Enter, Step
<1>4. QED
  BY <1>1, <1>2, <1>3, Zenon

\* A step that leaves the file alone, or only learns about it.
LEMMA ControlTypes ==
    ASSUME TypeInv, NEW u \in Users,
           \/ TryLock(u) \/ OpenNew(u) \/ ReadLog(u) \/ BadHeader(u)
           \/ AcceptFrame(u) \/ FinishScan(u) \/ LeaveLog(u) \/ OpenUnrepaired(u)
           \/ DiskFails(u) \/ CloseWriter(u) \/ ThreadEnds(u) \/ JoinReturns(u)
           \/ Kill(u)
    PROVE  TypeInv'
<1> USE DEF TypeInv, Header, Step, Outcome, Enter, Release, fileVars, scanVars
<1>1. CASE TryLock(u)
  BY <1>1, Zenon DEF TryLock
<1>2. CASE OpenNew(u)
  BY <1>2, Zenon DEF OpenNew
<1>3. CASE ReadLog(u)
  BY <1>3, Zenon DEF ReadLog
<1>4. CASE BadHeader(u) \/ LeaveLog(u)
  BY <1>4, GoneTypes, Zenon DEF BadHeader, LeaveLog
<1>5. CASE AcceptFrame(u)
  <2>1. Following(u) \in Chunk
    BY <1>5, SMTT(30) DEF AcceptFrame, FrameAccepted, Following
  <2>2. Following(u).seq \in Nat
    BY <2>1, Zenon DEF Chunk
  <2>3. pos' \in [Users -> Nat]
    BY <1>5, SMTT(30) DEF AcceptFrame
  <2>4. nextSeq' \in [Users -> Nat]
    BY <1>5, <2>2, SMTT(30) DEF AcceptFrame
  <2>5. QED
    BY <1>5, <2>3, <2>4, Zenon DEF AcceptFrame
<1>6. CASE FinishScan(u)
  <2>1. Outcomes(u) \subseteq Outcome
    BY Zenon DEF Outcomes
  <2>2. QED
    BY <1>6, <2>1, ZenonT(60) DEF FinishScan
<1>7. CASE OpenUnrepaired(u)
  BY <1>7, ForgetTypes, Zenon DEF OpenUnrepaired
<1>8. CASE DiskFails(u)
  <2>1. CASE Release(u)
    BY <1>8, <2>1, GoneTypes, Zenon DEF DiskFails
  <2>2. CASE st[u] \in {"writing", "syncing"} /\ ~Release(u)
    BY <1>8, <2>2, Zenon DEF DiskFails
  <2>3. QED
    BY <1>8, <2>1, <2>2, Zenon DEF DiskFails
<1>9. CASE CloseWriter(u)
  BY <1>9, Zenon DEF CloseWriter, OwnerLeaves
<1>10. CASE ThreadEnds(u)
  BY <1>10, Zenon DEF ThreadEnds
<1>11. CASE JoinReturns(u)
  BY <1>11, GoneTypes, Zenon DEF JoinReturns
<1>12. CASE Kill(u)
  BY <1>12, GoneTypes, Zenon DEF Kill
<1>13. QED
  BY <1>1, <1>2, <1>3, <1>4, <1>5, <1>6, <1>7, <1>8, <1>9, <1>10, <1>11, <1>12, Zenon

\* The steps that write, cut or sync the file keep the types.
LEMMA FileTypes ==
    ASSUME TypeInv, NEW u \in Users,
           \/ CreateHeader(u) \/ Repair(u) \/ RepairFails(u) \/ WriteRest(u)
           \/ FinishRecovery(u) \/ ConfigRejected(u) \/ SyncData(u)
           \/ \E n \in Sizes : \E k \in 1 .. n : WriteSome(u, n, k),
           \A v \in Users : UserInv(v)
    PROVE  TypeInv'
<1>0. /\ Bytes(file) \in Nat
      /\ \A i \in DOMAIN file : /\ AckedFrame(file[i]) \in Chunk
                                /\ Completed(file[i]) \in Chunk
  BY ChunkTypes, Zenon
<1> USE DEF TypeInv, Header, Step, Outcome, Enter, Release, fileVars, scanVars
<1>1. CASE CreateHeader(u)
  BY <1>0, <1>1, Zenon DEF CreateHeader, Sync
<1>2. CASE Repair(u)
  <2>1. CASE outcome[u] = "truncated"
    <3>1. pos[u] \in Nat /\ pos[u] <= Len(file)
      BY <1>2, Zenon DEF Repair, UserInv, Scanned
    <3>2. SubSeq(file, 1, pos[u]) \in Seq(Chunk)
      BY <3>1
    <3>3. Bytes(SubSeq(file, 1, pos[u])) \in Nat
      BY <3>2, BytesOf, Zenon
    <3>4. QED
      BY <1>2, <2>1, <3>2, <3>3, ForgetTypes, Zenon DEF Repair, Sync
  <2>2. CASE outcome[u] # "truncated"
    BY <1>2, <2>2, ForgetTypes, Zenon DEF Repair
  <2>3. QED
    BY <2>1, <2>2, Zenon
<1>3. CASE WriteRest(u)
  <2>1. Len(file) \in DOMAIN file
    BY <1>3 DEF WriteRest, UserInv
  <2>2. file' \in Seq(Chunk)
    BY <1>0, <1>3, <2>1 DEF WriteRest
  <2>3. nextSeq' \in [Users -> Nat]
    <3>1. nextSeq[u] + 1 \in Nat
      BY SMTT(30)
    <3>2. QED
      BY <1>3, <3>1, Zenon DEF WriteRest
  <2>4. QED
    BY <1>3, <2>2, <2>3, Zenon DEF WriteRest
<1>4. CASE FinishRecovery(u)
  <2>1. file' \in Seq(Chunk)
    <3>1. file' = [i \in 1 .. Len(file) |-> AckedFrame(file[i])]
      BY <1>4 DEF FinishRecovery, Sync
    <3>2. \A i \in 1 .. Len(file) : AckedFrame(file[i]) \in Chunk
      BY <1>0, SMTT(30)
    <3>3. QED
      BY <3>1, <3>2, SMTT(30)
  <2>2. synced' \in Nat
    BY <1>4, <2>1, BytesOf, Zenon DEF FinishRecovery, Sync
  <2>3. QED
    BY <1>4, <2>1, <2>2, Zenon DEF FinishRecovery, Sync
<1>5. CASE ConfigRejected(u)
  BY <1>0, <1>5, GoneTypes, ZenonT(60) DEF ConfigRejected, Sync
<1>6. CASE SyncData(u)
  <2>1. Len(file) \in DOMAIN file
    <3>1. file # <<>>
      BY <1>6, Zenon DEF SyncData, UserInv
    <3>2. QED
      BY <3>1, SMTT(30)
  <2>2. file' \in Seq(Chunk)
    BY <1>0, <1>6, <2>1 DEF SyncData, Sync
  <2>3. synced' \in Nat
    BY <1>6, <2>2, BytesOf, Zenon DEF SyncData, Sync
  <2>4. nextSeq' \in [Users -> Nat]
    BY <1>6, SMTT(30) DEF SyncData
  <2>5. QED
    BY <1>6, <2>2, <2>3, <2>4, Zenon DEF SyncData, Sync
<1>7. CASE \E n \in Sizes : \E k \in 1 .. n : WriteSome(u, n, k)
  <2>1. PICK n \in Sizes : \E k \in 1 .. n : WriteSome(u, n, k)
    BY <1>7, Zenon
  <2>2. n \in Nat
    BY DataDirAssumption, Zenon
  <2>3. PICK k \in 1 .. n : WriteSome(u, n, k)
    BY <2>1, Zenon
  <2>4. [start |-> Bytes(file), stop |-> Bytes(file) + k, size |-> n,
         seq |-> nextSeq[u], acked |-> FALSE] \in Chunk
    BY <1>0, <2>2, SMTT(30) DEF Chunk
  <2>5. file' \in Seq(Chunk)
    BY <2>3, <2>4 DEF WriteSome, WriteBytes
  <2>6. QED
    BY <2>3, <2>5, Zenon DEF WriteSome
<1>8. CASE RepairFails(u)
  <2> DEFINE s == SubSeq(file, 1, pos[u])
  <2>1. /\ Release(u) /\ UNCHANGED <<header, spoiled>>
        /\ \/ UNCHANGED <<file, synced>>
           \/ file' = s /\ synced' \in {synced, Bytes(s)}
    BY <1>8, Zenon DEF RepairFails
  <2>2. pos[u] \in Nat /\ pos[u] <= Len(file)
    BY <1>8, Zenon DEF RepairFails, UserInv, Scanned
  <2>3. s \in Seq(Chunk)
    BY <2>2
  <2>4. Bytes(s) \in Nat
    BY <2>3, BytesOf, Zenon
  <2> HIDE DEF s
  <2>5. QED
    BY <2>1, <2>3, <2>4, GoneTypes, Zenon
<1>9. QED
  BY <1>1, <1>2, <1>3, <1>4, <1>5, <1>6, <1>7, <1>8, Zenon

\* A function on an initial segment of the naturals is a sequence.
LEMMA FunctionIsSeq ==
    ASSUME NEW S, NEW k \in Nat, NEW f \in [1 .. k -> S]
    PROVE  f \in Seq(S)
OBVIOUS

\* A power loss keeps the types.
LEMMA PowerLossTypes ==
    ASSUME TypeInv, PowerLoss
    PROVE  TypeInv'
<1> USE DEF TypeInv, Header, Step, Outcome
<1>1. file' \in Seq(Chunk)
  <2>1. CASE file' = <<>>
    BY <2>1
  <2>2. CASE file' # <<>>
    <3>1. PICK k \in 0 .. Len(file) :
             \E n \in IF k = 0 THEN {0} ELSE file[k].start + 1 .. file[k].stop :
                 synced <= n /\ file' = CutAt(k, n)
      BY <2>2, Zenon DEF PowerLoss
    <3>2. PICK n \in IF k = 0 THEN {0} ELSE file[k].start + 1 .. file[k].stop :
             file' = CutAt(k, n)
      BY <3>1, Zenon
    <3>3. ASSUME NEW i \in 1 .. k
          PROVE  (IF i = k THEN [file[i] EXCEPT !.stop = n] ELSE file[i]) \in Chunk
      <4>1. file[i] \in Chunk
        BY <3>3
      <4>2. i = k => n \in Nat
        BY <3>3, <4>1, SMTT(30) DEF Chunk
      <4>3. QED
        BY <4>1, <4>2, Zenon DEF Chunk
    <3>4. file' \in [1 .. k -> Chunk]
      BY Zenon, <3>2, <3>3 DEF CutAt
    <3>5. k \in Nat
      OBVIOUS
    <3>6. QED
      BY <3>4, <3>5, FunctionIsSeq, Zenon
  <2>3. QED
    BY <2>1, <2>2, Zenon
<1>2. header' \in Header
  BY Zenon DEF PowerLoss
<1>3. <<>> \in Seq(Chunk)
  OBVIOUS
<1>4. QED
  BY <1>1, <1>2, <1>3, Zenon DEF PowerLoss

-----------------------------------------------------------------------------
\* Locking.

\* While one user works on the directory no other does.
LEMMA Alone ==
    ASSUME TypeInv, LockInv, NEW u \in Users, Active(u), NEW v \in Users, v # u
    PROVE  ~Active(v)
BY Zenon DEF LockInv

\* The owner of a user is out only once it is idle.
LEMMA LockStep ==
    ASSUME IInv, TypeInv', Next
    PROVE  LockInv' /\ CallInv'
<1> USE DEF Active, Enter, Gone, Release
<1>0. TypeInv /\ LockInv /\ CallInv /\ None \notin Users
  BY DataDirAssumption, Zenon DEF IInv
<1>1. ASSUME NEW u \in Users, TryLock(u)
      PROVE  LockInv' /\ CallInv'
  BY <1>0, <1>1, ZenonT(60) DEF TryLock, LockFree, LockInv, CallInv, TypeInv
<1>2. ASSUME NEW u \in Users, NEW s \in {"creating", "scanning", "scanned", "open",
                "reconcile", "reconciling", "writing", "syncing"},
             Active(u), st' = [st EXCEPT ![u] = s], UNCHANGED <<lock, caller>>
      PROVE  LockInv' /\ CallInv'
  BY <1>0, <1>2, ZenonT(60) DEF LockInv, CallInv, TypeInv
<1>3. ASSUME NEW u \in Users, Active(u), Release(u)
      PROVE  LockInv' /\ CallInv'
  BY <1>0, <1>3, ZenonT(60) DEF LockInv, CallInv, TypeInv
<1>4. ASSUME NEW u \in Users, CloseWriter(u)
      PROVE  LockInv' /\ CallInv'
  BY <1>0, <1>4, ZenonT(60) DEF CloseWriter, OwnerLeaves, LockInv, CallInv, TypeInv
<1>5. ASSUME NEW u \in Users, ThreadEnds(u)
      PROVE  LockInv' /\ CallInv'
  <2>1. /\ st[u] = "open" /\ lock' = None /\ caller' = caller
        /\ st' = [st EXCEPT ![u] = "joined"]
    BY <1>5, Zenon DEF ThreadEnds
  <2>2. st'[u] = "joined" /\ \A v \in Users \ {u} : st'[v] = st[v] /\ ~Active(v)
    BY <1>0, <2>1, Alone, Zenon DEF TypeInv
  <2>3. LockInv'
    BY <1>0, <2>1, <2>2, Zenon DEF LockInv
  <2>4. CallInv'
    BY <1>0, <2>1, <2>2, Zenon DEF CallInv
  <2>5. QED
    BY <2>3, <2>4, Zenon
<1>6. ASSUME NEW u \in Users, JoinReturns(u)
      PROVE  LockInv' /\ CallInv'
  BY <1>0, <1>6, Zenon DEF JoinReturns, LockInv, CallInv, TypeInv
<1>7. ASSUME NEW u \in Users, Kill(u)
      PROVE  LockInv' /\ CallInv'
  BY <1>0, <1>7, ZenonT(60) DEF Kill, LockInv, CallInv, TypeInv
<1>8. ASSUME PowerLoss
      PROVE  LockInv' /\ CallInv'
  BY <1>0, <1>8, Zenon DEF PowerLoss, LockInv, CallInv, TypeInv
<1>9. ASSUME NEW u \in Users, AcceptFrame(u)
      PROVE  LockInv' /\ CallInv'
  BY <1>0, <1>9, Zenon DEF AcceptFrame, LockInv, CallInv
<1>10. ASSUME NEW u \in Users,
              \/ OpenNew(u) \/ CreateHeader(u) \/ ReadLog(u) \/ FinishScan(u)
              \/ OpenUnrepaired(u) \/ Repair(u) \/ WriteRest(u) \/ FinishRecovery(u)
              \/ SyncData(u) \/ \E n \in Sizes : \E k \in 1 .. n : WriteSome(u, n, k)
       PROVE  LockInv' /\ CallInv'
  <2>1. /\ Active(u)
        /\ UNCHANGED <<lock, caller>>
        /\ \E s \in {"creating", "scanning", "scanned", "open", "reconcile",
                     "reconciling", "writing", "syncing"} : st' = [st EXCEPT ![u] = s]
    BY <1>10, ZenonT(60) DEF OpenNew, CreateHeader, ReadLog, FinishScan, OpenUnrepaired, Repair,
                 WriteRest, FinishRecovery, SyncData, WriteSome
  <2>2. QED
    BY <1>2, <2>1, ZenonT(60)
<1>11. ASSUME NEW u \in Users, DiskFails(u)
       PROVE  LockInv' /\ CallInv'
  <2>1. Active(u)
    BY <1>11, Zenon DEF DiskFails
  <2>2. Release(u) \/ (st' = [st EXCEPT ![u] = "open"] /\ UNCHANGED <<lock, caller>>)
    BY <1>11, Zenon DEF DiskFails
  <2>3. QED
    BY <1>2, <1>3, <2>1, <2>2, Zenon
<1>12. ASSUME NEW u \in Users, \/ BadHeader(u) \/ LeaveLog(u) \/ RepairFails(u)
                              \/ ConfigRejected(u)
       PROVE  LockInv' /\ CallInv'
  <2>1. Active(u) /\ Release(u)
    BY <1>12, Zenon DEF BadHeader, LeaveLog, RepairFails, ConfigRejected
  <2>2. QED
    BY <1>3, <2>1, ZenonT(60)
<1>13. QED
  BY <1>1, <1>4, <1>5, <1>6, <1>7, <1>8, <1>9, <1>10, <1>11, <1>12, Zenon DEF Next

-----------------------------------------------------------------------------
\* The file, and what a user knows of it.

\* While one user acts the others have nothing at stake.
LEMMA Bystander ==
    ASSUME IInv, NEW u \in Users, Active(u), NEW s, st' = [st EXCEPT ![u] = s],
           NEW v \in Users, v # u
    PROVE  UserInv(v)'
<1>1. ~Active(v)
  BY Alone, Zenon DEF IInv
<1>2. st'[v] \in {"idle", "joined"}
  BY <1>1, Zenon DEF Active, IInv, TypeInv
<1>3. QED
  BY <1>2, Zenon DEF UserInv

\* The same for a step that touches neither the file nor the scan of another.
LEMMA Elsewhere ==
    ASSUME IInv, NEW u \in Users, NEW v \in Users, v # u,
           st'[v] = st[v], seen'[v] = seen[v], pos'[v] = pos[v],
           outcome'[v] = outcome[v], UNCHANGED <<file, spoiled>>
    PROVE  UserInv(v)'
<1>1. UserInv(v)
  BY Zenon DEF IInv
<1>2. Scanned(v)' <=> Scanned(v)
  BY Zenon DEF Scanned, Whole
<1>3. Ended(v)' <=> Ended(v)
  BY Zenon DEF Ended, Whole, FrameAccepted, Following
<1>4. QED
  BY <1>1, <1>2, <1>3, Zenon DEF UserInv, Last, Whole

\* Steps that leave the file alone and end in a state that promises nothing.
LEMMA PlainSteps ==
    ASSUME IInv, NEW u \in Users,
           \/ TryLock(u) \/ OpenNew(u) \/ BadHeader(u) \/ LeaveLog(u)
           \/ OpenUnrepaired(u) \/ DiskFails(u) \/ CloseWriter(u) \/ ThreadEnds(u)
           \/ JoinReturns(u) \/ Kill(u)
    PROVE  FileInv' /\ \A v \in Users : UserInv(v)'
<1> USE DEF Enter, Gone, Release, ForgetScan
<1>1. UNCHANGED <<file, synced, spoiled>>
  BY Zenon DEF TryLock, OpenNew, BadHeader, LeaveLog, OpenUnrepaired, DiskFails,
         CloseWriter, ThreadEnds, JoinReturns, Kill, fileVars
<1>2. FileInv'
  BY <1>1, Zenon DEF IInv, FileInv
<1>3. TypeInv
  BY Zenon DEF IInv
<1>4. CASE CloseWriter(u)
  <2>1. UNCHANGED <<st, seen, pos, outcome>>
    BY <1>4, Zenon DEF CloseWriter, scanVars
  <2>2. ASSUME NEW v \in Users PROVE UserInv(v)'
    <3>1. UserInv(v)
      BY Zenon DEF IInv
    <3>2. Scanned(v)' <=> Scanned(v)
      BY <1>1, <2>1, Zenon DEF Scanned
    <3>3. Ended(v)' <=> Ended(v)
      BY <1>1, <2>1, Zenon DEF Ended, FrameAccepted, Following
    <3>4. QED
      BY <1>1, <2>1, <3>1, <3>2, <3>3, Zenon DEF UserInv, Last
  <2>3. QED
    BY <1>2, <2>2, Zenon
<1>5. CASE ~CloseWriter(u)
  <2>1. /\ \A v \in Users \ {u} : /\ st'[v] = st[v] /\ seen'[v] = seen[v]
                                  /\ pos'[v] = pos[v] /\ outcome'[v] = outcome[v]
        /\ st'[u] \in {"idle", "locked", "creating", "open", "joined"}
    BY <1>3, <1>5, ZenonT(60) DEF TryLock, OpenNew, BadHeader, LeaveLog, OpenUnrepaired, DiskFails,
         ThreadEnds, JoinReturns, Kill, scanVars, TypeInv
  <2>2. UserInv(u)'
    BY <2>1, Zenon DEF UserInv
  <2>3. QED
    BY <1>1, <1>2, <2>1, <2>2, Elsewhere, ZenonT(60)
<1>6. QED
  BY <1>4, <1>5, Zenon

\* The scan.
LEMMA ReadStep ==
    ASSUME IInv, NEW u \in Users, ReadLog(u)
    PROVE  FileInv' /\ \A v \in Users : UserInv(v)'
<1>1. /\ UNCHANGED <<file, synced, spoiled>>
      /\ Active(u)
      /\ st' = [st EXCEPT ![u] = "scanning"]
  BY Zenon DEF ReadLog, Enter, fileVars, Active
<1>2. FileInv'
  BY <1>1, Zenon DEF IInv, FileInv
<1>3. st'[u] = "scanning" /\ seen'[u] = file /\ pos'[u] = 0
  BY Zenon DEF ReadLog, Enter, IInv, TypeInv
<1>4. Scanned(u)'
  BY <1>1, <1>3 DEF Scanned, IInv, TypeInv
<1>5. UserInv(u)'
  BY <1>3, <1>4, Zenon DEF UserInv
<1>6. QED
  BY <1>1, <1>2, <1>5, Bystander, Zenon

\* The scan accepts a frame.
LEMMA AcceptStep ==
    ASSUME IInv, NEW u \in Users, AcceptFrame(u)
    PROVE  FileInv' /\ \A v \in Users : UserInv(v)'
<1>1. /\ UNCHANGED <<file, synced, spoiled, st, seen, outcome>>
      /\ st[u] = "scanning"
      /\ FrameAccepted(u)
      /\ pos' = [pos EXCEPT ![u] = @ + 1]
  BY Zenon DEF AcceptFrame, fileVars
<1>2. FileInv'
  BY <1>1, Zenon DEF IInv, FileInv
<1>3. /\ TypeInv /\ Scanned(u)
      /\ pos[u] \in Nat /\ pos'[u] = pos[u] + 1 /\ Len(file) \in Nat
  BY <1>1, SMTT(30) DEF IInv, UserInv, TypeInv
<1>4. /\ pos[u] < Len(file)
      /\ Whole(file[pos[u] + 1])
      /\ Kind[u] = "writer" \/ file[pos[u] + 1].seq = pos[u] + 1
  BY <1>1, <1>3, Zenon DEF FrameAccepted, Following, Scanned
<1>5. Scanned(u)'
  <2>1. seen'[u] = file' /\ pos'[u] <= Len(file')
    BY <1>1, <1>3, <1>4, SMTT(30) DEF Scanned
  <2>2. ASSUME NEW i \in 1 .. pos'[u]
        PROVE  Whole(file[i]) /\ (Kind[u] # "writer" => file[i].seq = i)
    <3>1. i \in 1 .. pos[u] \/ i = pos[u] + 1
      BY <1>3
    <3>2. QED
      BY <1>3, <1>4, <3>1, Zenon DEF Scanned
  <2>3. QED
    BY <1>1, <2>1, <2>2, Zenon DEF Scanned, Whole
<1>6. UserInv(u)'
  BY <1>1, <1>5, Zenon DEF UserInv
<1>7. ASSUME NEW v \in Users, v # u PROVE UserInv(v)'
  BY <1>1, <1>3, <1>7, Elsewhere, Zenon DEF TypeInv
<1>8. QED
  BY <1>2, <1>6, <1>7, Zenon

\* The scan ends: the layout of the chunks decides between a truncated tail and
\* corruption.
LEMMA FinishScanStep ==
    ASSUME IInv, NEW u \in Users, FinishScan(u)
    PROVE  FileInv' /\ \A v \in Users : UserInv(v)'
<1>1. /\ UNCHANGED <<file, synced, spoiled, seen, pos>>
      /\ st[u] = "scanning"
      /\ st' = [st EXCEPT ![u] = "scanned"]
  BY Zenon DEF FinishScan, Enter, fileVars
<1>2. FileInv'
  BY <1>1, Zenon DEF IInv, FileInv
<1>3. PICK r \in Outcomes(u) : outcome' = [outcome EXCEPT ![u] = r]
  BY ZenonT(60) DEF FinishScan
<1>4. TypeInv /\ Scanned(u) /\ Layout(file) /\ file \in Seq(Chunk) /\ seen[u] = file
  BY <1>1, Zenon DEF IInv, UserInv, FileInv, TypeInv, Scanned
<1>5. st'[u] = "scanned" /\ outcome'[u] = r
  BY <1>1, <1>3, <1>4, Zenon DEF TypeInv
<1>6. Scanned(u)'
  BY <1>1, <1>4, Zenon DEF Scanned
<1>7. pos[u] \in Nat /\ pos[u] <= Len(file) /\ Len(file) \in Nat
  BY <1>4, SMTT(30) DEF TypeInv, Scanned
<1>8. FrameAccepted(u)' <=> FrameAccepted(u)
  BY <1>1, Zenon DEF FrameAccepted, Following
<1>9. CASE pos[u] = Len(file)
  <2>1. r = "clean"
    BY <1>4, <1>9, Zenon DEF Outcomes
  <2>2. QED
    BY <1>1, <1>2, <1>5, <1>6, <1>7, <1>9, <2>1, Bystander, Zenon DEF UserInv, Ended, Active
<1>10. CASE pos[u] < Len(file)
  <2> DEFINE f == file[pos[u] + 1]
             left == Bytes(file) - f.start
  <2>1. LenField \in Nat /\ FrameOverhead \in Nat /\ LenField <= FrameOverhead
    BY DataDirAssumption, Zenon
  <2>2. pos[u] + 1 \in DOMAIN file /\ f \in Chunk /\ Len(file) \in DOMAIN file
    BY <1>4, <1>7, <1>10
  <2>3. /\ f.start \in Nat /\ f.stop \in Nat /\ f.size \in Nat
        /\ FrameOverhead <= f.size /\ f.start < f.stop /\ f.stop <= f.start + f.size
    BY <1>4, <2>2, DataDirAssumption, Zenon DEF Chunk, Layout
  <2>4. Bytes(file) = file[Len(file)].stop /\ Bytes(file) \in Nat
    <3>1. file # <<>>
      BY <2>2
    <3>2. Bytes(file) \in Nat
      BY <1>4, BytesOf, Zenon
    <3>3. QED
      BY <3>1, <3>2, Zenon DEF Bytes
  <2>5. f.stop <= Bytes(file)
    <3>1. CASE pos[u] + 1 = Len(file)
      BY <2>3, <2>4, <3>1, SMTT(30)
    <3>2. CASE pos[u] + 1 < Len(file)
      <4>1. f.stop <= file[Len(file)].start
        BY <1>4, <2>2, <3>2, Zenon DEF Layout
      <4>2. file[Len(file)] \in Chunk /\ file[Len(file)].start < file[Len(file)].stop
        BY <1>4, <2>2, SMTT(30) DEF Layout
      <4>3. QED
        BY <2>3, <2>4, <4>1, <4>2, SMTT(30) DEF Chunk
    <3>3. QED
      BY <1>7, <1>10, <3>1, <3>2, SMTT(30)
  <2>6. pos[u] + 1 = Len(file) => Bytes(file) = f.stop
    BY <2>4, Zenon
  <2>7. Following(u) = f /\ Remaining(u) = left
    BY <1>4, Zenon DEF Following, Remaining
  <2>8. Whole(f) <=> f.stop - f.start = f.size
    BY Zenon DEF Whole
  <2>9. left = Bytes(file) - f.start
    BY Zenon
  <2>10. /\ ~FrameAccepted(u)
         /\ r \in {"truncated", "corrupt"}
         /\ r = "truncated" =>
               left < FrameOverhead \/ f.stop - f.start < LenField \/ left < f.size
         /\ r = "corrupt" =>
               /\ ~(left < LenField)
               /\ f.stop - f.start < LenField \/ ~(left < f.size)
    <3>1. pos[u] # Len(seen[u])
      BY <1>4, <1>7, <1>10, SMTT(30)
    <3> HIDE DEF f, left
    <3>2. r \in IF FrameAccepted(u) THEN {}
                ELSE IF left < (IF Kind[u] = "writer" THEN FrameOverhead ELSE LenField)
                     THEN {"truncated"}
                ELSE IF f.stop - f.start < LenField THEN {"truncated", "corrupt"}
                ELSE IF left < f.size THEN {"truncated"}
                ELSE {"corrupt"}
      BY <2>7, <3>1, Zenon DEF Outcomes
    <3>3. QED
      BY <2>1, <2>3, <2>4, <2>9, <3>2, SMTT(30)
  <2> HIDE DEF f, left
  <2>11. r = "truncated" => ~Whole(f)
    BY <2>1, <2>3, <2>4, <2>5, <2>8, <2>9, <2>10, SMTT(30)
  <2>12. r = "corrupt" => Whole(f) \/ pos[u] + 1 < Len(file)
    BY <1>7, <1>10, <2>1, <2>3, <2>4, <2>6, <2>8, <2>9, <2>10, SMTT(30)
  <2>13. Ended(u)'
    <3>1. r # "clean" /\ pos[u] # Len(file) /\ ~FrameAccepted(u)'
      BY <1>7, <1>8, <1>10, <2>10
    <3>2. /\ r = "truncated" => ~Whole(file[pos[u] + 1])
          /\ r = "corrupt" => Whole(file[pos[u] + 1]) \/ pos[u] + 1 < Len(file)
      BY <2>11, <2>12, Zenon DEF f
    <3>3. Whole(file[pos[u] + 1])' <=> Whole(file[pos[u] + 1])
      BY <1>1, Zenon DEF Whole
    <3>4. QED
      BY <1>1, <1>5, <2>10, <3>1, <3>2, <3>3, Zenon DEF Ended
  <2>14. QED
    BY <1>1, <1>2, <1>5, <1>6, <2>13, Bystander, ZenonT(60) DEF UserInv, Active
<1>11. QED
  BY <1>7, <1>9, <1>10

-----------------------------------------------------------------------------
\* Steps that change the file.

\* No chunk reaches beyond the end.
LEMMA StopBound ==
    ASSUME NEW s \in Seq(Chunk), Layout(s), NEW i \in DOMAIN s
    PROVE  s[i].stop <= Bytes(s)
<1>1. s # <<>> /\ Len(s) \in DOMAIN s /\ Len(s) \in Nat /\ i \in 1 .. Len(s)
  OBVIOUS
<1>2. Bytes(s) = s[Len(s)].stop
  BY <1>1, Zenon DEF Bytes
<1>3. s[i] \in Chunk /\ s[Len(s)] \in Chunk
  BY <1>1
<1>4. CASE i = Len(s)
  BY <1>2, <1>3, <1>4 DEF Chunk
<1>5. CASE i < Len(s)
  <2>1. s[i].stop <= s[Len(s)].start /\ s[Len(s)].start < s[Len(s)].stop
    BY <1>1, <1>5, Zenon DEF Layout
  <2>2. QED
    BY <1>2, <1>3, <2>1, SMTT(30) DEF Chunk
<1>6. QED
  BY <1>1, <1>4, <1>5

\* sync_data on the file as it is.
LEMMA SyncInv ==
    ASSUME IInv, Sync(file), UNCHANGED spoiled
    PROVE  FileInv'
<1>1. file \in Seq(Chunk) /\ Layout(file) /\ file' = file /\ synced' = Bytes(file)
  BY Zenon DEF IInv, TypeInv, FileInv, Sync
<1>2. AckedSynced(file, Bytes(file))
  BY <1>1, StopBound, Zenon DEF AckedSynced
<1>3. QED
  BY <1>1, <1>2, Zenon DEF IInv, FileInv

\* A user that syncs the whole file and stops or opens.
LEMMA SyncSteps ==
    ASSUME IInv, NEW u \in Users, CreateHeader(u) \/ ConfigRejected(u)
    PROVE  FileInv' /\ \A v \in Users : UserInv(v)'
<1>1. FileInv'
  BY SyncInv, Zenon DEF CreateHeader, ConfigRejected
<1>2. Active(u) /\ \E s \in {"open", "idle"} : st' = [st EXCEPT ![u] = s]
  BY Zenon DEF CreateHeader, ConfigRejected, Release, Gone, Enter, Active
<1>3. st'[u] \in {"open", "idle"}
  BY <1>2, Zenon DEF IInv, TypeInv
<1>4. UserInv(u)'
  BY <1>3, Zenon DEF UserInv
<1>5. QED
  BY <1>1, <1>2, <1>4, Bystander, Zenon

\* repair_truncated_tail keeps what the scan accepted.
LEMMA RepairStep ==
    ASSUME IInv, NEW u \in Users, Repair(u)
    PROVE  FileInv' /\ \A v \in Users : UserInv(v)'
<1>1. /\ TypeInv /\ file \in Seq(Chunk) /\ pos[u] \in Nat
      /\ Scanned(u) /\ Ended(u) /\ FileInv
      /\ st' = [st EXCEPT ![u] = "reconcile"]
      /\ st[u] = "scanned" /\ spoiled' = spoiled
  BY Zenon DEF Repair, IInv, TypeInv, UserInv, Enter
<1>2. pos[u] <= Len(file) /\ Len(file) \in Nat
  BY <1>1 DEF Scanned
<1>3. st'[u] = "reconcile"
  BY <1>1, Zenon DEF TypeInv
<1>4. CASE outcome[u] = "truncated"
  <2> DEFINE s == SubSeq(file, 1, pos[u])
  <2>1. file' = s /\ synced' = Bytes(s)
    BY <1>4, Zenon DEF Repair, Sync
  <2>2. s \in Seq(Chunk) /\ Len(s) = pos[u] /\ DOMAIN s = 1 .. pos[u]
    BY <1>1, <1>2
  <2>3. \A i \in DOMAIN s : s[i] = file[i] /\ i \in DOMAIN file
    BY <1>1, <1>2, SMTT(30)
  <2> HIDE DEF s
  <2>4. Layout(s)
    BY <1>1, <2>3, Zenon DEF FileInv, Layout
  <2>5. AckedSynced(s, Bytes(s))
    BY <2>2, <2>4, StopBound, Zenon DEF AckedSynced
  <2>6. \A i \in DOMAIN s : Whole(s[i])
    BY <1>1, <2>2, <2>3, ZenonT(60) DEF Scanned
  <2>7. ~spoiled => Intact(s)
    BY <1>1, <2>3, <2>6, Zenon DEF FileInv, Intact
  <2>8. FileInv'
    BY <1>1, <2>1, <2>4, <2>5, <2>7, Zenon DEF FileInv
  <2>9. UserInv(u)'
    BY <1>3, <2>1, <2>6, Zenon DEF UserInv, Whole
  <2>10. QED
    BY <1>1, <2>8, <2>9, Bystander, Zenon DEF Active
<1>5. CASE outcome[u] # "truncated"
  <2>1. UNCHANGED <<file, synced>> /\ outcome[u] # "corrupt"
    BY <1>5, Zenon DEF Repair, fileVars
  <2>2. FileInv'
    BY <1>1, <2>1, Zenon DEF FileInv
  <2>3. \A i \in DOMAIN file : Whole(file[i])
    <3>1. pos[u] = Len(file)
      BY <1>1, <1>5, <2>1, Zenon DEF Ended
    <3>2. QED
      BY <1>1, <3>1, SMTT(30) DEF Scanned
  <2>4. UserInv(u)'
    BY <1>3, <2>1, <2>3, Zenon DEF UserInv, Whole
  <2>5. QED
    BY <1>1, <2>2, <2>4, Bystander, Zenon DEF Active
<1>6. QED
  BY <1>4, <1>5, Zenon

\* A repair that fails keeps it too.
LEMMA RepairFailsStep ==
    ASSUME IInv, NEW u \in Users, RepairFails(u)
    PROVE  FileInv' /\ \A v \in Users : UserInv(v)'
<1> DEFINE s == SubSeq(file, 1, pos[u])
<1>1. /\ TypeInv /\ file \in Seq(Chunk) /\ pos[u] \in Nat /\ synced \in Nat
      /\ Scanned(u) /\ FileInv
      /\ st' = [st EXCEPT ![u] = "idle"]
      /\ st[u] = "scanned" /\ spoiled' = spoiled
  BY Zenon DEF RepairFails, IInv, TypeInv, UserInv, Release, Gone, Enter
<1>2. \/ UNCHANGED <<file, synced>>
      \/ file' = s /\ synced' = IF synced < Bytes(s) THEN synced ELSE Bytes(s)
  BY Zenon DEF RepairFails
<1>3. st'[u] = "idle"
  BY <1>1, Zenon DEF TypeInv
<1>4. UserInv(u)'
  BY <1>3, Zenon DEF UserInv
<1>5. \A v \in Users : UserInv(v)'
  BY <1>1, <1>4, Bystander, Zenon DEF Active
<1>6. CASE UNCHANGED <<file, synced>>
  BY <1>1, <1>5, <1>6, Zenon DEF FileInv
<1>7. CASE file' = s /\ synced' = IF synced < Bytes(s) THEN synced ELSE Bytes(s)
  <2>1. pos[u] <= Len(file) /\ Len(file) \in Nat
    BY <1>1 DEF Scanned
  <2>2. s \in Seq(Chunk) /\ Len(s) = pos[u] /\ DOMAIN s = 1 .. pos[u]
    BY <1>1, <2>1
  <2>3. \A i \in DOMAIN s : s[i] = file[i] /\ i \in DOMAIN file
    BY <1>1, <2>1, SMTT(30)
  <2> HIDE DEF s
  <2>4. Layout(s)
    BY <1>1, <2>3, Zenon DEF FileInv, Layout
  <2>5. AckedSynced(s, synced')
    <3>1. \A i \in DOMAIN s : s[i].acked => s[i].stop <= synced /\ s[i].stop <= Bytes(s)
      BY <1>1, <2>2, <2>3, <2>4, StopBound, Zenon DEF FileInv, AckedSynced
    <3>2. synced' \in {synced, Bytes(s)}
      BY <1>7, Zenon
    <3>3. QED
      BY <3>1, <3>2, Zenon DEF AckedSynced
  <2>6. \A i \in DOMAIN s : Whole(s[i])
    BY <1>1, <2>2, <2>3, ZenonT(60) DEF Scanned
  <2>7. ~spoiled => Intact(s)
    BY <1>1, <2>3, <2>6, Zenon DEF FileInv, Intact
  <2>8. QED
    BY <1>1, <1>5, <1>7, <2>4, <2>5, <2>7, Zenon DEF FileInv
<1>8. QED
  BY <1>2, <1>6, <1>7, Zenon

\* A frame begins: it is spoiled unless all before it are whole and it is next.
LEMMA WriteSomeStep ==
    ASSUME IInv, NEW u \in Users, NEW n \in Sizes, NEW k \in 1 .. n,
           WriteSome(u, n, k)
    PROVE  FileInv' /\ \A v \in Users : UserInv(v)'
<1> DEFINE f == [start |-> Bytes(file), stop |-> Bytes(file) + k, size |-> n,
                 seq |-> nextSeq[u], acked |-> FALSE]
<1>1. /\ TypeInv /\ file \in Seq(Chunk) /\ FileInv /\ Bytes(file) \in Nat
      /\ nextSeq[u] \in Nat /\ n \in Nat /\ k \in Nat /\ spoiled \in BOOLEAN
  BY DataDirAssumption, BytesOf, SMTT(30) DEF IInv, TypeInv
<1>2. /\ file' = Append(file, f)
      /\ spoiled' = (spoiled \/ WrongPlace(nextSeq[u]))
      /\ synced' = synced
      /\ Active(u)
      /\ \E s \in {"writing", "reconciling"} : st' = [st EXCEPT ![u] = s]
  BY Zenon DEF WriteSome, WriteBytes, Active, Enter
<1>3. st'[u] \in {"writing", "reconciling"}
  BY <1>1, <1>2, Zenon DEF TypeInv
<1>4. /\ f \in Chunk /\ f.start = Bytes(file) /\ f.stop = Bytes(file) + k
      /\ f.size = n /\ f.seq = nextSeq[u] /\ f.acked = FALSE
  BY <1>1 DEF Chunk
<1> HIDE DEF f
<1>5. /\ file' \in Seq(Chunk) /\ Len(file') = Len(file) + 1 /\ Len(file) \in Nat
      /\ file'[Len(file) + 1] = f
      /\ DOMAIN file' = 1 .. Len(file) + 1
      /\ \A i \in DOMAIN file : file'[i] = file[i] /\ i \in 1 .. Len(file)
  <2>1. file \in Seq(Chunk) /\ f \in Chunk
    BY <1>1, <1>4, Zenon
  <2>2. /\ Append(file, f) \in Seq(Chunk)
        /\ Len(Append(file, f)) = Len(file) + 1 /\ Len(file) \in Nat
    BY <2>1
  <2>3. /\ Append(file, f)[Len(file) + 1] = f
        /\ DOMAIN Append(file, f) = 1 .. Len(file) + 1
    BY <2>1
  <2>4. \A i \in DOMAIN file : Append(file, f)[i] = file[i] /\ i \in 1 .. Len(file)
    BY <2>1
  <2>5. QED
    BY <1>2, <2>2, <2>3, <2>4, Zenon
<1>6. \A i \in DOMAIN file' : i \in DOMAIN file \/ i = Len(file) + 1
  BY <1>1, <1>5, SMTT(30)
<1>7. Layout(file')
  <2>1. ASSUME NEW i \in DOMAIN file'
        PROVE  /\ file'[i].start < file'[i].stop
               /\ file'[i].stop <= file'[i].start + file'[i].size
    <3>1. CASE i \in DOMAIN file
      BY <1>1, <1>5, <3>1, Zenon DEF FileInv, Layout
    <3>2. CASE i = Len(file) + 1
      BY <1>1, <1>4, <1>5, <3>2, SMTT(30)
    <3>3. QED
      BY <1>6, <3>1, <3>2, Zenon
  <2>2. ASSUME NEW i \in DOMAIN file', NEW j \in DOMAIN file', i < j
        PROVE  file'[i].stop <= file'[j].start
    <3>1. i \in DOMAIN file
      BY <1>5, <1>6, <2>2, SMTT(30)
    <3>2. CASE j \in DOMAIN file
      BY <1>1, <1>5, <2>2, <3>1, <3>2, Zenon DEF FileInv, Layout
    <3>3. CASE j = Len(file) + 1
      BY <1>1, <1>4, <1>5, <3>1, <3>3, StopBound, Zenon DEF FileInv
    <3>4. QED
      BY <1>6, <3>2, <3>3, Zenon
  <2>3. QED
    BY <2>1, <2>2, Zenon DEF Layout
<1>8. AckedSynced(file', synced)
  BY <1>1, <1>4, <1>5, <1>6, Zenon DEF FileInv, AckedSynced
<1>9. ~spoiled' => Intact(file')
  <2>1. SUFFICES ASSUME ~spoiled', NEW i \in DOMAIN file'
                 PROVE  /\ file'[i].seq = i
                        /\ i < Len(file') \/ file'[i].acked => Whole(file'[i])
    BY Zenon DEF Intact
  <2>2. ~spoiled /\ nextSeq[u] = Len(file) + 1 /\ (file = <<>> \/ Whole(file[Len(file)]))
    BY <1>1, <1>2, <2>1, ZenonT(60) DEF WrongPlace
  <2>3. CASE i \in DOMAIN file
    <3>1. file[i].seq = i /\ (i < Len(file) => Whole(file[i]))
      BY <1>1, <2>2, <2>3, Zenon DEF FileInv, Intact
    <3>2. i = Len(file) => Whole(file[i])
      BY <1>1, <2>2, <2>3
    <3>3. i \in 1 .. Len(file)
      BY <1>5, <2>3, Zenon
    <3>4. QED
      BY <1>5, <2>3, <3>1, <3>2, <3>3, SMTT(30)
  <2>4. CASE i = Len(file) + 1
    BY <1>4, <1>5, <2>2, <2>4
  <2>5. QED
    BY <1>6, <2>3, <2>4, Zenon
<1>10. FileInv'
  BY <1>2, <1>7, <1>8, <1>9, Zenon DEF FileInv
<1>11. UserInv(u)'
  BY <1>3, <1>4, <1>5 DEF UserInv, Last
<1>12. QED
  BY <1>2, <1>10, <1>11, Bystander, Zenon

\* The frame is complete.
LEMMA WriteRestStep ==
    ASSUME IInv, NEW u \in Users, WriteRest(u)
    PROVE  FileInv' /\ \A v \in Users : UserInv(v)'
<1> DEFINE n == Len(file)
           f == Completed(file[n])
<1>1. /\ TypeInv /\ file \in Seq(Chunk) /\ FileInv /\ UserInv(u)
      /\ st[u] \in {"writing", "reconciling"}
      /\ file' = [file EXCEPT ![n] = f]
      /\ synced' = synced /\ spoiled' = spoiled
      /\ \E s \in {"reconcile", "syncing"} : st' = [st EXCEPT ![u] = s]
  BY Zenon DEF WriteRest, IInv, TypeInv, Enter
<1>2. st'[u] \in {"reconcile", "syncing"}
  BY <1>1, Zenon DEF TypeInv
<1>3. file # <<>> /\ ~file[n].acked
  BY <1>1, Zenon DEF UserInv, Last
<1>4. n \in DOMAIN file /\ n \in Nat /\ file[n] \in Chunk /\ DOMAIN file = 1 .. n
  BY <1>1, <1>3
<1>5. /\ f.start = file[n].start /\ f.stop = file[n].start + file[n].size
      /\ f.size = file[n].size /\ f.seq = file[n].seq /\ f.acked = file[n].acked
      /\ Whole(f) /\ f.start < f.stop /\ f.stop <= f.start + f.size
  <2>1. file[n].start \in Nat /\ file[n].size \in Nat /\ 0 < file[n].size
    BY <1>4, DataDirAssumption, Zenon DEF Chunk
  <2>2. QED
    BY <1>4, <2>1 DEF Completed, Chunk, Whole
<1>6. /\ Len(file') = n /\ DOMAIN file' = DOMAIN file /\ file'[n] = f
      /\ \A i \in DOMAIN file : i # n => file'[i] = file[i] /\ i < n
  BY <1>1, <1>4, SMTT(30)
<1> HIDE DEF f, n
<1>7. Layout(file')
  <2>1. \A i \in DOMAIN file' : /\ file'[i].start < file'[i].stop
                                /\ file'[i].stop <= file'[i].start + file'[i].size
    BY <1>1, <1>5, <1>6, Zenon DEF FileInv, Layout
  <2>2. ASSUME NEW i \in DOMAIN file', NEW j \in DOMAIN file', i < j
        PROVE  file'[i].stop <= file'[j].start
    <3>1. i # n /\ i \in DOMAIN file /\ j \in DOMAIN file
      BY <1>4, <1>6, <2>2, SMTT(30)
    <3>2. file'[i] = file[i] /\ file'[j].start = file[j].start
      BY <1>5, <1>6, <3>1, Zenon
    <3>3. file[i].stop <= file[j].start
      BY <1>1, <2>2, <3>1, Zenon DEF FileInv, Layout
    <3>4. QED
      BY <3>2, <3>3, Zenon
  <2>3. QED
    BY <2>1, <2>2, Zenon DEF Layout
<1>8. AckedSynced(file', synced')
  BY <1>1, <1>3, <1>5, <1>6, Zenon DEF FileInv, AckedSynced
<1>9. ~spoiled => /\ Intact(file')
                  /\ \A i \in DOMAIN file' : Whole(file'[i])
  <2>1. SUFFICES ASSUME ~spoiled, NEW i \in DOMAIN file'
                 PROVE  file'[i].seq = i /\ Whole(file'[i])
    BY Zenon DEF Intact
  <2>2. CASE i = n
    BY <1>1, <1>4, <1>5, <1>6, <2>1, <2>2, Zenon DEF FileInv, Intact
  <2>3. CASE i # n
    BY <1>1, <1>6, <2>1, <2>3, Zenon DEF FileInv, Intact, n
  <2>4. QED
    BY <2>2, <2>3, Zenon
<1>10. FileInv'
  BY <1>1, <1>7, <1>8, <1>9, Zenon DEF FileInv
<1>11. UserInv(u)'
  <2>1. file' # <<>>
    BY <1>4, <1>6
  <2>2. Last' = f
    BY <1>6, Zenon DEF Last
  <2>3. QED
    BY <1>1, <1>2, <1>3, <1>5, <1>9, <2>1, <2>2, Zenon DEF UserInv
<1>12. QED
  BY <1>1, <1>10, <1>11, Bystander, ZenonT(60) DEF Active

\* Frames are acknowledged, all of them or the last.
LEMMA AckSteps ==
    ASSUME IInv, NEW u \in Users, FinishRecovery(u) \/ SyncData(u)
    PROVE  FileInv' /\ \A v \in Users : UserInv(v)'
<1>1. /\ TypeInv /\ file \in Seq(Chunk) /\ FileInv /\ UserInv(u)
      /\ Active(u) /\ st' = [st EXCEPT ![u] = "open"] /\ spoiled' = spoiled
  BY Zenon DEF FinishRecovery, SyncData, IInv, TypeInv, Enter, Active
<1>2. st'[u] = "open"
  BY <1>1, Zenon DEF TypeInv
<1>3. \A i \in DOMAIN file : file[i] \in Chunk
  BY <1>1, SMTT(30)
<1>4. /\ file' \in Seq(Chunk) /\ DOMAIN file' = DOMAIN file
      /\ \A i \in DOMAIN file : file'[i] \in {file[i], AckedFrame(file[i])}
      /\ synced' = Bytes(file')
      /\ ~spoiled => \A i \in DOMAIN file :
             file'[i] = AckedFrame(file[i]) => file[i] = file'[i] \/ Whole(file[i])
  <2>1. CASE FinishRecovery(u)
    <3>1. file' = [i \in DOMAIN file |-> AckedFrame(file[i])] /\ synced' = Bytes(file')
      BY <2>1, Zenon DEF FinishRecovery, Sync
    <3>2. ~spoiled => \A i \in DOMAIN file : Whole(file[i])
      BY <1>1, <2>1, Zenon DEF FinishRecovery, UserInv
    <3>3. file' \in Seq(Chunk)
      <4>1. \A i \in 1 .. Len(file) : AckedFrame(file[i]) \in Chunk
        BY <1>1, ChunkTypes
      <4>2. file' = [i \in 1 .. Len(file) |-> AckedFrame(file[i])]
        BY <1>1, <3>1, SMTT(30)
      <4>3. QED
        BY <1>1, <4>1, <4>2
    <3>4. QED
      BY <3>1, <3>2, <3>3, Zenon
  <2>2. CASE SyncData(u)
    <3>1. /\ file' = [file EXCEPT ![Len(file)] = AckedFrame(file[Len(file)])]
          /\ synced' = Bytes(file')
          /\ file # <<>> /\ Whole(file[Len(file)])
      BY <1>1, <2>2, Zenon DEF SyncData, Sync, UserInv, Last
    <3>2. Len(file) \in DOMAIN file
      BY <1>1, <3>1
    <3>3. AckedFrame(file[Len(file)]) \in Chunk
      BY <1>1, <3>2, ChunkTypes, Zenon
    <3>4. QED
      BY <1>1, <3>1, <3>2, <3>3, SMTT(30)
  <2>3. QED
    BY <2>1, <2>2, ZenonT(60)
<1>5. ASSUME NEW i \in DOMAIN file
      PROVE  /\ file'[i].start = file[i].start /\ file'[i].stop = file[i].stop
             /\ file'[i].size = file[i].size /\ file'[i].seq = file[i].seq
  BY <1>3, <1>4, ZenonT(60) DEF AckedFrame, Chunk
<1>6. Layout(file')
  BY <1>1, <1>4, <1>5, Zenon DEF FileInv, Layout
<1>7. AckedSynced(file', synced')
  BY <1>4, <1>6, StopBound, Zenon DEF AckedSynced
<1>8. ~spoiled => Intact(file')
  <2>1. Len(file') = Len(file)
    BY <1>1, <1>4, SameLength, ZenonT(60)
  <2>2. SUFFICES ASSUME ~spoiled, NEW i \in DOMAIN file
                 PROVE  /\ file'[i].seq = i
                        /\ i < Len(file) \/ file'[i].acked => Whole(file'[i])
    BY <1>4, <2>1, Zenon DEF Intact
  <2>3. Whole(file'[i]) <=> Whole(file[i])
    BY <1>5, Zenon DEF Whole
  <2>4. file[i].seq = i /\ (i < Len(file) \/ file[i].acked => Whole(file[i]))
    BY <1>1, <2>2, Zenon DEF FileInv, Intact
  <2>5. file'[i].acked /\ ~file[i].acked => Whole(file[i])
    BY <1>4, <2>2, Zenon
  <2>6. QED
    BY <1>5, <2>3, <2>4, <2>5, Zenon
<1>9. QED
  BY <1>1, <1>2, <1>6, <1>7, <1>8, Bystander, ZenonT(60) DEF FileInv, UserInv

\* What a power loss leaves.
LEMMA PowerLossStep ==
    ASSUME IInv, PowerLoss
    PROVE  FileInv' /\ \A v \in Users : UserInv(v)'
<1>1. /\ TypeInv /\ file \in Seq(Chunk) /\ FileInv /\ synced \in Nat
      /\ spoiled' = spoiled /\ synced' = synced
      /\ st' = [u \in Users |-> "idle"]
  BY Zenon DEF PowerLoss, IInv, TypeInv
<1>2. \A v \in Users : UserInv(v)'
  BY <1>1, Zenon DEF UserInv
<1>3. CASE file' = <<>>
  <2>1. DOMAIN file' = {}
    BY <1>3, SMTT(30)
  <2>2. QED
    BY <1>2, <2>1, Zenon DEF FileInv, Layout, AckedSynced, Intact
<1>4. ASSUME NEW k \in 1 .. Len(file), NEW n \in file[k].start + 1 .. file[k].stop,
             synced <= n, file' = CutAt(k, n)
      PROVE  FileInv'
  <2>1. \A i \in DOMAIN file : file[i] \in Chunk
    BY <1>1
  <2>2. file[k].start \in Nat /\ file[k].stop \in Nat /\ file[k].size \in Nat /\ n \in Nat
    <3>1. file[k] \in Chunk
      BY <1>1
    <3>2. file[k].start \in Nat /\ file[k].stop \in Nat /\ file[k].size \in Nat
      BY <3>1, DataDirAssumption, Zenon DEF Chunk
    <3>3. QED
      BY <3>2, SMTT(30)
  <2>3. /\ DOMAIN file' = 1 .. k /\ Len(file') = k
        /\ \A i \in 1 .. k : i \in DOMAIN file /\ (i # k => file'[i] = file[i] /\ i < k)
        /\ file'[k] = [file[k] EXCEPT !.stop = n]
    BY <1>1, <1>4 DEF CutAt
  <2>4. /\ file'[k].start = file[k].start /\ file'[k].stop = n
        /\ file'[k].size = file[k].size /\ file'[k].seq = file[k].seq
        /\ file'[k].acked = file[k].acked
    BY <2>1, <2>3 DEF Chunk
  <2>5. Layout(file')
    <3>1. ASSUME NEW i \in 1 .. k
          PROVE  /\ file'[i].start < file'[i].stop
                 /\ file'[i].stop <= file'[i].start + file'[i].size
      <4>1. CASE i = k
        <5>1. file[k].stop <= file[k].start + file[k].size
          BY <1>1 DEF FileInv, Layout
        <5>2. QED
          BY <2>2, <2>4, <4>1, <5>1, SMTT(30)
      <4>2. CASE i # k
        BY <1>1, <2>3, <4>2, Zenon DEF FileInv, Layout
      <4>3. QED
        BY <4>1, <4>2, Zenon
    <3>2. ASSUME NEW i \in 1 .. k, NEW j \in 1 .. k, i < j
          PROVE  file'[i].stop <= file'[j].start
      <4>0. i # k
        BY <3>2
      <4>1. file'[j].start = file[j].start
        BY <2>3, <2>4, Zenon
      <4>2. file[i].stop <= file[j].start
        BY <1>1, <2>3, <3>2, Zenon DEF FileInv, Layout
      <4>3. QED
        BY <2>3, <4>0, <4>1, <4>2, Zenon
    <3>3. QED
      BY <2>3, <3>1, <3>2, Zenon DEF Layout
  <2>6. file[k].acked => n = file[k].stop
    BY <1>1, <1>4, <2>2, SMTT(30) DEF FileInv, AckedSynced
  <2>7. AckedSynced(file', synced)
    <3>1. SUFFICES ASSUME NEW i \in 1 .. k, file'[i].acked PROVE file'[i].stop <= synced
      BY <2>3, Zenon DEF AckedSynced
    <3>2. file[i].acked /\ file'[i].stop = file[i].stop
      BY <2>3, <2>4, <2>6, <3>1, ZenonT(60)
    <3>3. QED
      BY <1>1, <2>3, <3>2, Zenon DEF FileInv, AckedSynced
  <2>8. ~spoiled => Intact(file')
    <3>1. SUFFICES ASSUME ~spoiled, NEW i \in 1 .. k
                   PROVE  /\ file'[i].seq = i
                          /\ i < k \/ file'[i].acked => Whole(file'[i])
      BY <2>3, Zenon DEF Intact
    <3>2. /\ file[i].seq = i
          /\ i < Len(file) \/ file[i].acked => Whole(file[i])
      BY <1>1, <2>3, <3>1, Zenon DEF FileInv, Intact
    <3>3. CASE i = k
      BY <2>4, <2>6, <3>2, <3>3 DEF Whole
    <3>4. CASE i # k
      BY <1>1, <2>3, <3>2, <3>4, SMTT(30)
    <3>5. QED
      BY <3>3, <3>4, Zenon
  <2>9. QED
    BY <1>1, <2>5, <2>7, <2>8, Zenon DEF FileInv
<1>5. CASE file' # <<>>
  <2>1. PICK k \in 0 .. Len(file) :
           \E n \in IF k = 0 THEN {0} ELSE file[k].start + 1 .. file[k].stop :
               synced <= n /\ file' = CutAt(k, n)
    BY <1>5, Zenon DEF PowerLoss
  <2>2. k # 0
    BY <1>5, <2>1 DEF CutAt
  <2>3. QED
    BY <1>1, <1>2, <1>4, <2>1, <2>2, SMTT(30)
<1>6. QED
  BY <1>3, <1>5, Zenon

-----------------------------------------------------------------------------
\* Every step keeps the invariant.
LEMMA StepInv == IInv /\ [Next]_vars => IInv'
<1> SUFFICES ASSUME IInv, [Next]_vars PROVE IInv'
  BY Zenon
<1>1. CASE Next
  <2>1. TypeInv'
    BY <1>1, ControlTypes, FileTypes, PowerLossTypes, Zenon DEF Next, IInv
  <2>2. LockInv' /\ CallInv'
    BY <1>1, <2>1, LockStep, Zenon
  <2>3. FileInv' /\ \A v \in Users : UserInv(v)'
    BY <1>1, PlainSteps, ReadStep, AcceptStep, FinishScanStep, SyncSteps, RepairStep,
       RepairFailsStep, WriteSomeStep, WriteRestStep, AckSteps, PowerLossStep, Zenon
    DEF Next
  <2>4. QED
    BY <2>1, <2>2, <2>3, Zenon DEF IInv
<1>2. CASE UNCHANGED vars
  <2>1. UNCHANGED <<header, file, synced, lock, st, caller, closing, seen, pos, outcome,
                    nextSeq, spoiled>>
    BY <1>2, Zenon DEF vars, fileVars, scanVars
  <2>2. TypeInv' /\ LockInv' /\ CallInv' /\ FileInv'
    BY <2>1, Zenon DEF IInv, TypeInv, LockInv, CallInv, FileInv, Active
  <2>3. ASSUME NEW v \in Users PROVE UserInv(v)'
    <3>1. UserInv(v)
      BY Zenon DEF IInv
    <3>2. Scanned(v)' <=> Scanned(v)
      BY <2>1, Zenon DEF Scanned
    <3>3. Ended(v)' <=> Ended(v)
      BY <2>1, Zenon DEF Ended, FrameAccepted, Following
    <3>4. QED
      BY <2>1, <3>1, <3>2, <3>3, Zenon DEF UserInv, Last
  <2>4. QED
    BY <2>2, <2>3, Zenon DEF IInv
<1>3. QED
  BY <1>1, <1>2, Zenon

\* The inductive invariant of DataDir.
LEMMA Invariant == Spec => []IInv
BY InitInv, StepInv, PTL DEF Spec

-----------------------------------------------------------------------------
\* LOCK works: as long as a reader uses what it read, wal.log is what it read.
THEOREM ScansAreCurrent == Spec => []ScanIsCurrent
<1>1. IInv => ScanIsCurrent
  BY Zenon DEF IInv, UserInv, Scanned, ScanIsCurrent
<1>2. QED
  BY <1>1, Invariant, PTL

\* A user whose call has returned leaves LOCK free.
THEOREM ReturnReleases == Spec => []ReleasedWhenReturned
<1>1. IInv => ReleasedWhenReturned
  BY Zenon DEF IInv, CallInv, LockInv, Active, ReleasedWhenReturned
<1>2. QED
  BY <1>1, Invariant, PTL

\* The frames accepted from the front are unique.
LEMMA GoodPrefixIs ==
    ASSUME NEW s, Len(s) \in Nat, NEW k \in 0 .. Len(s),
           \A i \in 1 .. k : s[i].whole /\ s[i].seq = i,
           k < Len(s) => ~s[k + 1].whole \/ s[k + 1].seq # k + 1
    PROVE  GoodPrefix(s) = k
<1> DEFINE Good(g) == /\ \A i \in 1 .. g : s[i].whole /\ s[i].seq = i
                      /\ g < Len(s) => ~s[g + 1].whole \/ s[g + 1].seq # g + 1
<1>1. Good(k)
  BY Zenon
<1>2. ASSUME NEW g \in 0 .. Len(s), Good(g) PROVE g = k
  <2>1. CASE g < k
    <3>1. g + 1 \in 1 .. k /\ g < Len(s)
      BY <2>1, SMTT(30)
    <3>2. QED
      BY <1>2, <3>1, Zenon
  <2>2. CASE k < g
    <3>1. k + 1 \in 1 .. g /\ k < Len(s)
      BY <2>2
    <3>2. QED
      BY <1>2, <3>1, Zenon
  <2>3. QED
    BY <2>1, <2>2, SMTT(30)
<1>3. GoodPrefix(s) = CHOOSE g \in 0 .. Len(s) : Good(g)
  BY Zenon DEF GoodPrefix
<1> HIDE DEF Good
<1>4. QED
  BY <1>1, <1>2, <1>3, Zenon

\* scan_frames, byte by byte, does what FrameScan says of frames, whatever the
\* file holds.  Recovery is built on that.
THEOREM ScansMatchFrames == Spec => []ScanMatchesFrames
<1>1. IInv => ScanMatchesFrames
  <2>1. SUFFICES ASSUME IInv, NEW u \in Users, st[u] = "scanned", Kind[u] # "writer"
                 PROVE  LET s == Frames(seen[u])
                        IN /\ pos[u] = GoodPrefix(s)
                           /\ outcome[u] = "clean" <=> GoodPrefix(s) = Len(s)
                           /\ outcome[u] = "truncated" => TruncatedTail(s)
                           /\ outcome[u] = "corrupt" => ScanFails(s)
    BY Zenon DEF ScanMatchesFrames
  <2> DEFINE s == Frames(seen[u])
             p == pos[u]
  <2>2. /\ seen[u] = file /\ file \in Seq(Chunk) /\ p \in Nat /\ p <= Len(file)
        /\ Scanned(u) /\ Ended(u)
    BY <2>1, Zenon DEF IInv, TypeInv, UserInv, Scanned
  <2>3. /\ Len(s) = Len(file) /\ Len(s) \in Nat
        /\ \A i \in 1 .. Len(file) : s[i].whole = Whole(file[i]) /\ s[i].seq = file[i].seq
    BY <2>2, FramesOf, ZenonT(60)
  <2>4. \A i \in 1 .. p : s[i].whole /\ s[i].seq = i
    BY <2>1, <2>2, <2>3, SMTT(30) DEF Scanned
  <2>5. ASSUME p < Len(s)
        PROVE  /\ p + 1 \in 1 .. Len(file)
               /\ ~s[p + 1].whole \/ s[p + 1].seq # p + 1
    <3>1. p + 1 \in 1 .. Len(file) /\ outcome[u] # "clean"
      BY <2>2, <2>3, <2>5, SMTT(30) DEF Ended
    <3>2. ~(Whole(file[p + 1]) /\ file[p + 1].seq = p + 1)
      BY <2>1, <2>2, <2>3, <2>5, <3>1, Zenon DEF Ended, FrameAccepted, Following
    <3>3. QED
      BY <2>3, <3>1, <3>2, Zenon
  <2>6. GoodPrefix(s) = p
    <3> HIDE DEF s, p
    <3>1. p \in 0 .. Len(s)
      BY <2>2, <2>3, SMTT(30)
    <3>2. QED
      BY <2>3, <2>4, <2>5, <3>1, GoodPrefixIs, Zenon
  <2>7. outcome[u] = "clean" <=> p = Len(s)
    BY <2>2, <2>3, Zenon DEF Ended
  <2>8. /\ outcome[u] = "truncated" => ~Whole(file[p + 1])
        /\ outcome[u] = "corrupt" => Whole(file[p + 1]) \/ p + 1 < Len(file)
    BY <2>2, Zenon DEF Ended
  <2> HIDE DEF s, p
  <2>9. ASSUME outcome[u] # "clean"
        PROVE  p < Len(s) /\ s[p + 1].whole = Whole(file[p + 1])
    <3>1. p \in Nat /\ Len(s) \in Nat /\ p <= Len(s)
      BY <2>2, <2>3, Zenon
    <3>2. p # Len(s)
      BY <2>7, <2>9, Zenon
    <3>3. p < Len(s)
      BY <3>1, <3>2, SMTT(30)
    <3>4. QED
      BY <2>3, <2>5, <3>3, Zenon
  <2>10. /\ p = GoodPrefix(s)
         /\ outcome[u] = "clean" <=> GoodPrefix(s) = Len(s)
         /\ outcome[u] = "truncated" => TruncatedTail(s)
         /\ outcome[u] = "corrupt" => ScanFails(s)
    BY <2>3, <2>6, <2>7, <2>8, <2>9, Zenon DEF TruncatedTail, ScanFails
  <2>11. QED
    BY <2>10, Zenon DEF s, p
<1>2. QED
  BY <1>1, Invariant, PTL

\* What was acknowledged is found by every later user, as long as no frame was
\* appended behind a torn one or under a used number: locking, repair, reopening,
\* kills and power losses alone never lose it.
THEOREM AckedFramesAreFound == Spec => []AckedAreFound
<1>1. IInv => AckedAreFound
  <2>1. SUFFICES ASSUME IInv, ~spoiled, NEW u \in Users, st[u] = "scanned"
                 PROVE  /\ outcome[u] # "corrupt"
                        /\ \A i \in DOMAIN file : file[i].acked => i <= pos[u]
    BY Zenon DEF AckedAreFound
  <2>2. /\ seen[u] = file /\ file \in Seq(Chunk) /\ pos[u] \in Nat /\ pos[u] <= Len(file)
        /\ Scanned(u) /\ Ended(u) /\ Intact(file) /\ Len(file) \in Nat
        /\ DOMAIN file = 1 .. Len(file)
    <3>1. TypeInv /\ FileInv /\ UserInv(u)
      BY <2>1, Zenon DEF IInv
    <3>2. file \in Seq(Chunk) /\ pos[u] \in Nat
      BY <3>1, Zenon DEF TypeInv
    <3>3. Scanned(u) /\ Ended(u) /\ Intact(file)
      BY <2>1, <3>1, Zenon DEF UserInv, FileInv
    <3>4. seen[u] = file /\ pos[u] <= Len(file)
      BY <3>3, ZenonT(60) DEF Scanned
    <3>5. QED
      BY <3>2, <3>3, <3>4, FramesOf, Zenon
  <2>3. CASE pos[u] = Len(file)
    <3>1. outcome[u] = "clean"
      BY <2>2, <2>3, Zenon DEF Ended
    <3>2. \A i \in DOMAIN file : i <= Len(file)
      BY <2>2, SMTT(30)
    <3>3. QED
      BY <2>3, <3>1, <3>2, Zenon
  <2>4. CASE pos[u] < Len(file)
    <3>1. pos[u] + 1 \in DOMAIN file /\ outcome[u] # "clean"
      BY <2>2, <2>4, SMTT(30) DEF Ended
    <3>2. ~Whole(file[pos[u] + 1])
      BY <2>2, <2>4, <3>1, Zenon DEF Ended, FrameAccepted, Following, Intact
    <3>3. pos[u] + 1 = Len(file) /\ ~file[pos[u] + 1].acked
      BY <2>2, <3>1, <3>2 DEF Intact
    <3>4. outcome[u] # "corrupt"
      <4>1. ~(pos[u] + 1 < Len(file))
        BY <2>2, <3>3, SMTT(30)
      <4>2. QED
        BY <2>2, <3>2, <4>1, Zenon DEF Ended
    <3>5. ASSUME NEW i \in DOMAIN file, file[i].acked PROVE i <= pos[u]
      BY <2>2, <3>3, <3>5
    <3>6. QED
      BY <3>4, <3>5, Zenon
  <2>5. QED
    BY <2>2, <2>3, <2>4, SMTT(30)
<1>2. QED
  BY <1>1, Invariant, PTL
=============================================================================
