------------------------ MODULE ErasureObjectProofs -------------------------
(* Proofs about ErasureObject, for any number of drives, data blocks, servers *)
(* and upload times, without updates of metadata in place (Tags = {0}), and   *)
(* that what was acknowledged is kept when healing does not remove dangling   *)
(* objects either (HealRemove = FALSE).                                       *)
EXTENDS ErasureObject, FiniteSetTheorems, TLAPS

(* Zenon is the default prover here; the steps that need arithmetic or the     *)
(* theory of functions and records cite SMT.                                  *)
USE Zenon

-----------------------------------------------------------------------------
(* Quorum arithmetic and counting.                                            *)

\* Write and delete quorums are majorities, and so many stale drives as a
\* delete quorum leaves do not have the data blocks that a read needs.
LEMMA Quorums ==
  /\ N \in Nat /\ WriteQuorum(DataBlocks) \in Nat /\ DeleteQuorum \in Nat /\ DataBlocks \in Nat
  /\ DeleteQuorum <= WriteQuorum(DataBlocks)
  /\ DataBlocks <= WriteQuorum(DataBlocks)
  /\ WriteQuorum(DataBlocks) <= N
  /\ N - DeleteQuorum < DataBlocks
<1>1. N \in Nat
  BY QuorumAssumption, FS_CardinalityType DEF N
<1> DEFINE n == N
<1>2. n \in Nat /\ n >= 2 /\ DataBlocks \in 1..n /\ 2 * DataBlocks >= n
  BY <1>1, QuorumAssumption
<1>3. WriteQuorum(DataBlocks) = IF DataBlocks = n - DataBlocks THEN DataBlocks + 1 ELSE DataBlocks
  BY DEF WriteQuorum, Parity
<1>4. DeleteQuorum = n \div 2 + 1
  BY DEF DeleteQuorum
<1> HIDE DEF n
<1>5. n \div 2 \in Nat /\ 2 * (n \div 2) <= n /\ n < 2 * (n \div 2) + 2
  BY SMT, <1>2
<1>6. /\ n \in Nat /\ WriteQuorum(DataBlocks) \in Nat /\ DeleteQuorum \in Nat /\ DataBlocks \in Nat
      /\ DeleteQuorum <= WriteQuorum(DataBlocks)
      /\ DataBlocks <= WriteQuorum(DataBlocks)
      /\ WriteQuorum(DataBlocks) <= n
      /\ n - DeleteQuorum < DataBlocks
  BY SMT, <1>2, <1>3, <1>4, <1>5
<1> QED
  BY <1>6 DEF n

\* A set of drives is finite, and not larger than a set that contains it.
LEMMA Counting ==
  ASSUME NEW A \in SUBSET Disks, NEW B, B \subseteq A
  PROVE  /\ IsFiniteSet(A) /\ IsFiniteSet(B)
         /\ Cardinality(A) \in Nat /\ Cardinality(B) \in Nat
         /\ Cardinality(B) <= Cardinality(A)
<1>1. IsFiniteSet(Disks)
  BY QuorumAssumption
<1>2. IsFiniteSet(A)
  BY <1>1, FS_Subset
<1>3. IsFiniteSet(B) /\ Cardinality(B) <= Cardinality(A)
  BY <1>2, FS_Subset
<1> QED
  BY <1>2, <1>3, FS_CardinalityType

\* The drives that do not belong to a set with a quorum.
LEMMA Rest ==
  ASSUME NEW A \in SUBSET Disks, NEW B \in SUBSET Disks, A \cap B = {}, NEW q \in Nat,
         Cardinality(A) >= q
  PROVE  Cardinality(B) <= N - q
<1>1. IsFiniteSet(Disks)
  BY QuorumAssumption
<1>2. IsFiniteSet(A) /\ Cardinality(A) \in Nat
  BY Counting
<1>3. Cardinality(Disks \ A) = Cardinality(Disks) - Cardinality(Disks \cap A)
  BY <1>1, <1>2, FS_Difference
<1>4. Disks \cap A = A
  OBVIOUS
<1>5. PICK C : C = Disks \ A
  OBVIOUS
<1>6. C \in SUBSET Disks /\ B \subseteq C
  BY <1>5
<1>7. Cardinality(B) \in Nat /\ Cardinality(B) <= Cardinality(C)
  BY <1>6, Counting
<1>8. Cardinality(C) = N - Cardinality(A)
  BY <1>3, <1>4, <1>5 DEF N
<1> QED
  BY SMT, <1>2, <1>7, <1>8, Quorums

-----------------------------------------------------------------------------
(* The inductive invariant for reads.                                         *)

\* Who works on the drives holds the write lock, but for those who remove.
LockInv ==
  \A p \in Procs :
    /\ pc[p] \in {"rename", "delete", "heal"} => writer = p
    /\ pc[p] # "tag"

\* What an operation writes is possible, and where its call succeeded it is in
\* place, unless someone removed it.
WrittenInv ==
  \A p \in Procs :
    /\ pc[p] = "rename" => /\ val[p] \in FileInfo \cap possible
                          /\ \A d \in oks[p] : meta[d] \in {val[p], Absent}
    /\ pc[p] = "delete" => /\ Absent \in possible
                          /\ \A d \in oks[p] : meta[d] = Absent
    /\ pc[p] = "heal" => val[p] \in FileInfo \cap possible

\* Drives with a version that is no longer a possible one.
Stale == {d \in Disks : meta[d] \notin possible \cup {Absent}}

StaleFew == Cardinality(Stale) <= N - DeleteQuorum

ReadInv == TypeOK /\ LockInv /\ WrittenInv /\ StaleFew

\* What has read quorum among the replies is not stale.
LEMMA PickIsPossible ==
  ASSUME TypeOK, StaleFew, NEW up \in SUBSET Disks, NEW x,
         NEW fi \in PickValidFileInfo(View(up), x)
  PROVE  fi \in FileInfo /\ fi \in possible
<1> DEFINE seen == View(up)
           H == Holders(seen, fi)
<1>1. PICK d \in Disks : d \in Found(seen) /\ fi = seen[d]
  BY DEF PickValidFileInfo, OnlineDisks, Found
<1>2. fi # Absent /\ fi # Offline
  BY <1>1 DEF Found
<1>3. \A e \in Disks : seen[e] = fi => meta[e] = fi
  BY <1>2 DEF View
<1>4. fi \in FileInfo
  BY <1>1, <1>2, <1>3 DEF TypeOK, Value
<1>5. Cardinality(H) >= DataBlocks
  BY DEF PickValidFileInfo
<1>6. SUFFICES ASSUME fi \notin possible PROVE FALSE
  BY <1>4
<1>7. H \subseteq Stale
  BY <1>2, <1>3, <1>6 DEF Holders, Stale
<1>8. Stale \in SUBSET Disks
  BY DEF Stale
<1> HIDE DEF H
<1>9. Cardinality(H) \in Nat /\ Cardinality(Stale) \in Nat /\ Cardinality(H) <= Cardinality(Stale)
  BY <1>7, <1>8, Counting
<1> QED
  BY SMT, <1>5, <1>9, Quorums DEF StaleFew

\* The step keeps StaleFew if no drive gets a value that is not possible.
LEMMA StaleKept ==
  ASSUME StaleFew, possible \subseteq possible',
         \A d \in Disks : meta'[d] \in {meta[d], Absent} \cup possible'
  PROVE  StaleFew'
<1>1. Stale' \subseteq Stale /\ Stale \in SUBSET Disks
  BY DEF Stale
<1>2. PICK B : B = Stale'
  OBVIOUS
<1>3. Cardinality(B) \in Nat /\ Cardinality(Stale) \in Nat /\ Cardinality(B) <= Cardinality(Stale)
  BY <1>1, <1>2, Counting
<1> QED
  BY SMT, <1>2, <1>3, Quorums DEF StaleFew

\* The step keeps StaleFew if a quorum has what is now the only value.
LEMMA StaleRenewed ==
  ASSUME NEW ds \in SUBSET Disks, NEW v, Cardinality(ds) >= DeleteQuorum,
         \A d \in ds : meta[d] \in {v, Absent},
         meta' = meta, possible' = {v}
  PROVE  StaleFew'
<1>1. PICK B : B = Stale'
  OBVIOUS
<1>2. B \in SUBSET Disks /\ ds \cap B = {}
  BY <1>1 DEF Stale
<1>3. Cardinality(B) <= N - DeleteQuorum
  BY <1>2, Rest, Quorums
<1> QED
  BY <1>1, <1>3 DEF StaleFew

-----------------------------------------------------------------------------
(* What the building blocks of the actions change.                            *)

Phases == {"idle", "rename", "delete", "tag", "purge", "hlock", "heal"}

OperationsTyped ==
  /\ pc \in [Procs -> Phases]
  /\ val \in [Procs -> Value]
  /\ todo \in [Procs -> SUBSET Disks]
  /\ oks \in [Procs -> SUBSET Disks]

\* Begin changes the phase, value and calls of p and of nobody else.
LEMMA BeginFrame ==
  ASSUME TypeOK, NEW p \in Procs, NEW ph \in Phases, NEW fi \in Value, NEW ds \in SUBSET Disks,
         Begin(p, ph, fi, ds)
  PROVE  /\ OperationsTyped'
         /\ pc'[p] = ph /\ val'[p] = fi /\ todo'[p] = ds /\ oks'[p] = {}
         /\ \A q \in Procs \ {p} : /\ pc'[q] = pc[q] /\ val'[q] = val[q]
                                   /\ todo'[q] = todo[q] /\ oks'[q] = oks[q]
<1>1. {} \in SUBSET Disks
  OBVIOUS
<1>2. pc' \in [Procs -> Phases] /\ val' \in [Procs -> Value]
  BY DEF TypeOK, Begin, Phases
<1>3. todo' \in [Procs -> SUBSET Disks] /\ oks' \in [Procs -> SUBSET Disks]
  BY <1>1 DEF TypeOK, Begin
<1>4. pc'[p] = ph /\ val'[p] = fi /\ todo'[p] = ds /\ oks'[p] = {}
  BY DEF TypeOK, Begin
<1>5. ASSUME NEW q \in Procs \ {p}
      PROVE  /\ pc'[q] = pc[q] /\ val'[q] = val[q]
             /\ todo'[q] = todo[q] /\ oks'[q] = oks[q]
  BY <1>5 DEF TypeOK, Begin
<1> QED
  BY <1>2, <1>3, <1>4, <1>5 DEF OperationsTyped

\* Finish makes p idle and releases its lock.
LEMMA FinishFrame ==
  ASSUME TypeOK, NEW p \in Procs, Finish(p)
  PROVE  /\ OperationsTyped'
         /\ writer' \in Procs \cup {NoProc} /\ readers' \subseteq Procs
         /\ pc'[p] = "idle"
         /\ \A q \in Procs \ {p} : /\ pc'[q] = pc[q] /\ val'[q] = val[q]
                                   /\ todo'[q] = todo[q] /\ oks'[q] = oks[q]
                                   /\ writer = q => writer' = q
<1>1. Begin(p, "idle", Absent, {}) /\ "idle" \in Phases /\ Absent \in Value /\ {} \in SUBSET Disks
  BY DEF Finish, Phases, Value
<1>2. /\ OperationsTyped'
      /\ pc'[p] = "idle"
      /\ \A q \in Procs \ {p} : /\ pc'[q] = pc[q] /\ val'[q] = val[q]
                                /\ todo'[q] = todo[q] /\ oks'[q] = oks[q]
  BY <1>1, BeginFrame
<1>3. /\ writer' \in Procs \cup {NoProc} /\ readers' \subseteq Procs
      /\ \A q \in Procs \ {p} : writer = q => writer' = q
  BY DEF Finish, TypeOK
<1> QED
  BY <1>2, <1>3

\* A call that returns moves its drive out of todo, into oks if it succeeded.
LEMMA ReturnedFrame ==
  ASSUME TypeOK, NEW p \in Procs, NEW d \in Disks, NEW ok \in BOOLEAN, Returned(p, d, ok)
  PROVE  /\ OperationsTyped'
         /\ pc' = pc /\ val' = val /\ used' = used /\ writer' = writer
         /\ readers' = readers /\ possible' = possible
         /\ todo'[p] = todo[p] \ {d}
         /\ oks'[p] \subseteq oks[p] \cup {d}
         /\ ~ok => oks'[p] = oks[p]
         /\ \A q \in Procs \ {p} : todo'[q] = todo[q] /\ oks'[q] = oks[q]
<1>1. PICK T : T = todo[p] \ {d}
  OBVIOUS
<1>2. PICK K : K = IF ok THEN oks[p] \cup {d} ELSE oks[p]
  OBVIOUS
<1>3. T \in SUBSET Disks /\ K \in SUBSET Disks
  BY <1>1, <1>2 DEF TypeOK
<1>4. todo' = [todo EXCEPT ![p] = T] /\ oks' = [oks EXCEPT ![p] = K]
  BY <1>1, <1>2 DEF Returned
<1>5. todo' \in [Procs -> SUBSET Disks] /\ oks' \in [Procs -> SUBSET Disks]
  BY <1>3, <1>4 DEF TypeOK
<1>6. todo'[p] = T /\ oks'[p] = K
  BY <1>4 DEF TypeOK
<1>7. \A q \in Procs \ {p} : todo'[q] = todo[q] /\ oks'[q] = oks[q]
  BY <1>4 DEF TypeOK
<1>8. /\ pc' = pc /\ val' = val /\ used' = used /\ writer' = writer
      /\ readers' = readers /\ possible' = possible
  BY DEF Returned, locks
<1>9. OperationsTyped'
  BY <1>5, <1>8 DEF OperationsTyped, TypeOK, Phases
<1> QED
  BY <1>1, <1>2, <1>6, <1>7, <1>8, <1>9

\* A call changes one drive, to what it leaves there.
LEMMA SetDriveFrame ==
  ASSUME TypeOK, NEW d \in Disks, NEW fi \in Value, NEW dirs \in SUBSET Times,
         SetDrive(d, fi, dirs)
  PROVE  /\ meta' \in [Disks -> Value]
         /\ data' \in [Disks -> SUBSET Times]
         /\ meta'[d] = fi /\ data'[d] = dirs
         /\ \A e \in Disks \ {d} : meta'[e] = meta[e] /\ data'[e] = data[e]
<1>1. meta' \in [Disks -> Value]
  BY DEF SetDrive, TypeOK
<1>2. data' \in [Disks -> SUBSET Times]
  BY DEF SetDrive, TypeOK
<1>3. meta'[d] = fi /\ data'[d] = dirs
  BY DEF SetDrive, TypeOK
<1>4. \A e \in Disks \ {d} : meta'[e] = meta[e] /\ data'[e] = data[e]
  BY DEF SetDrive, TypeOK
<1> QED
  BY <1>1, <1>2, <1>3, <1>4

\* The data directories a call may leave are upload times.
LEMMA DirsTyped ==
  ASSUME TypeOK, NEW d \in Disks, NEW fi \in FileInfo
  PROVE  KeptDirs(d) \in SUBSET Times /\ KeptDirs(d) \cup {fi.dir} \in SUBSET Times
<1>1. data[d] \in SUBSET Times /\ fi.dir \in Times
  BY DEF TypeOK, FileInfo
<1>2. KeptDirs(d) \subseteq data[d]
  BY DEF KeptDirs
<1> QED
  BY <1>1, <1>2

\* A failed rename leaves the drive with its old description or the new one.
LEMMA ResidueTyped ==
  ASSUME TypeOK, NEW d \in Disks, NEW v \in FileInfo,
         \E left \in RenameResidue(d, v) : SetDrive(d, left[1], left[2])
  PROVE  \E fi \in Value, dirs \in SUBSET Times : fi \in {meta[d], v} /\ SetDrive(d, fi, dirs)
<1>1. PICK left \in RenameResidue(d, v) : SetDrive(d, left[1], left[2])
  OBVIOUS
<1>2. /\ left[1] \in {meta[d], v}
      /\ left[2] \in {data[d], KeptDirs(d), KeptDirs(d) \cup {v.dir}}
  BY SMT DEF RenameResidue
<1>3. meta[d] \in Value /\ data[d] \in SUBSET Times /\ v \in Value
  BY DEF TypeOK, Value
<1>4. left[1] \in Value /\ left[2] \in SUBSET Times
  BY <1>2, <1>3, DirsTyped
<1> QED
  BY <1>1, <1>2, <1>4

-----------------------------------------------------------------------------
(* Each kind of step keeps ReadInv.                                           *)

\* A call of p to drive d leaves it with fi.
LEMMA CallKeepsReads ==
  ASSUME ReadInv, NEW p \in Procs, NEW d \in Disks, NEW ok \in BOOLEAN, Returned(p, d, ok),
         NEW fi \in Value, NEW dirs \in SUBSET Times, SetDrive(d, fi, dirs),
         fi \in {meta[d], Absent} \/ (pc[p] \in {"rename", "heal"} /\ fi = val[p]),
         ok /\ pc[p] = "rename" => fi = val[p],
         ok /\ pc[p] = "delete" => fi = Absent
  PROVE  ReadInv'
<1> USE DEF ReadInv
<1>1. /\ OperationsTyped'
      /\ pc' = pc /\ val' = val /\ used' = used /\ writer' = writer
      /\ readers' = readers /\ possible' = possible
      /\ oks'[p] \subseteq oks[p] \cup {d}
      /\ ~ok => oks'[p] = oks[p]
      /\ \A q \in Procs \ {p} : oks'[q] = oks[q]
  BY SMT, ReturnedFrame
<1>2. /\ meta' \in [Disks -> Value] /\ data' \in [Disks -> SUBSET Times]
      /\ meta'[d] = fi
      /\ \A e \in Disks \ {d} : meta'[e] = meta[e]
  BY SetDriveFrame
<1>3. TypeOK'
  BY <1>1, <1>2 DEF TypeOK, OperationsTyped, Phases
<1>4. LockInv'
  BY <1>1 DEF LockInv
<1>5. ASSUME NEW q \in Procs, q # p, pc[q] \in {"rename", "delete"}
      PROVE  \A e \in Disks : meta'[e] \in {meta[e], Absent}
  <2>1. pc[p] \notin {"rename", "heal"}
    BY <1>5 DEF LockInv
  <2> QED
    BY <1>2, <2>1
<1>6. oks \in [Procs -> SUBSET Disks]
  BY DEF TypeOK
<1>7. ASSUME NEW q \in Procs, pc[q] = "rename"
      PROVE  \A e \in oks'[q] : meta'[e] \in {val[q], Absent}
  <2>1. \A e \in oks[q] : e \in Disks /\ meta[e] \in {val[q], Absent}
    BY <1>6, <1>7 DEF WrittenInv
  <2>2. CASE q # p
    BY <1>1, <1>5, <1>7, <2>1, <2>2
  <2>3. CASE q = p
    BY <1>1, <1>2, <1>7, <2>1, <2>3
  <2> QED
    BY <2>2, <2>3
<1>8. ASSUME NEW q \in Procs, pc[q] = "delete"
      PROVE  \A e \in oks'[q] : meta'[e] = Absent
  <2>1. \A e \in oks[q] : e \in Disks /\ meta[e] = Absent
    BY <1>6, <1>8 DEF WrittenInv
  <2>2. CASE q # p
    BY <1>1, <1>5, <1>8, <2>1, <2>2
  <2>3. CASE q = p
    BY <1>1, <1>2, <1>8, <2>1, <2>3
  <2> QED
    BY <2>2, <2>3
<1>9. WrittenInv'
  BY <1>1, <1>7, <1>8 DEF WrittenInv
<1>10. pc[p] \in {"rename", "heal"} => val[p] \in possible
  BY DEF WrittenInv
<1>11. \A e \in Disks : meta'[e] \in {meta[e], Absent} \cup possible'
  BY <1>1, <1>2, <1>10
<1>12. StaleFew'
  BY <1>1, <1>11, StaleKept
<1> QED
  BY <1>3, <1>4, <1>9, <1>12

\* An operation enters a phase.
LEMMA BeginKeepsReads ==
  ASSUME ReadInv, NEW p \in Procs, NEW ph \in Phases, NEW fi \in Value, NEW ds \in SUBSET Disks,
         Begin(p, ph, fi, ds), UNCHANGED drives, used' \in SUBSET Times,
         writer' \in Procs \cup {NoProc}, readers' \in SUBSET Procs,
         writer' = writer \/ writer = NoProc,
         possible \subseteq possible', possible' \in SUBSET Value,
         ph # "tag", ph \in {"rename", "delete", "heal"} => writer' = p,
         ph \in {"rename", "heal"} => fi \in FileInfo \cap possible',
         ph = "delete" => Absent \in possible'
  PROVE  ReadInv'
<1> USE DEF ReadInv
<1>1. /\ OperationsTyped'
      /\ pc'[p] = ph /\ val'[p] = fi /\ oks'[p] = {}
      /\ \A q \in Procs \ {p} : pc'[q] = pc[q] /\ val'[q] = val[q] /\ oks'[q] = oks[q]
  BY SMT, BeginFrame
<1>2. meta' = meta /\ data' = data
  BY DEF drives
<1>3. TypeOK'
  BY <1>1, <1>2 DEF TypeOK, OperationsTyped, Phases
<1>4. LockInv'
  <2> SUFFICES ASSUME NEW q \in Procs
               PROVE  (pc'[q] \in {"rename", "delete", "heal"} => writer' = q) /\ pc'[q] # "tag"
    BY DEF LockInv
  <2>1. CASE q = p
    BY <1>1, <2>1
  <2>2. CASE q # p
    BY <1>1, <2>2, ObjectAssumption DEF LockInv
  <2> QED
    BY <2>1, <2>2
<1>5. WrittenInv'
  <2> SUFFICES ASSUME NEW q \in Procs
               PROVE  /\ pc'[q] = "rename" => /\ val'[q] \in FileInfo \cap possible'
                                             /\ \A d \in oks'[q] : meta'[d] \in {val'[q], Absent}
                      /\ pc'[q] = "delete" => /\ Absent \in possible'
                                             /\ \A d \in oks'[q] : meta'[d] = Absent
                      /\ pc'[q] = "heal" => val'[q] \in FileInfo \cap possible'
    BY DEF WrittenInv
  <2>1. CASE q = p
    BY <1>1, <2>1
  <2>2. CASE q # p
    BY <1>1, <1>2, <2>2 DEF WrittenInv
  <2> QED
    BY <2>1, <2>2
<1>6. StaleFew'
  BY <1>2, StaleKept
<1> QED
  BY <1>3, <1>4, <1>5, <1>6

\* An operation ends; only one that holds the lock has written or settled
\* what is possible.
LEMMA FinishKeepsReads ==
  ASSUME ReadInv, NEW p \in Procs, Finish(p),
         meta' \in [Disks -> Value], data' \in [Disks -> SUBSET Times],
         used' \in SUBSET Times, possible' \in SUBSET Value, StaleFew',
         writer = p \/ (meta' = meta /\ possible' = possible)
  PROVE  ReadInv'
<1> USE DEF ReadInv
<1>1. /\ OperationsTyped'
      /\ writer' \in Procs \cup {NoProc} /\ readers' \subseteq Procs
      /\ pc'[p] = "idle"
      /\ \A q \in Procs \ {p} : /\ pc'[q] = pc[q] /\ val'[q] = val[q] /\ oks'[q] = oks[q]
                                /\ writer = q => writer' = q
  BY FinishFrame
<1>2. TypeOK'
  BY <1>1 DEF TypeOK, OperationsTyped, Phases
<1>3. LockInv'
  <2> SUFFICES ASSUME NEW q \in Procs
               PROVE  (pc'[q] \in {"rename", "delete", "heal"} => writer' = q) /\ pc'[q] # "tag"
    BY DEF LockInv
  <2> QED
    BY <1>1 DEF LockInv
<1>4. ASSUME NEW q \in Procs, pc'[q] \in {"rename", "delete", "heal"}
      PROVE  /\ pc'[q] = pc[q] /\ val'[q] = val[q] /\ oks'[q] = oks[q]
             /\ meta' = meta /\ possible' = possible
  <2>1. q # p
    BY <1>1, <1>4
  <2>2. writer = q
    BY <1>1, <1>4, <2>1 DEF LockInv
  <2> QED
    BY <1>1, <2>1, <2>2
<1>5. WrittenInv'
  <2> SUFFICES ASSUME NEW q \in Procs, pc'[q] \in {"rename", "delete", "heal"}
               PROVE  /\ pc'[q] = "rename" => /\ val'[q] \in FileInfo \cap possible'
                                             /\ \A d \in oks'[q] : meta'[d] \in {val'[q], Absent}
                      /\ pc'[q] = "delete" => /\ Absent \in possible'
                                             /\ \A d \in oks'[q] : meta'[d] = Absent
                      /\ pc'[q] = "heal" => val'[q] \in FileInfo \cap possible'
    BY DEF WrittenInv
  <2> QED
    BY <1>4 DEF WrittenInv
<1> QED
  BY <1>2, <1>3, <1>5

\* Every call to a drive, successful or not, keeps ReadInv.
LEMMA CallsKeepReads ==
  ASSUME ReadInv, NEW p \in Procs, NEW d \in Disks,
         \/ RenameDone(p, d) \/ RenameFails(p, d)
         \/ DeleteVersionDone(p, d) \/ DeleteVersionFails(p, d)
         \/ UpdateMetadataDone(p, d) \/ UpdateMetadataFails(p, d) \/ UpdateMetadataTears(p, d)
  PROVE  ReadInv'
<1>1. /\ meta[d] \in Value /\ data[d] \in SUBSET Times /\ Absent \in Value /\ {} \in SUBSET Times
      /\ pc[p] \in {"rename", "heal"} => val[p] \in FileInfo
      /\ FileInfo \subseteq Value
      /\ pc[p] # "tag"
  BY DEF ReadInv, TypeOK, WrittenInv, LockInv, Value
<1>2. CASE RenameDone(p, d)
  <2>1. /\ pc[p] \in {"rename", "heal"} /\ Returned(p, d, TRUE)
        /\ SetDrive(d, val[p], KeptDirs(d) \cup {val[p].dir})
    BY <1>2 DEF RenameDone
  <2>2. val[p] \in Value /\ KeptDirs(d) \cup {val[p].dir} \in SUBSET Times
    BY <1>1, <2>1, DirsTyped DEF ReadInv
  <2> QED
    BY <2>1, <2>2, CallKeepsReads
<1>3. CASE RenameFails(p, d)
  <2>1. pc[p] = "rename" /\ Returned(p, d, FALSE)
    BY <1>3 DEF RenameFails
  <2>2. val[p] \in FileInfo
    BY <1>1, <2>1 DEF ReadInv
  <2>3. PICK fi \in Value, dirs \in SUBSET Times : fi \in {meta[d], val[p]} /\ SetDrive(d, fi, dirs)
    BY <1>1, <1>3, <2>2, ResidueTyped DEF RenameFails, ReadInv
  <2> QED
    BY <2>1, <2>3, CallKeepsReads
<1>4. CASE DeleteVersionDone(p, d)
  BY <1>1, <1>4, CallKeepsReads DEF DeleteVersionDone
<1>5. CASE DeleteVersionFails(p, d)
  <2>1. pc[p] \in {"delete", "purge"} /\ Returned(p, d, FALSE)
    BY <1>5 DEF DeleteVersionFails
  <2>2. SetDrive(d, meta[d], data[d]) \/ SetDrive(d, Absent, {})
    BY <1>5 DEF DeleteVersionFails, SetDrive, drives, ReadInv, TypeOK
  <2> QED
    BY <1>1, <2>1, <2>2, CallKeepsReads
<1> QED
  BY <1>1, <1>2, <1>3, <1>4, <1>5 DEF UpdateMetadataDone, UpdateMetadataFails, UpdateMetadataTears

\* Every operation that begins its calls keeps ReadInv.
LEMMA BeginningsKeepReads ==
  ASSUME ReadInv, NEW p \in Procs, NEW up \in SUBSET Disks,
         \/ \E t \in Times, enc \in SUBSET Disks : PutLock(p, t, enc)
         \/ DeleteLock(p, up) \/ GetDangling(p, up) \/ HealRead(p, up)
         \/ \E x \in Times : HealRewrite(p, up, x) \/ HealPurge(p, up, x)
         \/ HealGivesUp(p, up)
  PROVE  ReadInv'
<1>1. /\ Absent \in Value /\ FileInfo \subseteq Value
      /\ Disks \in SUBSET Disks /\ {} \in SUBSET Disks
      /\ {"idle", "rename", "delete", "purge", "hlock", "heal"} \subseteq Phases
      /\ used \in SUBSET Times /\ possible \in SUBSET Value /\ readers \in SUBSET Procs
      /\ writer \in Procs \cup {NoProc}
  BY DEF Value, Phases, ReadInv, TypeOK
<1>2. ASSUME NEW t \in Times, NEW enc \in SUBSET Disks, PutLock(p, t, enc) PROVE ReadInv'
  <2>1. PICK fi : fi = [time |-> t, dir |-> t, tag |-> 0]
    OBVIOUS
  <2>2. fi \in FileInfo
    BY <2>1, ObjectAssumption DEF FileInfo
  <2>3. /\ Begin(p, "rename", fi, enc) /\ possible' = possible \cup {fi}
        /\ used' = used \cup {t} /\ writer = NoProc /\ writer' = p
        /\ UNCHANGED drives /\ readers' = readers
    BY <1>2, <2>1 DEF PutLock, Unlocked
  <2> QED
    BY <1>1, <2>2, <2>3, BeginKeepsReads
<1>3. CASE DeleteLock(p, up)
  <2>1. /\ writer = NoProc /\ writer' = p /\ UNCHANGED <<drives, readers, used>>
        /\ \/ Begin(p, "delete", Absent, Disks) /\ possible' = possible \cup {Absent}
           \/ Begin(p, "purge", Absent, Disks) /\ possible' = possible
    BY <1>3 DEF DeleteLock, Unlocked
  <2> QED
    BY <1>1, <2>1, BeginKeepsReads
<1>4. CASE GetDangling(p, up)
  BY <1>1, <1>4, BeginKeepsReads DEF GetDangling
<1>5. CASE HealRead(p, up)
  <2>1. /\ UNCHANGED drives /\ used' = used /\ possible' = possible
        /\ writer' = writer /\ readers' = readers
        /\ \/ Begin(p, "hlock", Absent, {}) \/ Begin(p, "purge", Absent, Disks)
           \/ Begin(p, "idle", Absent, {})
    BY <1>5 DEF HealRead, locks
  <2> QED
    BY <1>1, <2>1, BeginKeepsReads
<1>6. ASSUME NEW x \in Times, HealRewrite(p, up, x) PROVE ReadInv'
  <2>1. PICK ds \in SUBSET Outdated(View(up), x) : \E fi \in PickValidFileInfo(View(up), x) :
          Begin(p, "heal", fi, ds)
    BY <1>6 DEF HealRewrite
  <2>2. PICK fi \in PickValidFileInfo(View(up), x) : Begin(p, "heal", fi, ds)
    BY <2>1
  <2>3. fi \in FileInfo /\ fi \in possible
    BY PickIsPossible DEF ReadInv
  <2>4. ds \in SUBSET Disks
    BY <2>1 DEF Outdated, Missing, LostParts, OnlineDisks, Found
  <2>5. writer = NoProc /\ writer' = p /\ UNCHANGED <<drives, readers, used, possible>>
    BY <1>6 DEF HealRewrite, Unlocked
  <2> QED
    BY <1>1, <2>2, <2>3, <2>4, <2>5, BeginKeepsReads
<1>7. ASSUME NEW x \in Times, HealPurge(p, up, x) PROVE ReadInv'
  <2>1. /\ writer = NoProc /\ writer' = p /\ UNCHANGED <<drives, readers, used, possible>>
        /\ Begin(p, "purge", Absent, Disks)
    BY <1>7 DEF HealPurge, Unlocked
  <2> QED
    BY <1>1, <2>1, BeginKeepsReads
<1>8. CASE HealGivesUp(p, up)
  BY <1>1, <1>8, BeginKeepsReads DEF HealGivesUp, locks
<1> QED
  BY <1>2, <1>3, <1>4, <1>5, <1>6, <1>7, <1>8

\* Every operation that ends, acknowledged, failed or crashed, keeps ReadInv.
LEMMA EndsKeepReads ==
  ASSUME ReadInv, NEW p \in Procs,
         \/ PutReturn(p) \/ DeleteReturn(p) \/ TagReturn(p)
         \/ PurgeReturn(p) \/ HealReturn(p) \/ Crash(p)
         \/ \E d \in Disks : HealFails(p, d)
  PROVE  ReadInv'
<1>1. /\ meta \in [Disks -> Value] /\ data \in [Disks -> SUBSET Times]
      /\ used \in SUBSET Times /\ possible \in SUBSET Value /\ oks[p] \in SUBSET Disks
      /\ FileInfo \subseteq Value /\ Absent \in Value
      /\ pc[p] # "tag"
      /\ pc[p] \in {"rename", "delete", "heal"} => writer = p
      /\ pc[p] \in {"rename", "heal"} => val[p] \in FileInfo \cap possible
  BY DEF ReadInv, TypeOK, Value, LockInv, WrittenInv
<1>2. ASSUME UNCHANGED drives, possible' = possible
      PROVE  StaleFew'
  BY <1>2, StaleKept DEF ReadInv, drives
<1>3. CASE PutReturn(p)
  <2>1. pc[p] = "rename" /\ Finish(p) /\ meta' = meta /\ data' = data /\ used' = used
    BY <1>3 DEF PutReturn, drives
  <2>2. CASE Cardinality(oks[p]) >= WriteQuorum(DataBlocks)
    <3>1. possible' = {val[p]}
      BY <1>3, <2>2 DEF PutReturn
    <3>2. \A d \in oks[p] : meta[d] \in {val[p], Absent}
      BY <2>1 DEF ReadInv, WrittenInv
    <3>3. Cardinality(oks[p]) >= DeleteQuorum
      BY SMT, <1>1, <2>2, Quorums, Counting
    <3>4. StaleFew'
      BY <1>1, <2>1, <3>1, <3>2, <3>3, StaleRenewed
    <3> QED
      BY <1>1, <2>1, <3>1, <3>4, FinishKeepsReads
  <2>3. CASE ~(Cardinality(oks[p]) >= WriteQuorum(DataBlocks))
    BY <1>1, <1>2, <1>3, <2>1, <2>3, FinishKeepsReads DEF PutReturn, drives
  <2> QED
    BY <2>2, <2>3
<1>4. CASE DeleteReturn(p)
  <2>1. pc[p] = "delete" /\ Finish(p) /\ meta' = meta /\ data' = data /\ used' = used
    BY <1>4 DEF DeleteReturn, drives
  <2>2. CASE Cardinality(oks[p]) >= DeleteQuorum
    <3>1. possible' = {Absent}
      BY <1>4, <2>2 DEF DeleteReturn
    <3>2. \A d \in oks[p] : meta[d] \in {Absent, Absent}
      BY <2>1 DEF ReadInv, WrittenInv
    <3>3. StaleFew'
      BY <1>1, <2>1, <2>2, <3>1, <3>2, StaleRenewed
    <3> QED
      BY <1>1, <2>1, <3>1, <3>3, FinishKeepsReads
  <2>3. CASE ~(Cardinality(oks[p]) >= DeleteQuorum)
    BY <1>1, <1>2, <1>4, <2>1, <2>3, FinishKeepsReads DEF DeleteReturn, drives
  <2> QED
    BY <2>2, <2>3
<1>5. CASE PurgeReturn(p) \/ HealReturn(p) \/ Crash(p)
  <2>1. Finish(p) /\ meta' = meta /\ data' = data /\ used' = used /\ possible' = possible
    BY <1>5 DEF PurgeReturn, HealReturn, Crash, drives
  <2> QED
    BY <1>1, <1>2, <2>1, FinishKeepsReads DEF drives
<1>6. ASSUME NEW d \in Disks, HealFails(p, d) PROVE ReadInv'
  <2>1. pc[p] = "heal" /\ Finish(p) /\ used' = used /\ possible' = possible
    BY <1>6 DEF HealFails
  <2>2. val[p] \in FileInfo
    BY <1>1, <2>1 DEF ReadInv
  <2>3. PICK fi \in Value, dirs \in SUBSET Times : fi \in {meta[d], val[p]} /\ SetDrive(d, fi, dirs)
    BY <1>1, <1>6, <2>2, ResidueTyped DEF HealFails, ReadInv
  <2>4. /\ meta' \in [Disks -> Value] /\ data' \in [Disks -> SUBSET Times]
        /\ meta'[d] = fi /\ \A e \in Disks \ {d} : meta'[e] = meta[e]
    BY <2>3, SetDriveFrame DEF ReadInv
  <2>5. \A e \in Disks : meta'[e] \in {meta[e], Absent} \cup possible'
    BY <1>1, <2>1, <2>3, <2>4
  <2>6. StaleFew'
    BY <2>1, <2>5, StaleKept DEF ReadInv
  <2> QED
    BY <1>1, <2>1, <2>4, <2>6, FinishKeepsReads
<1> QED
  BY <1>1, <1>3, <1>4, <1>5, <1>6 DEF TagReturn

\* An empty drive is not stale.
LEMMA WipeKeepsReads ==
  ASSUME ReadInv, NEW d \in Disks, Wipe(d)
  PROVE  ReadInv'
<1> USE DEF ReadInv
<1>1. SetDrive(d, Absent, {}) /\ Absent \in Value /\ {} \in SUBSET Times
  BY DEF Wipe, Value
<1>2. /\ meta' \in [Disks -> Value] /\ data' \in [Disks -> SUBSET Times]
      /\ \A e \in Disks : meta'[e] \in {meta[e], Absent}
  BY <1>1, SetDriveFrame
<1>3. /\ pc' = pc /\ val' = val /\ todo' = todo /\ oks' = oks /\ used' = used
      /\ possible' = possible /\ writer' = writer /\ readers' = readers
  BY DEF Wipe, locks
<1>4. TypeOK'
  BY <1>2, <1>3 DEF TypeOK
<1>5. LockInv'
  BY <1>3 DEF LockInv
<1>6. \A q \in Procs : oks[q] \in SUBSET Disks
  BY DEF TypeOK
<1>7. WrittenInv'
  BY <1>2, <1>3, <1>6 DEF WrittenInv
<1>8. StaleFew'
  BY <1>2, <1>3, StaleKept
<1> QED
  BY <1>4, <1>5, <1>7, <1>8

\* Initially no drive has a version.
LEMMA ReadInvInitially == Init => ReadInv
<1> SUFFICES ASSUME Init PROVE ReadInv
  OBVIOUS
<1>1. TypeOK
  BY DEF Init, TypeOK, Value
<1>2. LockInv /\ WrittenInv
  BY DEF Init, LockInv, WrittenInv
<1>3. Stale = {}
  BY DEF Init, Stale
<1>4. StaleFew
  BY SMT, <1>3, FS_EmptySet, Quorums DEF StaleFew
<1> QED
  BY <1>1, <1>2, <1>4 DEF ReadInv

\* ReadInv is inductive when nothing is updated in place.
LEMMA ReadInvKept ==
  ASSUME Tags = {0}, ReadInv, [Next]_vars
  PROVE  ReadInv'
<1>1. CASE UNCHANGED vars
  BY <1>1 DEF vars, ReadInv, TypeOK, LockInv, WrittenInv, StaleFew, Stale
<1>2. ASSUME NEW p \in Procs, NEW up \in SUBSET Disks, NEW tag \in Tags \ {0}
      PROVE  ~TagLock(p, up, tag)
  BY <1>2
<1>3. Replying \subseteq SUBSET Disks
  BY DEF Replying
<1>4. ASSUME NEW p \in Procs,
             \/ \E t \in Times \ used, enc \in Replying : PutLock(p, t, enc)
             \/ \E up \in Replying :
                  \/ DeleteLock(p, up) \/ GetDangling(p, up) \/ HealRead(p, up)
                  \/ \E x \in Times : HealRewrite(p, up, x) \/ HealPurge(p, up, x)
                  \/ HealGivesUp(p, up)
      PROVE  ReadInv'
  <2>1. PICK up \in SUBSET Disks :
          \/ \E t \in Times, enc \in SUBSET Disks : PutLock(p, t, enc)
          \/ DeleteLock(p, up) \/ GetDangling(p, up) \/ HealRead(p, up)
          \/ \E x \in Times : HealRewrite(p, up, x) \/ HealPurge(p, up, x)
          \/ HealGivesUp(p, up)
    BY <1>3, <1>4
  <2> QED
    BY <2>1, BeginningsKeepReads
<1> QED
  BY <1>1, <1>2, <1>3, <1>4, CallsKeepReads, EndsKeepReads, WipeKeepsReads DEF Next

\* Type correctness without updates in place, whatever fails and heals.
THEOREM TypeCorrect ==
  ASSUME Tags = {0}
  PROVE  Spec => []TypeOK
<1>1. Init => ReadInv
  BY ReadInvInitially
<1>2. ReadInv /\ [Next]_vars => ReadInv'
  BY ReadInvKept
<1>3. ReadInv => TypeOK
  BY DEF ReadInv
<1> QED
  BY <1>1, <1>2, <1>3, PTL DEF Spec

\* Without updates in place, every read that is answered under the lock, with
\* any drives replying, returns what the last acknowledged operation left or
\* what an operation that failed since wrote, whether or not healing removes
\* dangling objects: write and delete quorums leave fewer stale drives than a
\* read needs, and healing and removal never add one.
THEOREM ReadsCorrect ==
  ASSUME Tags = {0}
  PROVE  Spec => []ReadsLatest
<1>1. Init => ReadInv
  BY ReadInvInitially
<1>2. ReadInv /\ [Next]_vars => ReadInv'
  BY ReadInvKept
<1>3. ReadInv => ReadsLatest
  <2> SUFFICES ASSUME ReadInv, NEW up \in SUBSET Disks, NEW fi \in MayRead(View(up))
               PROVE  fi \in possible
    BY DEF ReadsLatest
  <2>1. PICK x : fi \in PickValidFileInfo(View(up), x)
    BY DEF MayRead
  <2> QED
    BY <2>1, PickIsPossible DEF ReadInv
<1> QED
  BY <1>1, <1>2, <1>3, PTL DEF Spec

-----------------------------------------------------------------------------
(* What was acknowledged is kept.  From here on healing does not remove       *)
(* dangling objects (HealRemove = FALSE).                                     *)

\* Readers and the writer exclude each other, who removes holds one of the two
\* locks, and the object that is removed may be absent.
PurgeInv ==
  /\ writer # NoProc => readers = {}
  /\ \A p \in Procs : pc[p] = "purge" => (writer = p \/ p \in readers) /\ Absent \in possible

\* Where the rename of an upload succeeded the shard is complete, and the upload
\* is not yet the only possible value; what healing is about to overwrite is no
\* complete copy.
CompleteInv ==
  \A p \in Procs :
    /\ pc[p] = "rename" => /\ \A d \in oks[p] : meta[d] = val[p] /\ val[p].dir \in data[d]
                          /\ todo[p] \cap oks[p] = {}
                          /\ \E v \in possible : v # val[p]
    /\ pc[p] = "heal" => \A fi \in FileInfo : possible = {fi} => todo[p] \subseteq Lacking

FreshInv ==
  /\ possible # {}
  /\ \A v \in possible : v = Absent \/ v.time \in used

Emptied == {d \in Disks : meta[d] = Absent}

AbsentFew == Absent \notin possible => Cardinality(Emptied) <= N - WriteQuorum(DataBlocks)

CompleteMany ==
  \A fi \in FileInfo : possible = {fi} => Cardinality(Lacking) <= N - WriteQuorum(DataBlocks)

DurableInv == ReadInv /\ PurgeInv /\ CompleteInv /\ FreshInv /\ AbsentFew /\ CompleteMany

-----------------------------------------------------------------------------
\* Fewer drives than before are without the object, or without a complete copy.
LEMMA FewerAbsent ==
  ASSUME AbsentFew, Absent \notin possible' => Absent \notin possible /\ Emptied' \subseteq Emptied
  PROVE  AbsentFew'
<1> SUFFICES ASSUME Absent \notin possible'
             PROVE  Cardinality(Emptied)' <= N - WriteQuorum(DataBlocks)
  BY DEF AbsentFew, N, WriteQuorum, Parity
<1>1. PICK B : B = Emptied'
  OBVIOUS
<1>2. B \subseteq Emptied /\ Emptied \in SUBSET Disks /\ Absent \notin possible
  BY <1>1 DEF Emptied
<1>3. Cardinality(B) \in Nat /\ Cardinality(Emptied) \in Nat /\ Cardinality(B) <= Cardinality(Emptied)
  BY <1>2, Counting
<1> QED
  BY SMT, <1>1, <1>2, <1>3, Quorums DEF AbsentFew

\* The bound on incomplete drives survives a step after which fewer lack a copy.
LEMMA FewerLacking ==
  ASSUME CompleteMany,
         \A fi \in FileInfo : possible' = {fi} => possible = {fi} /\ Lacking' \subseteq Lacking
  PROVE  CompleteMany'
<1> SUFFICES ASSUME NEW fi \in FileInfo, possible' = {fi}
             PROVE  Cardinality(Lacking)' <= N - WriteQuorum(DataBlocks)
  BY DEF CompleteMany, N, WriteQuorum, Parity
<1>1. PICK B : B = Lacking'
  OBVIOUS
<1>2. B \subseteq Lacking /\ Lacking \in SUBSET Disks /\ possible = {fi}
  BY <1>1 DEF Lacking
<1>3. Cardinality(B) \in Nat /\ Cardinality(Lacking) \in Nat /\ Cardinality(B) <= Cardinality(Lacking)
  BY <1>2, Counting
<1> QED
  BY SMT, <1>1, <1>2, <1>3, Quorums DEF CompleteMany

\* An upload, a deletion and a removal under way leave more than one
\* possible value, or the absence of the object.
LEMMA Unsettled ==
  ASSUME DurableInv, NEW p \in Procs, pc[p] \in {"rename", "delete", "purge"}, NEW fi \in FileInfo
  PROVE  possible # {fi}
<1>1. Absent # fi
  BY QuorumAssumption
<1>2. CASE pc[p] = "rename"
  BY <1>2 DEF DurableInv, CompleteInv, ReadInv, WrittenInv
<1>3. CASE pc[p] \in {"delete", "purge"}
  BY <1>1, <1>3 DEF DurableInv, PurgeInv, ReadInv, WrittenInv
<1> QED
  BY <1>2, <1>3

\* While an operation writes nobody else works on the drives.
LEMMA OneWorks ==
  ASSUME DurableInv, NEW p \in Procs, NEW q \in Procs,
         pc[p] \in {"rename", "delete", "purge", "heal"}, pc[q] \in {"rename", "delete", "heal"}
  PROVE  p = q
<1>1. writer = q
  BY DEF DurableInv, ReadInv, LockInv
<1>2. CASE pc[p] = "purge"
  BY <1>1, <1>2, ObjectAssumption DEF DurableInv, PurgeInv
<1>3. CASE pc[p] # "purge"
  BY <1>1, <1>3 DEF DurableInv, ReadInv, LockInv
<1> QED
  BY <1>2, <1>3

-----------------------------------------------------------------------------
\* A call of p to drive d leaves it with fi and dirs.
LEMMA CallKeepsDurable ==
  ASSUME DurableInv, NEW p \in Procs, NEW d \in Disks, NEW ok \in BOOLEAN, Returned(p, d, ok),
         NEW fi \in Value, NEW dirs \in SUBSET Times, SetDrive(d, fi, dirs), ReadInv',
         pc[p] \in {"rename", "delete", "purge", "heal"},
         pc[p] \in {"rename", "heal"} => fi \in {meta[d], val[p]},
         (ok /\ pc[p] = "rename") \/ pc[p] = "heal" => fi = val[p] /\ val[p].dir \in dirs
  PROVE  DurableInv'
<1> USE DEF DurableInv
<1>1. /\ pc' = pc /\ val' = val /\ used' = used /\ writer' = writer
      /\ readers' = readers /\ possible' = possible
      /\ todo'[p] = todo[p] \ {d}
      /\ oks'[p] \subseteq oks[p] \cup {d}
      /\ ~ok => oks'[p] = oks[p]
      /\ \A q \in Procs \ {p} : todo'[q] = todo[q] /\ oks'[q] = oks[q]
  BY SMT, ReturnedFrame DEF ReadInv
<1>2. /\ meta'[d] = fi /\ data'[d] = dirs
      /\ \A e \in Disks \ {d} : meta'[e] = meta[e] /\ data'[e] = data[e]
  BY SMT, SetDriveFrame DEF ReadInv
<1>3. d \in todo[p]
  BY DEF Returned
<1>4. PurgeInv' /\ FreshInv'
  BY <1>1 DEF PurgeInv, FreshInv
<1>5. pc[p] \in {"rename", "heal"} => val[p] \in FileInfo /\ val[p] \in possible /\ val[p] # Absent
  BY QuorumAssumption DEF ReadInv, WrittenInv
<1>6. CompleteInv'
  <2>1. SUFFICES ASSUME NEW q \in Procs, pc[q] \in {"rename", "heal"}
                 PROVE /\ pc[q] = "rename" =>
                            /\ \A e \in oks'[q] : meta'[e] = val[q] /\ val[q].dir \in data'[e]
                            /\ todo'[q] \cap oks'[q] = {}
                            /\ \E v \in possible : v # val[q]
                       /\ pc[q] = "heal" => \A f \in FileInfo : possible = {f} => todo'[q] \subseteq Lacking'
    BY SMT, <1>1 DEF CompleteInv
  <2>2. q = p
    BY <2>1, OneWorks
  <2>3. oks[p] \in SUBSET Disks /\ todo[p] \in SUBSET Disks
    BY DEF ReadInv, TypeOK
  <2>4. CASE pc[p] = "rename"
    <3>1. /\ \A e \in oks[p] : meta[e] = val[p] /\ val[p].dir \in data[e]
          /\ todo[p] \cap oks[p] = {}
          /\ \E v \in possible : v # val[p]
      BY <2>4 DEF CompleteInv
    <3>2. \A e \in oks'[p] : meta'[e] = val[p] /\ val[p].dir \in data'[e]
      BY <1>1, <1>2, <1>3, <2>3, <2>4, <3>1
    <3>3. todo'[p] \cap oks'[p] = {}
      BY <1>1, <3>1
    <3> QED
      BY <2>2, <2>4, <3>1, <3>2, <3>3
  <2>5. CASE pc[p] = "heal"
    <3>1. ASSUME NEW f \in FileInfo, possible = {f}, NEW e \in todo'[p]
          PROVE  e \in Lacking'
      <4>1. e \in Lacking /\ e \in Disks \ {d}
        BY <1>1, <2>3, <2>5, <3>1 DEF CompleteInv
      <4> QED
        BY <1>1, <1>2, <4>1 DEF Lacking
    <3> QED
      BY <2>2, <2>5, <3>1
  <2> QED
    BY <2>1, <2>2, <2>4, <2>5
<1>7. AbsentFew'
  <2>1. ASSUME Absent \notin possible PROVE Emptied' \subseteq Emptied
    <3>1. pc[p] \in {"rename", "heal"}
      BY <2>1 DEF PurgeInv, ReadInv, WrittenInv
    <3> QED
      BY <1>2, <1>5, <3>1 DEF Emptied
  <2> QED
    BY <1>1, <2>1, FewerAbsent
<1>8. CompleteMany'
  <2>1. ASSUME NEW f \in FileInfo, possible = {f} PROVE Lacking' \subseteq Lacking
    <3>1. pc[p] = "heal"
      BY <2>1, Unsettled
    <3>2. meta'[d] = val[p] /\ val[p].dir \in data'[d]
      BY <1>2, <3>1
    <3>3. d \notin Lacking'
      BY <1>1, <1>5, <3>1, <3>2 DEF Lacking
    <3> QED
      BY <1>1, <1>2, <3>3 DEF Lacking
  <2> QED
    BY <1>1, <2>1, FewerLacking
<1> QED
  BY <1>4, <1>6, <1>7, <1>8

\* An operation enters a phase, and perhaps takes a lock.
LEMMA BeginKeepsDurable ==
  ASSUME DurableInv, ReadInv', NEW p \in Procs, NEW ph \in Phases, NEW fi \in Value,
         NEW ds \in SUBSET Disks, Begin(p, ph, fi, ds), UNCHANGED drives,
         \/ writer' = writer /\ readers' = readers
         \/ writer = NoProc /\ readers = {} /\ writer' = p /\ readers' = readers
         \/ writer = NoProc /\ writer' = writer /\ readers' = readers \cup {p},
         possible \subseteq possible', writer = NoProc \/ possible' = possible, FreshInv',
         ph = "purge" => (writer' = p \/ p \in readers') /\ Absent \in possible',
         ph = "rename" => \E v \in possible' : v # fi,
         ph = "heal" => possible' = possible /\ \A f \in FileInfo : possible = {f} => ds \subseteq Lacking
  PROVE  DurableInv'
<1> USE DEF DurableInv
<1>1. /\ pc'[p] = ph /\ val'[p] = fi /\ todo'[p] = ds /\ oks'[p] = {}
      /\ \A q \in Procs \ {p} : /\ pc'[q] = pc[q] /\ val'[q] = val[q]
                                /\ todo'[q] = todo[q] /\ oks'[q] = oks[q]
  BY SMT, BeginFrame DEF ReadInv
<1>2. meta' = meta /\ data' = data
  BY DEF drives
<1>3. PurgeInv'
  <2>1. writer' # NoProc => readers' = {}
    BY DEF PurgeInv
  <2>2. ASSUME NEW q \in Procs, pc'[q] = "purge"
        PROVE  (writer' = q \/ q \in readers') /\ Absent \in possible'
    <3>1. CASE q = p
      BY <1>1, <2>2, <3>1
    <3>2. CASE q # p
      BY <1>1, <2>2, <3>2, ObjectAssumption DEF PurgeInv
    <3> QED
      BY <3>1, <3>2
  <2> QED
    BY <2>1, <2>2 DEF PurgeInv
<1>4. possible' = possible => Lacking' = Lacking
  BY <1>2 DEF Lacking
<1>5. ASSUME NEW q \in Procs, pc'[q] = "rename"
      PROVE  /\ \A d \in oks'[q] : meta'[d] = val'[q] /\ val'[q].dir \in data'[d]
             /\ todo'[q] \cap oks'[q] = {}
             /\ \E v \in possible' : v # val'[q]
  <2>1. CASE q = p
    BY <1>1, <1>5, <2>1
  <2>2. CASE q # p
    BY SMT, <1>1, <1>2, <1>5, <2>2 DEF CompleteInv
  <2> QED
    BY <2>1, <2>2
<1>6. ASSUME NEW q \in Procs, pc'[q] = "heal", NEW f \in FileInfo, possible' = {f}
      PROVE  todo'[q] \subseteq Lacking'
  <2>1. CASE q = p
    BY <1>1, <1>4, <1>6, <2>1
  <2>2. CASE q # p
    <3>1. pc[q] = "heal" /\ todo'[q] = todo[q]
      BY <1>1, <1>6, <2>2
    <3>2. possible' = possible
      BY <3>1, ObjectAssumption DEF ReadInv, LockInv
    <3> QED
      BY <1>4, <1>6, <3>1, <3>2 DEF CompleteInv
  <2> QED
    BY <2>1, <2>2
<1>7. CompleteInv'
  BY <1>5, <1>6 DEF CompleteInv
<1>8. AbsentFew'
  <2>1. Emptied' = Emptied
    BY <1>2 DEF Emptied
  <2> QED
    BY <2>1, FewerAbsent
<1>9. CompleteMany'
  <2>1. ASSUME NEW f \in FileInfo, possible' = {f} PROVE possible = {f} /\ Lacking' \subseteq Lacking
    <3>1. possible' = possible
      BY <2>1 DEF FreshInv
    <3> QED
      BY <1>4, <2>1, <3>1
  <2> QED
    BY <2>1, FewerLacking
<1> QED
  BY <1>3, <1>7, <1>8, <1>9

\* An operation ends.
LEMMA FinishKeepsDurable ==
  ASSUME DurableInv, ReadInv', NEW p \in Procs, Finish(p),
         FreshInv', AbsentFew', CompleteMany',
         writer = p \/ (UNCHANGED drives /\ possible' = possible)
  PROVE  DurableInv'
<1> USE DEF DurableInv
<1>1. /\ pc'[p] = "idle"
      /\ \A q \in Procs \ {p} : /\ pc'[q] = pc[q] /\ val'[q] = val[q]
                                /\ todo'[q] = todo[q] /\ oks'[q] = oks[q]
                                /\ writer = q => writer' = q
  BY FinishFrame DEF ReadInv
<1>2. readers' = readers \ {p} /\ (writer' = writer \/ writer' = NoProc)
  BY DEF Finish
<1>3. PurgeInv'
  <2>1. writer' # NoProc => readers' = {}
    BY <1>2 DEF PurgeInv
  <2>2. ASSUME NEW q \in Procs, pc'[q] = "purge"
        PROVE  (writer' = q \/ q \in readers') /\ Absent \in possible'
    <3>1. q # p /\ pc[q] = "purge"
      BY <1>1, <2>2
    <3>2. (writer = q \/ q \in readers) /\ Absent \in possible
      BY <3>1 DEF PurgeInv
    <3>3. writer # p
      BY <3>1, <3>2, ObjectAssumption DEF PurgeInv
    <3> QED
      BY <1>1, <1>2, <3>1, <3>2, <3>3
  <2> QED
    BY <2>1, <2>2 DEF PurgeInv
<1>4. ASSUME NEW q \in Procs, pc'[q] \in {"rename", "heal"}
      PROVE  /\ pc'[q] = pc[q] /\ val'[q] = val[q] /\ todo'[q] = todo[q] /\ oks'[q] = oks[q]
             /\ meta' = meta /\ data' = data /\ possible' = possible /\ Lacking' = Lacking
  <2>1. q # p
    BY <1>1, <1>4
  <2>2. writer = q
    BY <1>1, <1>4, <2>1 DEF ReadInv, LockInv
  <2>3. meta' = meta /\ data' = data /\ possible' = possible
    BY <2>1, <2>2 DEF drives
  <2> QED
    BY <1>1, <2>1, <2>3 DEF Lacking
<1>5. CompleteInv'
  <2> SUFFICES ASSUME NEW q \in Procs, pc'[q] \in {"rename", "heal"}
               PROVE  /\ pc'[q] = "rename" =>
                           /\ \A d \in oks'[q] : meta'[d] = val'[q] /\ val'[q].dir \in data'[d]
                           /\ todo'[q] \cap oks'[q] = {}
                           /\ \E v \in possible' : v # val'[q]
                      /\ pc'[q] = "heal" => \A f \in FileInfo : possible' = {f} => todo'[q] \subseteq Lacking'
    BY DEF CompleteInv
  <2> QED
    BY SMT, <1>4 DEF CompleteInv
<1> QED
  BY <1>3, <1>5

-----------------------------------------------------------------------------
\* A read that finds the object dangling has not missed an acknowledged one.
LEMMA DanglingMayBeAbsent ==
  ASSUME DurableInv, NEW up \in SUBSET Disks, FoundDangling(View(up))
  PROVE  Absent \in possible
<1> DEFINE seen == View(up)
<1>1. ReduceReadQuorum(seen, N \div 2) = "ok"
  BY DEF FoundDangling, LatestFileInfo
<1>2. Found(seen) \in SUBSET Disks /\ Missing(seen) \in SUBSET Disks /\ {} \in SUBSET Disks
  BY DEF Found, Missing
<1>3. Cardinality(Found(seen)) \in Nat /\ Cardinality(Missing(seen)) \in Nat
  BY <1>2, Counting
<1>4. N \div 2 \in Nat /\ N \div 2 >= 1
  BY SMT, Quorums, QuorumAssumption
<1>5. Cardinality(Found(seen)) >= 1
  BY SMT, <1>1, <1>3, <1>4 DEF ReduceReadQuorum
<1>6. Found(seen) # {}
  BY SMT, <1>5, FS_EmptySet
<1>7. Cardinality(Missing(seen)) > N - DataBlocks
  BY SMT, <1>3, <1>6, FS_EmptySet DEF FoundDangling, IsObjectDangling, Parity
<1>8. Missing(seen) \subseteq Emptied /\ Emptied \in SUBSET Disks
  BY QuorumAssumption DEF Missing, View, Emptied
<1>9. Cardinality(Emptied) \in Nat /\ Cardinality(Missing(seen)) <= Cardinality(Emptied)
  BY <1>8, Counting
<1> QED
  BY SMT, <1>3, <1>7, <1>9, Quorums DEF DurableInv, AbsentFew

\* Every call to a drive, successful or not, keeps DurableInv.
LEMMA CallsKeepDurable ==
  ASSUME DurableInv, ReadInv', NEW p \in Procs, NEW d \in Disks,
         \/ RenameDone(p, d) \/ RenameFails(p, d)
         \/ DeleteVersionDone(p, d) \/ DeleteVersionFails(p, d)
         \/ UpdateMetadataDone(p, d) \/ UpdateMetadataFails(p, d) \/ UpdateMetadataTears(p, d)
  PROVE  DurableInv'
<1>1. /\ meta[d] \in Value /\ data[d] \in SUBSET Times /\ Absent \in Value /\ {} \in SUBSET Times
      /\ pc[p] \in {"rename", "heal"} => val[p] \in FileInfo
      /\ FileInfo \subseteq Value
      /\ pc[p] # "tag"
      /\ ReadInv /\ TypeOK
  BY DEF DurableInv, ReadInv, TypeOK, WrittenInv, LockInv, Value
<1>2. CASE RenameDone(p, d)
  <2>1. /\ pc[p] \in {"rename", "heal"} /\ Returned(p, d, TRUE)
        /\ SetDrive(d, val[p], KeptDirs(d) \cup {val[p].dir})
    BY <1>2 DEF RenameDone
  <2>2. val[p] \in Value /\ KeptDirs(d) \cup {val[p].dir} \in SUBSET Times
    BY <1>1, <2>1, DirsTyped
  <2>3. PICK dirs : dirs = KeptDirs(d) \cup {val[p].dir}
    OBVIOUS
  <2>4. dirs \in SUBSET Times /\ SetDrive(d, val[p], dirs) /\ val[p].dir \in dirs
    BY <2>1, <2>2, <2>3
  <2> QED
    BY <2>1, <2>2, <2>4, CallKeepsDurable
<1>3. CASE RenameFails(p, d)
  <2>1. pc[p] = "rename" /\ Returned(p, d, FALSE)
    BY <1>3 DEF RenameFails
  <2>2. val[p] \in FileInfo
    BY <1>1, <2>1
  <2>3. PICK fi \in Value, dirs \in SUBSET Times : fi \in {meta[d], val[p]} /\ SetDrive(d, fi, dirs)
    BY <1>1, <1>3, <2>2, ResidueTyped DEF RenameFails
  <2> QED
    BY <2>1, <2>3, CallKeepsDurable
<1>4. CASE DeleteVersionDone(p, d)
  BY <1>1, <1>4, CallKeepsDurable DEF DeleteVersionDone
<1>5. CASE DeleteVersionFails(p, d)
  <2>1. pc[p] \in {"delete", "purge"} /\ Returned(p, d, FALSE)
    BY <1>5 DEF DeleteVersionFails
  <2>2. SetDrive(d, meta[d], data[d]) \/ SetDrive(d, Absent, {})
    BY <1>1, <1>5 DEF DeleteVersionFails, SetDrive, drives, TypeOK
  <2> QED
    BY <1>1, <2>1, <2>2, CallKeepsDurable
<1> QED
  BY <1>1, <1>2, <1>3, <1>4, <1>5 DEF UpdateMetadataDone, UpdateMetadataFails, UpdateMetadataTears

\* What healing overwrites is not a complete copy of the only possible value.
LEMMA HealOverwritesLacking ==
  ASSUME DurableInv, NEW up \in SUBSET Disks, NEW x, NEW fi \in PickValidFileInfo(View(up), x),
         NEW f \in FileInfo, possible = {f}, NEW d \in Outdated(View(up), x)
  PROVE  d \in Lacking
<1> DEFINE seen == View(up)
<1>1. fi \in possible
  BY PickIsPossible DEF DurableInv, ReadInv
<1>2. fi.time = CommonTime(seen)
  BY DEF PickValidFileInfo, OnlineDisks
<1>3. /\ d \in Disks /\ Absent # f
      /\ \A e \in Disks : seen[e] \in {meta[e], Offline}
  BY QuorumAssumption DEF Outdated, Missing, LostParts, OnlineDisks, Found, View
<1>4. CASE seen[d] = Absent
  BY <1>3, <1>4, QuorumAssumption DEF Lacking
<1>5. CASE d \in Found(seen) /\ seen[d].time # CommonTime(seen)
  <2>1. seen[d] = meta[d]
    BY <1>3, <1>5 DEF Found
  <2> QED
    BY <1>1, <1>2, <1>3, <1>5, <2>1 DEF Lacking
<1>6. CASE d \in LostParts(seen, x)
  <2>1. d \in Found(seen) /\ seen[d].dir = x /\ x \notin data[d]
    BY <1>6 DEF LostParts, Available, OnlineDisks
  <2>2. seen[d] = meta[d] /\ meta[d] # Absent
    BY <1>3, <2>1 DEF Found
  <2> QED
    BY <1>3, <2>1, <2>2 DEF Lacking
<1> QED
  BY <1>4, <1>5, <1>6 DEF Outdated, Missing

\* Every operation that begins its calls keeps DurableInv.
LEMMA BeginningsKeepDurable ==
  ASSUME HealRemove = FALSE, DurableInv, ReadInv', NEW p \in Procs, NEW up \in SUBSET Disks,
         \/ \E t \in Times \ used, enc \in SUBSET Disks : PutLock(p, t, enc)
         \/ DeleteLock(p, up) \/ GetDangling(p, up) \/ HealRead(p, up)
         \/ \E x \in Times : HealRewrite(p, up, x) \/ HealPurge(p, up, x)
         \/ HealGivesUp(p, up)
  PROVE  DurableInv'
<1>1. /\ Absent \in Value /\ FileInfo \subseteq Value
      /\ Disks \in SUBSET Disks /\ {} \in SUBSET Disks
      /\ {"idle", "rename", "delete", "purge", "hlock", "heal"} \subseteq Phases
  BY DEF Value, Phases
<1>2. ASSUME used' = used, possible' \in {possible, possible \cup {Absent}} PROVE FreshInv'
  BY <1>2 DEF DurableInv, FreshInv
<1>3. ASSUME NEW t \in Times \ used, NEW enc \in SUBSET Disks, PutLock(p, t, enc) PROVE DurableInv'
  <2>1. PICK fi : fi = [time |-> t, dir |-> t, tag |-> 0]
    OBVIOUS
  <2>2. fi \in FileInfo /\ fi.time = t
    BY <2>1, ObjectAssumption DEF FileInfo
  <2>3. /\ Begin(p, "rename", fi, enc) /\ possible' = possible \cup {fi}
        /\ used' = used \cup {t} /\ writer = NoProc /\ readers = {} /\ writer' = p
        /\ UNCHANGED drives /\ readers' = readers
    BY <1>3, <2>1 DEF PutLock, Unlocked
  <2>4. FreshInv'
    BY <2>2, <2>3 DEF DurableInv, FreshInv
  <2>5. \E v \in possible : v # fi
    BY <2>2, QuorumAssumption DEF DurableInv, FreshInv
  <2> QED
    BY <1>1, <2>2, <2>3, <2>4, <2>5, BeginKeepsDurable
<1>4. CASE DeleteLock(p, up)
  <2>1. /\ writer = NoProc /\ readers = {} /\ writer' = p /\ UNCHANGED <<drives, readers, used>>
        /\ \/ Begin(p, "delete", Absent, Disks) /\ possible' = possible \cup {Absent}
           \/ Begin(p, "purge", Absent, Disks) /\ possible' = possible /\ FoundDangling(View(up))
    BY <1>4 DEF DeleteLock, Unlocked
  <2>2. FreshInv'
    BY <1>2, <2>1
  <2>3. CASE Begin(p, "delete", Absent, Disks) /\ possible' = possible \cup {Absent}
    BY <1>1, <2>1, <2>2, <2>3, BeginKeepsDurable
  <2>4. CASE Begin(p, "purge", Absent, Disks) /\ possible' = possible /\ FoundDangling(View(up))
    BY <1>1, <2>1, <2>2, <2>4, DanglingMayBeAbsent, BeginKeepsDurable
  <2> QED
    BY <2>1, <2>3, <2>4
<1>5. CASE GetDangling(p, up)
  <2>1. /\ writer = NoProc /\ writer' = writer /\ readers' = readers \cup {p}
        /\ UNCHANGED <<drives, used, possible>>
        /\ Begin(p, "purge", Absent, Disks) /\ Absent \in possible
    BY <1>5, DanglingMayBeAbsent DEF GetDangling
  <2>2. FreshInv'
    BY <1>2, <2>1
  <2> QED
    BY <1>1, <2>1, <2>2, BeginKeepsDurable
<1>6. CASE HealRead(p, up) \/ HealGivesUp(p, up)
  <2>1. /\ UNCHANGED drives /\ used' = used /\ possible' = possible
        /\ writer' = writer /\ readers' = readers
        /\ Begin(p, "hlock", Absent, {}) \/ Begin(p, "idle", Absent, {})
    BY <1>6 DEF HealRead, HealGivesUp, locks, PurgesDangling
  <2>2. FreshInv'
    BY <1>2, <2>1
  <2> QED
    BY <1>1, <2>1, <2>2, BeginKeepsDurable
<1>7. ASSUME NEW x \in Times, HealRewrite(p, up, x) PROVE DurableInv'
  <2>1. PICK ds \in SUBSET Outdated(View(up), x) : \E fi \in PickValidFileInfo(View(up), x) :
          Begin(p, "heal", fi, ds)
    BY <1>7 DEF HealRewrite
  <2>2. PICK fi \in PickValidFileInfo(View(up), x) : Begin(p, "heal", fi, ds)
    BY <2>1
  <2>3. fi \in FileInfo
    BY PickIsPossible DEF DurableInv, ReadInv
  <2>4. ds \in SUBSET Disks
    BY <2>1 DEF Outdated, Missing, LostParts, OnlineDisks, Found
  <2>5. /\ writer = NoProc /\ readers = {} /\ writer' = p
        /\ UNCHANGED <<drives, readers, used, possible>>
    BY <1>7 DEF HealRewrite, Unlocked
  <2>6. ASSUME NEW f \in FileInfo, possible = {f} PROVE ds \subseteq Lacking
    BY <2>1, <2>2, <2>6, HealOverwritesLacking
  <2>7. FreshInv'
    BY <1>2, <2>5
  <2> QED
    BY <1>1, <2>2, <2>3, <2>4, <2>5, <2>6, <2>7, BeginKeepsDurable
<1>8. ASSUME NEW x \in Times, HealPurge(p, up, x) PROVE FALSE
  BY <1>8 DEF HealPurge, PurgesDangling
<1> QED
  BY <1>3, <1>4, <1>5, <1>6, <1>7, <1>8

\* Every operation that ends, acknowledged, failed or crashed, keeps DurableInv.
LEMMA EndsKeepDurable ==
  ASSUME DurableInv, ReadInv', NEW p \in Procs,
         \/ PutReturn(p) \/ DeleteReturn(p) \/ TagReturn(p)
         \/ PurgeReturn(p) \/ HealReturn(p) \/ Crash(p)
         \/ \E d \in Disks : HealFails(p, d)
  PROVE  DurableInv'
<1>1. /\ oks[p] \in SUBSET Disks /\ todo[p] \in SUBSET Disks
      /\ pc[p] # "tag"
      /\ pc[p] \in {"rename", "delete", "heal"} => writer = p
      /\ pc[p] \in {"rename", "heal"} => val[p] \in FileInfo \cap possible
      /\ ReadInv /\ TypeOK
  BY DEF DurableInv, ReadInv, TypeOK, LockInv, WrittenInv
<1>2. ASSUME UNCHANGED drives, possible' = possible, used' = used
      PROVE  FreshInv' /\ AbsentFew' /\ CompleteMany'
  <2>1. Emptied' = Emptied /\ Lacking' = Lacking
    BY <1>2 DEF drives, Emptied, Lacking
  <2> QED
    BY <1>2, <2>1, FewerAbsent, FewerLacking DEF DurableInv, FreshInv
<1>3. CASE PutReturn(p)
  <2>1. pc[p] = "rename" /\ Finish(p) /\ meta' = meta /\ data' = data /\ used' = used
    BY <1>3 DEF PutReturn, drives
  <2>2. CASE Cardinality(oks[p]) >= WriteQuorum(DataBlocks)
    <3>1. possible' = {val[p]} /\ val[p] # Absent
      BY <1>1, <1>3, <2>1, <2>2, QuorumAssumption DEF PutReturn
    <3>2. \A d \in oks[p] : meta[d] = val[p] /\ val[p].dir \in data[d]
      BY <2>1 DEF DurableInv, CompleteInv
    <3>3. FreshInv'
      BY <1>1, <2>1, <3>1 DEF DurableInv, FreshInv
    <3>4. PICK A, B : A = Emptied' /\ B = Lacking'
      OBVIOUS
    <3>5. A \in SUBSET Disks /\ B \in SUBSET Disks /\ oks[p] \cap A = {} /\ oks[p] \cap B = {}
      BY <2>1, <3>1, <3>2, <3>4 DEF Emptied, Lacking
    <3>6. Cardinality(A) <= N - WriteQuorum(DataBlocks) /\ Cardinality(B) <= N - WriteQuorum(DataBlocks)
      BY <1>1, <2>2, <3>5, Rest, Quorums
    <3>7. AbsentFew' /\ CompleteMany'
      BY <3>4, <3>6 DEF AbsentFew, CompleteMany
    <3> QED
      BY <1>1, <2>1, <3>3, <3>7, FinishKeepsDurable
  <2>3. CASE ~(Cardinality(oks[p]) >= WriteQuorum(DataBlocks))
    BY <1>1, <1>2, <1>3, <2>1, <2>3, FinishKeepsDurable DEF PutReturn, drives
  <2> QED
    BY <2>2, <2>3
<1>4. CASE DeleteReturn(p)
  <2>1. pc[p] = "delete" /\ Finish(p) /\ meta' = meta /\ data' = data /\ used' = used
    BY <1>4 DEF DeleteReturn, drives
  <2>2. CASE Cardinality(oks[p]) >= DeleteQuorum
    <3>1. possible' = {Absent}
      BY <1>4, <2>2 DEF DeleteReturn
    <3>2. FreshInv' /\ AbsentFew' /\ CompleteMany'
      BY <3>1, QuorumAssumption DEF FreshInv, AbsentFew, CompleteMany
    <3> QED
      BY <1>1, <2>1, <3>2, FinishKeepsDurable
  <2>3. CASE ~(Cardinality(oks[p]) >= DeleteQuorum)
    BY <1>1, <1>2, <1>4, <2>1, <2>3, FinishKeepsDurable DEF DeleteReturn, drives
  <2> QED
    BY <2>2, <2>3
<1>5. CASE PurgeReturn(p) \/ HealReturn(p) \/ Crash(p)
  <2>1. Finish(p) /\ UNCHANGED drives /\ used' = used /\ possible' = possible
    BY <1>5 DEF PurgeReturn, HealReturn, Crash
  <2> QED
    BY <1>2, <2>1, FinishKeepsDurable
<1>6. ASSUME NEW d \in Disks, HealFails(p, d) PROVE DurableInv'
  <2>1. pc[p] = "heal" /\ d \in todo[p] /\ Finish(p) /\ used' = used /\ possible' = possible
    BY <1>6 DEF HealFails
  <2>2. val[p] \in FileInfo
    BY <1>1, <2>1
  <2>3. PICK fi \in Value, dirs \in SUBSET Times : fi \in {meta[d], val[p]} /\ SetDrive(d, fi, dirs)
    BY <1>1, <1>6, <2>2, ResidueTyped DEF HealFails
  <2>4. /\ meta'[d] = fi
        /\ \A e \in Disks \ {d} : meta'[e] = meta[e] /\ data'[e] = data[e]
    BY <1>1, <2>3, SetDriveFrame
  <2>5. Emptied' \subseteq Emptied
    BY <1>1, <2>1, <2>2, <2>3, <2>4, QuorumAssumption DEF Emptied
  <2>6. ASSUME NEW f \in FileInfo, possible = {f} PROVE Lacking' \subseteq Lacking
    <3>1. d \in Lacking
      BY <2>1, <2>6 DEF DurableInv, CompleteInv
    <3> QED
      BY <2>1, <2>4, <3>1 DEF Lacking
  <2>7. AbsentFew' /\ CompleteMany'
    BY <2>1, <2>5, <2>6, FewerAbsent, FewerLacking DEF DurableInv
  <2>8. FreshInv'
    BY <2>1 DEF DurableInv, FreshInv
  <2> QED
    BY <1>1, <2>1, <2>7, <2>8, FinishKeepsDurable
<1> QED
  BY <1>1, <1>3, <1>4, <1>5, <1>6 DEF TagReturn

\* A drive is replaced only while a write quorum of complete ones remains.
LEMMA WipeKeepsDurable ==
  ASSUME DurableInv, ReadInv', NEW d \in Disks, Wipe(d)
  PROVE  DurableInv'
<1> USE DEF DurableInv
<1>1. SetDrive(d, Absent, {}) /\ Absent \in Value /\ {} \in SUBSET Times
  BY DEF Wipe, Value
<1>2. /\ meta'[d] = Absent
      /\ \A e \in Disks \ {d} : meta'[e] = meta[e] /\ data'[e] = data[e]
  BY <1>1, SetDriveFrame DEF ReadInv
<1>3. /\ pc' = pc /\ val' = val /\ todo' = todo /\ oks' = oks /\ used' = used
      /\ possible' = possible /\ writer' = writer /\ readers' = readers
      /\ \A p \in Procs : d \notin oks[p]
  BY DEF Wipe, locks
<1>4. PurgeInv' /\ FreshInv'
  BY <1>3 DEF PurgeInv, FreshInv
<1>5. \A q \in Procs : oks[q] \in SUBSET Disks /\ todo[q] \in SUBSET Disks
  BY DEF ReadInv, TypeOK
<1>6. ASSUME Absent \notin possible
      PROVE  /\ Lacking \subseteq Lacking'
             /\ Lacking' \subseteq Lacking \cup {d} /\ Emptied' \subseteq Lacking \cup {d}
  BY <1>2, <1>3, <1>6 DEF Lacking, Emptied
<1>7. CompleteInv'
  <2>1. ASSUME NEW q \in Procs, pc[q] = "rename"
        PROVE  \A e \in oks[q] : meta'[e] = val[q] /\ val[q].dir \in data'[e]
    BY <1>2, <1>3, <1>5, <2>1 DEF CompleteInv
  <2>2. ASSUME NEW q \in Procs, pc[q] = "heal", NEW f \in FileInfo, possible = {f}
        PROVE  todo[q] \subseteq Lacking'
    <3>1. Absent \notin possible
      BY <2>2, QuorumAssumption
    <3> QED
      BY <1>6, <2>2, <3>1 DEF CompleteInv
  <2> QED
    BY SMT, <1>3, <2>1, <2>2 DEF CompleteInv
<1>8. ASSUME Absent \notin possible
      PROVE  Cardinality(Emptied') <= N - WriteQuorum(DataBlocks) /\ Cardinality(Lacking') <= N - WriteQuorum(DataBlocks)
  <2>1. PICK A, B, C : A = Emptied' /\ B = Lacking' /\ C = Lacking \cup {d}
    OBVIOUS
  <2>2. A \subseteq C /\ B \subseteq C /\ C \in SUBSET Disks
    BY <1>6, <1>8, <2>1 DEF Lacking
  <2>3. Cardinality(C) <= N - WriteQuorum(DataBlocks)
    BY <1>8, <2>1 DEF Wipe, FewLack
  <2>4. /\ Cardinality(A) \in Nat /\ Cardinality(B) \in Nat /\ Cardinality(C) \in Nat
        /\ Cardinality(A) <= Cardinality(C) /\ Cardinality(B) <= Cardinality(C)
    BY <2>2, Counting
  <2>5. Cardinality(A) <= N - WriteQuorum(DataBlocks) /\ Cardinality(B) <= N - WriteQuorum(DataBlocks)
    BY SMT, <2>3, <2>4, Quorums
  <2> QED
    BY <2>1, <2>5
<1>9. AbsentFew' /\ CompleteMany'
  BY <1>3, <1>8, QuorumAssumption DEF AbsentFew, CompleteMany
<1> QED
  BY <1>4, <1>7, <1>9

\* Initially nothing is acknowledged.
LEMMA DurableInvInitially == Init => DurableInv
<1> SUFFICES ASSUME Init PROVE DurableInv
  OBVIOUS
<1>1. PurgeInv /\ CompleteInv
  BY DEF Init, PurgeInv, CompleteInv
<1>2. FreshInv /\ AbsentFew /\ CompleteMany
  BY QuorumAssumption DEF Init, FreshInv, AbsentFew, CompleteMany
<1> QED
  BY <1>1, <1>2, ReadInvInitially DEF DurableInv

\* DurableInv is inductive when nothing is updated in place and healing removes
\* nothing.
LEMMA DurableInvKept ==
  ASSUME Tags = {0}, HealRemove = FALSE, DurableInv, [Next]_vars
  PROVE  DurableInv'
<1>1. ReadInv'
  BY ReadInvKept DEF DurableInv
<1>2. CASE UNCHANGED vars
  BY SMT, <1>1, <1>2 DEF vars, DurableInv, PurgeInv, CompleteInv, FreshInv, AbsentFew, CompleteMany,
                    Lacking, Emptied
<1>3. ASSUME NEW p \in Procs, NEW up \in SUBSET Disks, NEW tag \in Tags \ {0}
      PROVE  ~TagLock(p, up, tag)
  BY <1>3
<1>4. Replying \subseteq SUBSET Disks
  BY DEF Replying
<1>5. ASSUME NEW p \in Procs,
             \/ \E t \in Times \ used, enc \in Replying : PutLock(p, t, enc)
             \/ \E up \in Replying :
                  \/ DeleteLock(p, up) \/ GetDangling(p, up) \/ HealRead(p, up)
                  \/ \E x \in Times : HealRewrite(p, up, x) \/ HealPurge(p, up, x)
                  \/ HealGivesUp(p, up)
      PROVE  DurableInv'
  <2>1. PICK up \in SUBSET Disks :
          \/ \E t \in Times \ used, enc \in SUBSET Disks : PutLock(p, t, enc)
          \/ DeleteLock(p, up) \/ GetDangling(p, up) \/ HealRead(p, up)
          \/ \E x \in Times : HealRewrite(p, up, x) \/ HealPurge(p, up, x)
          \/ HealGivesUp(p, up)
    BY <1>4, <1>5
  <2> QED
    BY <1>1, <2>1, BeginningsKeepDurable
<1> QED
  BY <1>1, <1>2, <1>3, <1>4, <1>5, CallsKeepDurable, EndsKeepDurable, WipeKeepsDurable DEF Next

\* Without updates in place and removal by healing, an acknowledged upload
\* that nothing later touches keeps the data blocks to be rebuilt: no crash,
\* failed call, heal, dangling removal or replaced drive takes it below them.
THEOREM Durability ==
  ASSUME Tags = {0}, HealRemove = FALSE
  PROVE  Spec => []AckedDurable
<1>1. Init => DurableInv
  BY DurableInvInitially
<1>2. DurableInv /\ [Next]_vars => DurableInv'
  BY DurableInvKept
<1>3. DurableInv => AckedDurable
  <2> SUFFICES ASSUME DurableInv, NEW fi \in possible \ {Absent}, possible = {fi}
               PROVE  Cardinality({d \in Disks : meta[d] = fi /\ fi.dir \in data[d]}) >= DataBlocks
    BY DEF AckedDurable
  <2>0. fi \in FileInfo
    BY DEF DurableInv, ReadInv, TypeOK, Value
  <2>1. PICK G : G = {d \in Disks : meta[d] = fi /\ fi.dir \in data[d]}
    OBVIOUS
  <2>2. G \in SUBSET Disks /\ Lacking = Disks \ G
    BY <2>1, QuorumAssumption DEF Lacking
  <2>3. Cardinality(Disks \ G) = Cardinality(Disks) - Cardinality(Disks \cap G)
    BY QuorumAssumption, FS_Difference
  <2>4. Disks \cap G = G
    BY <2>2
  <2>5. Cardinality(Lacking) = N - Cardinality(G)
    BY <2>2, <2>3, <2>4 DEF N
  <2>6. Cardinality(G) \in Nat
    BY <2>2, Counting
  <2>7. Cardinality(G) >= DataBlocks
    BY SMT, <2>0, <2>5, <2>6, Quorums DEF DurableInv, CompleteMany
  <2> QED
    BY <2>1, <2>7
<1> QED
  BY <1>1, <1>2, <1>3, PTL DEF Spec

\* Under the same assumptions, and if the drives that a write quorum leaves
\* out are fewer than half of the set rounded down (always so in a set of even
\* size), no read answers that an acknowledged object does not exist.
THEOREM NotFoundHonest ==
  ASSUME Tags = {0}, HealRemove = FALSE, N - WriteQuorum(DataBlocks) < N \div 2
  PROVE  Spec => []NoFalseNotFound
<1>1. Init => DurableInv
  BY DurableInvInitially
<1>2. DurableInv /\ [Next]_vars => DurableInv'
  BY DurableInvKept
<1>3. DurableInv => NoFalseNotFound
  <2> SUFFICES ASSUME DurableInv, Absent \notin possible, NEW up \in SUBSET Disks, AnswersNotFound(View(up))
               PROVE  FALSE
    BY DEF NoFalseNotFound
  <2> DEFINE seen == View(up)
  <2>1. "notfound" \in LatestFileInfo(seen)
    BY DanglingMayBeAbsent DEF AnswersNotFound
  <2>2. ReduceReadQuorum(seen, N \div 2) = "notfound"
    BY <2>1 DEF LatestFileInfo
  <2>3. /\ Found(seen) \in SUBSET Disks /\ Emptied \in SUBSET Disks
        /\ Missing(seen) \in SUBSET Disks /\ Missing(seen) \subseteq Emptied
    BY QuorumAssumption DEF Found, Missing, Emptied, View
  <2>4. /\ Cardinality(Found(seen)) \in Nat /\ Cardinality(Missing(seen)) \in Nat
        /\ Cardinality(Emptied) \in Nat /\ Cardinality(Missing(seen)) <= Cardinality(Emptied)
    BY <2>3, Counting
  <2>5. N \div 2 \in Nat
    BY SMT, Quorums
  <2>6. Cardinality(Missing(seen)) >= N \div 2
    BY SMT, <2>2, <2>4, <2>5 DEF ReduceReadQuorum
  <2> QED
    BY SMT, <2>4, <2>5, <2>6, Quorums DEF DurableInv, AbsentFew
<1> QED
  BY <1>1, <1>2, <1>3, PTL DEF Spec
=============================================================================
