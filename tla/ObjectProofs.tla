---------------------------- MODULE ObjectProofs ----------------------------
(* TLAPS proofs about what happens to an object beside the plain write and    *)
(* read: its transition to a remote tier and back (Transition), its upload in *)
(* parts (Multipart), and its replication to another bucket (Replication).    *)
EXTENDS Transition, Multipart, Replication, TLAPS

(* Zenon is the default prover here; the steps that need arithmetic or the     *)
(* theory of functions and records cite SMT.                                  *)
USE Zenon

-----------------------------------------------------------------------------
(* Transition.  The metadata and the step an operation has reached say where  *)
(* the data is; both are needed, since a step is taken on the strength of     *)
(* what an earlier one under the same lock found.                             *)

MetaOK ==
  /\ src.status # "" => src.up # 0
  /\ src.intent => src.status # ""
  /\ src.restore # "none" => src.status = "complete"
  /\ src.status = "complete" /\ ~src.intent => src.up \in remote
  /\ src.up # 0 /\ ~src.intent /\ ReadsLocal => src.local

UploadKnown == src.up \in 0..puts

OpOK ==
  /\ op = "upload" => src.status = "pending" /\ ~src.intent
  /\ op = "commit" => src.status = "pending" /\ ~src.intent /\ src.up \in remote
  /\ op = "shed" => src.status = "complete" /\ src.restore = "none" /\ ~src.intent
  /\ op = "fetch" => src.status = "complete" /\ ~src.intent
  /\ op = "intent" => src.status # ""
  /\ op = "remove" => src.intent
  /\ op = "purge" => src.up \notin remote

TierIInv == TierTypeOK /\ UploadKnown /\ MetaOK /\ OpOK /\ NoOrphanInTier

\* The metadata where there is no object.
LEMMA NoObjectFields ==
  /\ NoObject \in ObjectMeta
  /\ NoObject.up = 0 /\ NoObject.status = "" /\ NoObject.restore = "none"
  /\ NoObject.intent = FALSE /\ NoObject.local = FALSE
BY DEF NoObject, ObjectMeta

\* The metadata of a new upload.
LEMMA NewObjectFields ==
  ASSUME NEW u \in Uploads, NEW s, s = [NoObject EXCEPT !.up = u, !.local = TRUE]
  PROVE  /\ s \in ObjectMeta
         /\ s.up = u /\ s.status = "" /\ s.restore = "none"
         /\ s.intent = FALSE /\ s.local = TRUE
BY DEF NoObject, ObjectMeta

\* The initial state satisfies the inductive invariant.
LEMMA TierInitIInv == TierInit => TierIInv
<1> SUFFICES ASSUME TierInit PROVE TierIInv
  OBVIOUS
<1>1. src \in ObjectMeta /\ rule \in BOOLEAN
  BY NoObjectFields DEF TierInit
<1>2. TierTypeOK
  BY SMT, <1>1, TransitionAssumption DEF TierInit, TierTypeOK
<1>3. src.up = 0 /\ src.status = "" /\ src.restore = "none" /\ src.intent = FALSE
  BY NoObjectFields DEF TierInit
<1>4. UploadKnown
  <2>1. puts = 0
    BY DEF TierInit
  <2>2. src.up = 0
    BY <1>3
  <2> QED BY SMT, <2>1, <2>2 DEF UploadKnown
<1>5. MetaOK
  BY <1>3 DEF MetaOK
<1>6. OpOK /\ NoOrphanInTier
  BY DEF TierInit, OpOK, NoOrphanInTier
<1> QED BY <1>2, <1>4, <1>5, <1>6 DEF TierIInv

\* Requests of clients.
LEMMA ClientIInv ==
  ASSUME TierIInv, TierPut \/ TierDelete \/ BeginRestore \/ StartRestore \/ EditRule \/ RestoredExpires
  PROVE  TierIInv'
<1> TierTypeOK /\ UploadKnown /\ MetaOK /\ OpOK /\ NoOrphanInTier
  BY DEF TierIInv
<1>1. CASE TierPut
  <2>1. puts' \in Uploads /\ puts' = puts + 1 /\ puts \in Nat
    <3>1. puts' = puts + 1 /\ puts < MaxUploads /\ puts \in 0..MaxUploads
      BY <1>1 DEF TierPut, TierTypeOK
    <3> QED BY SMT, <3>1, TransitionAssumption DEF Uploads
  <2>2. src' \in ObjectMeta
    BY <1>1, <2>1, NewObjectFields DEF TierPut
  <2>3. /\ src'.up = puts' /\ src'.status = "" /\ src'.restore = "none"
        /\ src'.intent = FALSE /\ src'.local = TRUE
    BY <1>1, <2>1, NewObjectFields DEF TierPut
  <2>4. src.status = "" /\ remote' = remote /\ op' = op /\ op = "idle"
    BY <1>1 DEF TierPut
  <2>5. rule' \in BOOLEAN
    BY <1>1 DEF TierPut, TierTypeOK
  <2>6. TierTypeOK'
    <3>1. UNCHANGED <<remote, op, tasks, expiries, faults>>
      BY <1>1 DEF TierPut
    <3>2. 1..puts \subseteq 1..puts' /\ puts' \in 0..MaxUploads
      BY SMT, <2>1, TransitionAssumption DEF Uploads
    <3> QED BY <2>2, <2>5, <3>1, <3>2 DEF TierTypeOK
  <2>7. UploadKnown'
    <3>1. src'.up = puts'
      BY <2>3
    <3> QED BY SMT, <2>1, <3>1 DEF UploadKnown
  <2>8. MetaOK'
    BY <2>3, <2>4 DEF MetaOK, ReadsLocal, NoOrphanInTier
  <2>9. OpOK'
    BY <2>3, <2>4 DEF OpOK
  <2>10. NoOrphanInTier'
    BY <2>3, <2>4 DEF NoOrphanInTier
  <2> QED BY <2>6, <2>7, <2>8, <2>9, <2>10 DEF TierIInv
<1>2. CASE TierDelete
  <2>1. src' = src
    BY <1>2 DEF TierDelete, BeginDelete, Same
  <2>2. rule' \in BOOLEAN
    BY <1>2 DEF TierDelete, BeginDelete, Same, TierTypeOK
  <2>3. TierTypeOK'
    BY <1>2, <2>1, <2>2, TransitionAssumption DEF TierDelete, BeginDelete, Same, TierTypeOK
  <2>4. UploadKnown'
    BY <2>1, <1>2 DEF TierDelete, BeginDelete, Same, UploadKnown
  <2>5. MetaOK'
    BY <2>1, <1>2 DEF TierDelete, BeginDelete, Same, MetaOK, ReadsLocal
  <2>6. OpOK'
    BY <2>1, <1>2 DEF TierDelete, BeginDelete, Same, OpOK, MetaOK, NoOrphanInTier
  <2>7. NoOrphanInTier'
    BY <2>1, <1>2 DEF TierDelete, BeginDelete, Same, NoOrphanInTier
  <2> QED BY <2>3, <2>4, <2>5, <2>6, <2>7 DEF TierIInv
<1>3. CASE BeginRestore
  <2>1. src' \in ObjectMeta
    BY <1>3 DEF BeginRestore, Same, TierTypeOK, ObjectMeta
  <2>2. /\ src'.up = src.up /\ src'.status = src.status /\ src'.restore = "ongoing"
        /\ src'.intent = src.intent /\ src'.local = src.local
    BY <1>3 DEF BeginRestore, Same, TierTypeOK, ObjectMeta
  <2>3. src.status = "complete" /\ op = "idle" /\ op' = op /\ puts' = puts /\ remote' = remote
    BY <1>3 DEF BeginRestore, Same
  <2>4. rule' \in BOOLEAN
    BY <1>3 DEF BeginRestore, Same, TierTypeOK
  <2>5. TierTypeOK'
    BY <1>3, <2>1, <2>4, TransitionAssumption DEF BeginRestore, Same, TierTypeOK
  <2>6. UploadKnown'
    BY <2>2, <2>3 DEF UploadKnown
  <2>7. MetaOK'
    BY <2>2, <2>3 DEF MetaOK, ReadsLocal
  <2>8. OpOK'
    BY <2>2, <2>3 DEF OpOK
  <2>9. NoOrphanInTier'
    BY <2>2, <2>3 DEF NoOrphanInTier
  <2> QED BY <2>5, <2>6, <2>7, <2>8, <2>9 DEF TierIInv
<1>4. CASE StartRestore
  <2>1. src' = src
    BY <1>4 DEF StartRestore, Same
  <2>2. rule' \in BOOLEAN
    BY <1>4 DEF StartRestore, Same, TierTypeOK
  <2>3. TierTypeOK'
    BY <1>4, <2>1, <2>2, TransitionAssumption DEF StartRestore, Same, TierTypeOK
  <2>4. UploadKnown'
    BY <2>1, <1>4 DEF StartRestore, Same, UploadKnown
  <2>5. MetaOK'
    BY <2>1, <1>4 DEF StartRestore, Same, MetaOK, ReadsLocal
  <2>6. OpOK'
    BY <2>1, <1>4 DEF StartRestore, Same, OpOK
  <2>7. NoOrphanInTier'
    BY <2>1, <1>4 DEF StartRestore, Same, NoOrphanInTier
  <2> QED BY <2>3, <2>4, <2>5, <2>6, <2>7 DEF TierIInv
<1>5. CASE EditRule
  <2>1. src' = src
    BY <1>5 DEF EditRule
  <2>2. rule' \in BOOLEAN
    BY <1>5 DEF EditRule, TierTypeOK
  <2>3. TierTypeOK'
    BY <1>5, <2>1, <2>2, TransitionAssumption DEF EditRule, TierTypeOK
  <2>4. UploadKnown'
    BY <2>1, <1>5 DEF EditRule, UploadKnown
  <2>5. MetaOK'
    BY <2>1, <1>5 DEF EditRule, MetaOK, ReadsLocal
  <2>6. OpOK'
    BY <2>1, <1>5 DEF EditRule, OpOK
  <2>7. NoOrphanInTier'
    BY <2>1, <1>5 DEF EditRule, NoOrphanInTier
  <2> QED BY <2>3, <2>4, <2>5, <2>6, <2>7 DEF TierIInv
<1>6. CASE RestoredExpires
  <2>1. src' \in ObjectMeta
    BY <1>6 DEF RestoredExpires, Same, TierTypeOK, ObjectMeta
  <2>2. /\ src'.up = src.up /\ src'.status = src.status /\ src'.restore = "expired"
        /\ src'.intent = src.intent /\ src'.local = src.local
    BY <1>6 DEF RestoredExpires, Same, TierTypeOK, ObjectMeta
  <2>3. src.restore = "done" /\ op = "idle" /\ op' = op /\ puts' = puts /\ remote' = remote
    BY <1>6 DEF RestoredExpires, Same
  <2>4. rule' \in BOOLEAN
    BY <1>6 DEF RestoredExpires, Same, TierTypeOK
  <2>5. TierTypeOK'
    BY <1>6, <2>1, <2>4, TransitionAssumption DEF RestoredExpires, Same, TierTypeOK
  <2>6. UploadKnown'
    BY <2>2, <2>3 DEF UploadKnown
  <2>7. MetaOK'
    BY <2>2, <2>3 DEF MetaOK, ReadsLocal
  <2>8. OpOK'
    BY <2>2, <2>3 DEF OpOK
  <2>9. NoOrphanInTier'
    BY <2>2, <2>3 DEF NoOrphanInTier
  <2> QED BY <2>5, <2>6, <2>7, <2>8, <2>9 DEF TierIInv
<1> QED BY <1>1, <1>2, <1>3, <1>4, <1>5, <1>6

\* The scanner, and the workers that take up what it queued.
LEMMA ScannerIInv ==
  ASSUME TierIInv, \/ ScanTransition \/ ScanIntent \/ ScanExpiration \/ ScanRestored
         \/ \E u \in Uploads : Expiry(u) \/ TakeTask(u)
  PROVE  TierIInv'
<1> TierTypeOK /\ UploadKnown /\ MetaOK /\ OpOK /\ NoOrphanInTier
  BY DEF TierIInv
<1>1. CASE ScanTransition
  <2>1. src' \in ObjectMeta
    BY <1>1 DEF ScanTransition, TierTypeOK, ObjectMeta
  <2>2. /\ src'.up = src.up /\ src'.status \in {src.status, "pending"}
        /\ src.status # "" => src'.status = src.status
        /\ src.status = "" => src'.status = "pending"
        /\ src'.restore = src.restore /\ src'.intent = src.intent /\ src'.local = src.local
    BY <1>1 DEF ScanTransition, TierTypeOK, ObjectMeta
  <2>3. src.up # 0 /\ op = "idle" /\ op' = op /\ puts' = puts /\ remote' = remote
    BY <1>1 DEF ScanTransition, Exists
  <2>4. rule' \in BOOLEAN
    BY <1>1 DEF ScanTransition, Exists, TierTypeOK
  <2>5. src.up \in 1..puts
    BY SMT, <2>3 DEF UploadKnown, TierTypeOK
  <2>6. TierTypeOK'
    BY <1>1, <2>1, <2>4, <2>5, TransitionAssumption DEF ScanTransition, Exists, TierTypeOK
  <2>7. UploadKnown'
    BY <2>2, <2>3 DEF UploadKnown
  <2>8. MetaOK'
    BY <2>2, <2>3 DEF MetaOK, ReadsLocal
  <2>9. OpOK'
    BY <2>2, <2>3 DEF OpOK
  <2>10. NoOrphanInTier'
    BY <2>2, <2>3 DEF NoOrphanInTier
  <2> QED BY <2>6, <2>7, <2>8, <2>9, <2>10 DEF TierIInv
<1>2. CASE ScanIntent
  <2>1. src' = src
    BY <1>2 DEF ScanIntent, Exists
  <2>2. rule' \in BOOLEAN
    BY <1>2 DEF ScanIntent, Exists, TierTypeOK
  <2>3. src.up \in 1..puts
    BY SMT, <1>2 DEF ScanIntent, Exists, UploadKnown, TierTypeOK
  <2>4. TierTypeOK'
    BY <1>2, <2>1, <2>2, <2>3, TransitionAssumption DEF ScanIntent, Exists, TierTypeOK
  <2>5. UploadKnown'
    BY <2>1, <1>2 DEF ScanIntent, Exists, UploadKnown
  <2>6. MetaOK'
    BY <2>1, <1>2 DEF ScanIntent, Exists, MetaOK, ReadsLocal
  <2>7. OpOK'
    BY <2>1, <1>2 DEF ScanIntent, Exists, OpOK
  <2>8. NoOrphanInTier'
    BY <2>1, <1>2 DEF ScanIntent, Exists, NoOrphanInTier
  <2> QED BY <2>4, <2>5, <2>6, <2>7, <2>8 DEF TierIInv
<1>3. CASE ScanExpiration
  <2>1. src' = src
    BY <1>3 DEF ScanExpiration, BeginDelete, Same
  <2>2. rule' \in BOOLEAN
    BY <1>3 DEF ScanExpiration, BeginDelete, Same, TierTypeOK
  <2>3. TierTypeOK'
    BY <1>3, <2>1, <2>2, TransitionAssumption DEF ScanExpiration, BeginDelete, Same, TierTypeOK
  <2>4. UploadKnown'
    BY <2>1, <1>3 DEF ScanExpiration, BeginDelete, Same, UploadKnown
  <2>5. MetaOK'
    BY <2>1, <1>3 DEF ScanExpiration, BeginDelete, Same, MetaOK, ReadsLocal
  <2>6. OpOK'
    BY <2>1, <1>3 DEF ScanExpiration, BeginDelete, Same, OpOK, MetaOK, NoOrphanInTier
  <2>7. NoOrphanInTier'
    BY <2>1, <1>3 DEF ScanExpiration, BeginDelete, Same, NoOrphanInTier
  <2> QED BY <2>3, <2>4, <2>5, <2>6, <2>7 DEF TierIInv
<1>4. CASE ScanRestored
  <2>1. src' \in ObjectMeta
    BY <1>4 DEF ScanRestored, Same, TierTypeOK, ObjectMeta
  <2>2. /\ src'.up = src.up /\ src'.status = src.status /\ src'.restore = "none"
        /\ src'.intent = src.intent /\ src'.local = src.local
    BY <1>4 DEF ScanRestored, Same, TierTypeOK, ObjectMeta
  <2>3. src.status = "complete" /\ ~src.intent /\ src.restore = "expired" /\ op' = "shed" /\ puts' = puts /\ remote' = remote
    BY <1>4 DEF ScanRestored, Same
  <2>4. rule' \in BOOLEAN
    BY <1>4 DEF ScanRestored, Same, TierTypeOK
  <2>5. TierTypeOK'
    BY <1>4, <2>1, <2>4, TransitionAssumption DEF ScanRestored, Same, TierTypeOK
  <2>6. UploadKnown'
    BY <2>2, <2>3 DEF UploadKnown
  <2>7. MetaOK'
    BY <2>2, <2>3 DEF MetaOK, ReadsLocal
  <2>8. OpOK'
    BY <2>2, <2>3 DEF OpOK
  <2>9. NoOrphanInTier'
    BY <2>2, <2>3 DEF NoOrphanInTier
  <2> QED BY <2>5, <2>6, <2>7, <2>8, <2>9 DEF TierIInv
<1>5. ASSUME NEW u \in Uploads, Expiry(u) PROVE TierIInv'
  <2>1. src' = src
    BY <1>5 DEF Expiry, BeginDelete
  <2>2. rule' \in BOOLEAN
    BY <1>5 DEF Expiry, BeginDelete, TierTypeOK
  <2>3. TierTypeOK'
    BY <1>5, <2>1, <2>2, TransitionAssumption DEF Expiry, BeginDelete, TierTypeOK
  <2>4. UploadKnown'
    BY <2>1, <1>5 DEF Expiry, BeginDelete, UploadKnown
  <2>5. MetaOK'
    BY <2>1, <1>5 DEF Expiry, BeginDelete, MetaOK, ReadsLocal
  <2>6. OpOK'
    BY <2>1, <1>5 DEF Expiry, BeginDelete, OpOK, MetaOK, NoOrphanInTier
  <2>7. NoOrphanInTier'
    BY <2>1, <1>5 DEF Expiry, BeginDelete, NoOrphanInTier
  <2> QED BY <2>3, <2>4, <2>5, <2>6, <2>7 DEF TierIInv
<1>6. ASSUME NEW u \in Uploads, TakeTask(u) PROVE TierIInv'
  <2>1. src' = src
    BY <1>6 DEF TakeTask, TaskStep
  <2>2. rule' \in BOOLEAN
    BY <1>6 DEF TakeTask, TaskStep, TierTypeOK
  <2>3. TierTypeOK'
    BY <1>6, <2>1, <2>2, TransitionAssumption DEF TakeTask, TaskStep, TierTypeOK
  <2>4. UploadKnown'
    BY <2>1, <1>6 DEF TakeTask, TaskStep, UploadKnown
  <2>5. MetaOK'
    BY <2>1, <1>6 DEF TakeTask, TaskStep, MetaOK, ReadsLocal
  <2>6. OpOK'
    BY <2>1, <1>6 DEF TakeTask, TaskStep, OpOK, MetaOK
  <2>7. NoOrphanInTier'
    BY <2>1, <1>6 DEF TakeTask, TaskStep, NoOrphanInTier
  <2> QED BY <2>3, <2>4, <2>5, <2>6, <2>7 DEF TierIInv
<1> QED BY <1>1, <1>2, <1>3, <1>4, <1>5, <1>6

\* The steps of an operation that has the lock.
LEMMA StepsIInv ==
  ASSUME TierIInv, Steps
  PROVE  TierIInv'
<1> TierTypeOK /\ UploadKnown /\ MetaOK /\ OpOK /\ NoOrphanInTier
  BY DEF TierIInv
<1>1. CASE Upload
  <2>1. src' = src
    BY <1>1 DEF Upload, Same
  <2>2. rule' \in BOOLEAN
    BY <1>1 DEF Upload, Same, TierTypeOK
  <2>3. src.up # 0
    BY <1>1 DEF Upload, OpOK, MetaOK
  <2>4. src.up \in 1..puts
    BY SMT, <2>3 DEF UploadKnown, TierTypeOK
  <2>5. TierTypeOK'
    BY <1>1, <2>1, <2>2, <2>4, TransitionAssumption DEF Upload, Same, TierTypeOK
  <2>6. UploadKnown'
    BY <2>1, <1>1 DEF Upload, Same, UploadKnown
  <2>7. MetaOK'
    BY <2>1, <1>1 DEF Upload, Same, MetaOK, ReadsLocal, OpOK
  <2>8. OpOK'
    BY <2>1, <1>1 DEF Upload, Same, OpOK
  <2>9. NoOrphanInTier'
    BY <2>1, <1>1 DEF Upload, Same, NoOrphanInTier, OpOK, MetaOK
  <2> QED BY <2>5, <2>6, <2>7, <2>8, <2>9 DEF TierIInv
<1>2. CASE Commit
  <2>1. src' \in ObjectMeta
    BY <1>2 DEF Commit, Same, TierTypeOK, ObjectMeta
  <2>2. /\ src'.up = src.up /\ src'.status = "complete" /\ src'.restore = "none"
        /\ src'.intent = src.intent /\ src'.local = src.local
    BY <1>2 DEF Commit, Same, TierTypeOK, ObjectMeta
  <2>3. op = "commit" /\ op' = "shed" /\ puts' = puts /\ remote' = remote
    BY <1>2 DEF Commit, Same
  <2>4. rule' \in BOOLEAN
    BY <1>2 DEF Commit, Same, TierTypeOK
  <2>5. TierTypeOK'
    BY <1>2, <2>1, <2>4, TransitionAssumption DEF Commit, Same, TierTypeOK
  <2>6. UploadKnown'
    BY <2>2, <2>3 DEF UploadKnown
  <2>7. MetaOK'
    BY <2>2, <2>3 DEF MetaOK, ReadsLocal, OpOK
  <2>8. OpOK'
    BY <2>2, <2>3 DEF OpOK
  <2>9. NoOrphanInTier'
    BY <2>2, <2>3 DEF NoOrphanInTier
  <2> QED BY <2>5, <2>6, <2>7, <2>8, <2>9 DEF TierIInv
<1>3. CASE ShedLocal
  <2>1. src' \in ObjectMeta
    BY <1>3 DEF ShedLocal, Same, TierTypeOK, ObjectMeta
  <2>2. /\ src'.up = src.up /\ src'.status = src.status /\ src'.restore = src.restore
        /\ src'.intent = src.intent /\ src'.local = FALSE
    BY <1>3 DEF ShedLocal, Same, TierTypeOK, ObjectMeta
  <2>3. op = "shed" /\ op' = "idle" /\ puts' = puts /\ remote' = remote
    BY <1>3 DEF ShedLocal, Same
  <2>4. rule' \in BOOLEAN
    BY <1>3 DEF ShedLocal, Same, TierTypeOK
  <2>5. TierTypeOK'
    BY <1>3, <2>1, <2>4, TransitionAssumption DEF ShedLocal, Same, TierTypeOK
  <2>6. UploadKnown'
    BY <2>2, <2>3 DEF UploadKnown
  <2>7. MetaOK'
    BY <2>2, <2>3 DEF MetaOK, ReadsLocal, OpOK
  <2>8. OpOK'
    BY <2>2, <2>3 DEF OpOK
  <2>9. NoOrphanInTier'
    BY <2>2, <2>3 DEF NoOrphanInTier
  <2> QED BY <2>5, <2>6, <2>7, <2>8, <2>9 DEF TierIInv
<1>4. CASE Fetch
  <2>1. src' \in ObjectMeta
    BY <1>4 DEF Fetch, TierTypeOK, ObjectMeta
  <2>2. src.up \in remote
    BY <1>4 DEF Fetch, OpOK, MetaOK
  <2>3. /\ src'.up = src.up /\ src'.status = src.status /\ src'.restore = "done"
        /\ src'.intent = src.intent /\ src'.local = TRUE
    BY <1>4, <2>2 DEF Fetch, TierTypeOK, ObjectMeta
  <2>4. op = "fetch" /\ op' = "idle" /\ puts' = puts /\ remote' = remote
    BY <1>4 DEF Fetch, Same
  <2>5. rule' \in BOOLEAN
    BY <1>4 DEF Fetch, Same, TierTypeOK
  <2>6. TierTypeOK'
    BY <1>4, <2>1, <2>5, TransitionAssumption DEF Fetch, Same, TierTypeOK
  <2>7. UploadKnown'
    BY <2>3, <2>4 DEF UploadKnown
  <2>8. MetaOK'
    BY <2>3, <2>4 DEF MetaOK, ReadsLocal, OpOK
  <2>9. OpOK'
    BY <2>3, <2>4 DEF OpOK
  <2>10. NoOrphanInTier'
    BY <2>3, <2>4 DEF NoOrphanInTier
  <2> QED BY <2>6, <2>7, <2>8, <2>9, <2>10 DEF TierIInv
<1>5. CASE PersistIntent
  <2>1. src' \in ObjectMeta
    BY <1>5 DEF PersistIntent, Same, TierTypeOK, ObjectMeta
  <2>2. /\ src'.up = src.up /\ src'.status = src.status /\ src'.restore = src.restore
        /\ src'.intent = TRUE /\ src'.local = src.local
    BY <1>5 DEF PersistIntent, Same, TierTypeOK, ObjectMeta
  <2>3. op = "intent" /\ op' = "remove" /\ puts' = puts /\ remote' = remote
    BY <1>5 DEF PersistIntent, Same
  <2>4. rule' \in BOOLEAN
    BY <1>5 DEF PersistIntent, Same, TierTypeOK
  <2>5. TierTypeOK'
    BY <1>5, <2>1, <2>4, TransitionAssumption DEF PersistIntent, Same, TierTypeOK
  <2>6. UploadKnown'
    BY <2>2, <2>3 DEF UploadKnown
  <2>7. MetaOK'
    BY <2>2, <2>3 DEF MetaOK, ReadsLocal, OpOK
  <2>8. OpOK'
    BY <2>2, <2>3 DEF OpOK
  <2>9. NoOrphanInTier'
    BY <2>2, <2>3 DEF NoOrphanInTier
  <2> QED BY <2>5, <2>6, <2>7, <2>8, <2>9 DEF TierIInv
<1>6. CASE RemoveRemote
  <2>1. src' = src
    BY <1>6 DEF RemoveRemote, Same
  <2>2. rule' \in BOOLEAN
    BY <1>6 DEF RemoveRemote, Same, TierTypeOK
  <2>3. TierTypeOK'
    BY <1>6, <2>1, <2>2, TransitionAssumption DEF RemoveRemote, Same, TierTypeOK
  <2>4. UploadKnown'
    BY <2>1, <1>6 DEF RemoveRemote, Same, UploadKnown
  <2>5. MetaOK'
    BY <2>1, <1>6 DEF RemoveRemote, Same, MetaOK, ReadsLocal, OpOK
  <2>6. OpOK'
    BY <2>1, <1>6 DEF RemoveRemote, Same, OpOK
  <2>7. NoOrphanInTier'
    BY <2>1, <1>6 DEF RemoveRemote, Same, NoOrphanInTier
  <2> QED BY <2>3, <2>4, <2>5, <2>6, <2>7 DEF TierIInv
<1>7. CASE PurgeLocal
  <2>1. src' \in ObjectMeta
    BY <1>7, NoObjectFields DEF PurgeLocal
  <2>2. /\ src'.up = 0 /\ src'.status = "" /\ src'.restore = "none"
        /\ src'.intent = FALSE /\ src'.local = FALSE
    BY <1>7, NoObjectFields DEF PurgeLocal
  <2>3. op = "purge" /\ op' = "idle" /\ puts' = puts /\ remote' = remote
    BY <1>7 DEF PurgeLocal, Same
  <2>4. rule' \in BOOLEAN
    BY <1>7 DEF PurgeLocal, Same, TierTypeOK
  <2>5. TierTypeOK'
    BY <1>7, <2>1, <2>4, TransitionAssumption DEF PurgeLocal, Same, TierTypeOK
  <2>6. UploadKnown'
    <3>1. puts' \in Nat
      BY SMT, <2>3, TransitionAssumption DEF TierTypeOK
    <3>2. src'.up = 0
      BY <2>2
    <3> QED BY SMT, <3>1, <3>2 DEF UploadKnown
  <2>7. MetaOK'
    BY <2>2, <2>3 DEF MetaOK, ReadsLocal
  <2>8. OpOK'
    BY <2>2, <2>3 DEF OpOK
  <2>9. NoOrphanInTier'
    BY <2>2, <2>3 DEF NoOrphanInTier, OpOK
  <2> QED BY <2>5, <2>6, <2>7, <2>8, <2>9 DEF TierIInv
<1> QED BY <1>1, <1>2, <1>3, <1>4, <1>5, <1>6, <1>7 DEF Steps

\* Failures, lost replies and restarts.
LEMMA FaultIInv ==
  ASSUME TierIInv, Fail \/ ReplyLost \/ TierCrash
  PROVE  TierIInv'
<1> TierTypeOK /\ UploadKnown /\ MetaOK /\ OpOK /\ NoOrphanInTier
  BY DEF TierIInv
<1>1. CASE Fail
  <2>1. src' = src
    BY <1>1 DEF Fail, Fault
  <2>2. rule' \in BOOLEAN
    BY <1>1 DEF Fail, Fault, TierTypeOK
  <2>3. TierTypeOK'
    BY SMT, <1>1, <2>1, <2>2, TransitionAssumption DEF Fail, Fault, TierTypeOK
  <2>4. UploadKnown'
    BY <2>1, <1>1 DEF Fail, Fault, UploadKnown
  <2>5. MetaOK'
    BY <2>1, <1>1 DEF Fail, Fault, MetaOK, ReadsLocal
  <2>6. OpOK'
    BY <2>1, <1>1 DEF Fail, Fault, OpOK
  <2>7. NoOrphanInTier'
    BY <2>1, <1>1 DEF Fail, Fault, NoOrphanInTier
  <2> QED BY <2>3, <2>4, <2>5, <2>6, <2>7 DEF TierIInv
<1>2. CASE ReplyLost
  <2>1. src' = src
    BY <1>2 DEF ReplyLost, Fault
  <2>2. rule' \in BOOLEAN
    BY <1>2 DEF ReplyLost, Fault, TierTypeOK
  <2>3. TierTypeOK'
    <3>1. op = "upload" => src.up # 0
      BY DEF OpOK, MetaOK
    <3>2. op = "upload" => src.up \in 1..puts
      BY SMT, <3>1 DEF UploadKnown, TierTypeOK
    <3>3. remote' \subseteq 1..puts
      BY <1>2, <3>2 DEF ReplyLost, TierTypeOK
    <3>4. faults' \in 0..MaxFaults /\ op' = "idle" /\ UNCHANGED <<puts, tasks, expiries>>
      BY SMT, <1>2, TransitionAssumption DEF ReplyLost, Fault, TierTypeOK
    <3> QED BY <2>1, <2>2, <3>3, <3>4 DEF TierTypeOK
  <2>4. UploadKnown'
    BY <2>1, <1>2 DEF ReplyLost, Fault, UploadKnown
  <2>5. MetaOK'
    BY <2>1, <1>2 DEF ReplyLost, Fault, MetaOK, ReadsLocal, OpOK
  <2>6. OpOK'
    BY <2>1, <1>2 DEF ReplyLost, Fault, OpOK
  <2>7. NoOrphanInTier'
    BY <2>1, <1>2 DEF ReplyLost, Fault, NoOrphanInTier, OpOK, MetaOK
  <2> QED BY <2>3, <2>4, <2>5, <2>6, <2>7 DEF TierIInv
<1>3. CASE TierCrash
  <2>1. src' = src
    BY <1>3 DEF TierCrash, Fault
  <2>2. rule' \in BOOLEAN
    BY <1>3 DEF TierCrash, Fault, TierTypeOK
  <2>3. TierTypeOK'
    BY SMT, <1>3, <2>1, <2>2, TransitionAssumption DEF TierCrash, Fault, TierTypeOK
  <2>4. UploadKnown'
    BY <2>1, <1>3 DEF TierCrash, Fault, UploadKnown
  <2>5. MetaOK'
    BY <2>1, <1>3 DEF TierCrash, Fault, MetaOK, ReadsLocal
  <2>6. OpOK'
    BY <2>1, <1>3 DEF TierCrash, Fault, OpOK
  <2>7. NoOrphanInTier'
    BY <2>1, <1>3 DEF TierCrash, Fault, NoOrphanInTier
  <2> QED BY <2>3, <2>4, <2>5, <2>6, <2>7 DEF TierIInv
<1> QED BY <1>1, <1>2, <1>3

\* Every step keeps the inductive invariant.
LEMMA TierNextIInv == TierIInv /\ [TierNext]_tierVars => TierIInv'
<1> SUFFICES ASSUME TierIInv, [TierNext]_tierVars PROVE TierIInv'
  OBVIOUS
<1>1. CASE UNCHANGED tierVars
  BY <1>1 DEF tierVars, TierIInv, TierTypeOK, UploadKnown, MetaOK, OpOK, NoOrphanInTier, ReadsLocal
<1>2. CASE TierNext
  BY <1>2, ClientIInv, ScannerIInv, StepsIInv, FaultIInv DEF TierNext
<1> QED BY <1>1, <1>2

\* The inductive invariant holds whatever uploads, deletes, restores, rule changes and faults there are.
THEOREM TierInvariantHolds == TierSpec => []TierIInv
BY TierInitIInv, TierNextIInv, PTL DEF TierSpec

\* The type invariant of Transition, for any number of uploads and faults.
THEOREM TierTypeCorrect == TierSpec => []TierTypeOK
<1>1. TierIInv => TierTypeOK
  BY DEF TierIInv
<1> QED BY <1>1, TierInvariantHolds, PTL

\* An object whose deletion has not begun can be read, and what is in the tier
\* is recorded in its metadata, after any crash, failed call and lost reply.
THEOREM TierSoundHolds == TierSpec => []TierSound
<1>1. TierIInv => TierSound
  BY DEF TierIInv, TierSound, TierReadable, NoOrphanInTier, MetaOK, Exists, ReadsLocal, TierTypeOK
<1> QED BY <1>1, TierInvariantHolds, PTL

\* No step takes a recorded intent back.
LEMMA IntentStep ==
  ASSUME TierIInv, TierNext, src.intent
  PROVE  src' = NoObject \/ (src'.intent /\ src'.up = src.up /\ (src'.local => src.local))
<1> DEFINE Kept == src'.intent /\ src'.up = src.up /\ (src'.local => src.local)
<1> TierTypeOK /\ MetaOK /\ OpOK
  BY DEF TierIInv
<1>1. ASSUME NEW u \in Uploads, Expiry(u) \/ TakeTask(u) PROVE src' = src
  BY <1>1 DEF Expiry, TakeTask
<1>2. CASE TierDelete \/ StartRestore \/ EditRule \/ ScanIntent \/ ScanExpiration
  <2>1. src' = src
    BY <1>2 DEF TierDelete, StartRestore, EditRule, ScanIntent, ScanExpiration
  <2> QED BY <2>1
<1>3. CASE Fail \/ ReplyLost \/ TierCrash \/ Upload \/ RemoveRemote
  <2>1. src' = src
    BY <1>3 DEF Fail, ReplyLost, TierCrash, Upload, RemoveRemote
  <2> QED BY <2>1
<1>4. CASE TierPut \/ BeginRestore \/ ScanRestored \/ Commit \/ Fetch \/ ShedLocal
  BY <1>4 DEF TierPut, BeginRestore, ScanRestored, Commit, Fetch, ShedLocal, MetaOK, OpOK
<1>5. CASE ScanTransition
  BY <1>5 DEF ScanTransition, Prepared
<1>6. CASE RestoredExpires
  <2>1. Kept
    BY <1>6 DEF RestoredExpires, TierTypeOK, ObjectMeta
  <2> QED BY <2>1
<1>7. CASE PersistIntent
  <2>1. Kept
    BY <1>7 DEF PersistIntent, TierTypeOK, ObjectMeta
  <2> QED BY <2>1
<1>8. CASE PurgeLocal
  BY <1>8 DEF PurgeLocal
<1> QED BY <1>1, <1>2, <1>3, <1>4, <1>5, <1>6, <1>7, <1>8 DEF TierNext, Steps

\* A deletion whose intent is recorded is not taken back by a restore, a
\* transition, an upload, the scanner or a restart.
THEOREM IntentIsFinalHolds == TierSpec => IntentIsFinal
<1> DEFINE A == src.intent => src' = NoObject \/ (src'.intent /\ src'.up = src.up /\ (src'.local => src.local))
<1>1. TierIInv /\ [TierNext]_tierVars => [A]_tierVars
  BY IntentStep
<1> QED BY <1>1, TierInvariantHolds, PTL DEF TierSpec, IntentIsFinal

-----------------------------------------------------------------------------
(* Multipart.  An upload is one directory that part requests, completions and *)
(* the clean-up share.  What keeps a completion sound is that the files agree *)
(* with its list from the moment it checked them: part requests write under   *)
(* the lock of the upload, which a completion holds as a reader, and only one *)
(* completion runs at a time (~Overlap).  The code does not enforce the last, *)
(* and Multipart_overlap.cfg shows what happens without it.  The clean-up     *)
(* takes no lock; it removes everything or nothing, and swept says that it    *)
(* did.                                                                       *)

InWrite(r) == put[r].pc \in {"rename", "record"}
Running(c) == complete[c].pc # "idle"

\* Nothing happens before the upload is created.
Fresh ==
  ~started => /\ ~up.live
              /\ \A r \in Putters : put[r].pc = "idle"
              /\ \A c \in Completers : ~Running(c)

\* A part request that runs is about a part, and has a body.
PutOK == \A r \in Putters : put[r].pc # "idle" => put[r].part \in Parts /\ put[r].body \in Bodies

\* The lock of the upload, and the clients that complete it once at a time.
OneWriter == \A r, q \in Putters : InWrite(r) /\ InWrite(q) => r = q
WriterAlone == \A r \in Putters, c \in Completers : InWrite(r) => ~Running(c)
OneCompletion == \A c, d \in Completers : Running(c) /\ Running(d) => c = d

DeadUp == ~up.live => up.parts = NoParts

\* A part recorded with its ETag has a file, which is that part unless a newer
\* one was renamed over it and is not recorded, yet or ever.
Recording(p) == \E r \in Putters : put[r].pc = "record" /\ put[r].part = p
Agree ==
  \A p \in Parts : up.parts[p] \in Bodies =>
    files[p] # Nothing /\ (p \in torn \/ files[p] = up.parts[p] \/ Recording(p))
Recorded ==
  \A r \in Putters : put[r].pc = "record" /\ up.live => files[put[r].part] = put[r].body

Strays == ~swept => (~up.live => files = NoParts) /\ (WriteLocked => up.live)

\* What a running completion lists is on the drives, or the clean-up took all.
ListIntact ==
  \A c \in Completers : Running(c) =>
    /\ \E p \in Parts : complete[c].list[p] # Nothing
    /\ \/ files = NoParts /\ swept
       \/ \A p \in Parts : complete[c].list[p] # Nothing =>
            files[p] # Nothing /\ (p \in torn \/ files[p] = complete[c].list[p])

Finalized ==
  \A c \in Completers : complete[c].pc = "trim" => \A p \in Parts : up.parts[p] \notin Bodies

\* Once there is an object, the upload is over.
Committed == object # NoParts => started /\ ~up.live /\ \A c \in Completers : ~Running(c)

MPIInv ==
  /\ MPTypeOK /\ Fresh /\ PutOK /\ OneWriter /\ WriterAlone /\ OneCompletion /\ DeadUp
  /\ Agree /\ Recorded /\ Strays /\ ListIntact /\ Finalized /\ Committed
  /\ CompletedIntact /\ PreviousKept


\* What stands for no part, and for a part without an ETag, is not a body.
LEMMA BodiesFacts == Nothing \notin Bodies /\ Blank \notin Bodies /\ Blank # Nothing
BY SMT DEF Nothing, Blank, Bodies

\* An upload that is gone.
LEMMA GoneFacts ==
  /\ Gone \in UploadMeta /\ Gone.live = FALSE /\ Gone.parts = NoParts
  /\ NoParts \in [Parts -> Bodies \cup {Nothing}]
  /\ \A p \in Parts : NoParts[p] = Nothing
BY DEF Gone, UploadMeta, NoParts

\* Requests that are not running.
LEMMA IdleFacts ==
  /\ IdlePut \in PartRequest /\ IdlePut.pc = "idle"
  /\ IdleComplete \in CompleteRequest /\ IdleComplete.pc = "idle"
BY DEF IdlePut, PartRequest, IdleComplete, CompleteRequest, NoParts

\* xl.meta as a completion writes it lists parts without ETags.
LEMMA FinalMetaFacts ==
  ASSUME NEW r \in Completers
  PROVE  /\ FinalMeta(r) \in UploadMeta /\ FinalMeta(r).live = TRUE
         /\ \A p \in Parts : FinalMeta(r).parts[p] \notin Bodies
BY BodiesFacts DEF FinalMeta, UploadMeta

\* A part request begins.
LEMMA StartPartIInv ==
  ASSUME MPIInv, NEW r \in Putters, NEW p \in Parts, StartPart(r, p)
  PROVE  MPIInv'
<1> USE DEF MPIInv
<1>1. UNCHANGED <<started, up, files, object, data, previous, versioned, complete, sweep, acked, torn, swept>> /\ UNCHANGED fails
  BY DEF StartPart, PutUnchanged
<1>2. sent' \in 0..MaxSent /\ sent' \in Bodies
  BY SMT, MultipartAssumption DEF StartPart, MPTypeOK, Bodies
<1>3. put' = [put EXCEPT ![r] = [pc |-> "body", part |-> p, body |-> sent']]
  BY DEF StartPart
<1>4. put' \in [Putters -> PartRequest]
  BY <1>2, <1>3 DEF MPTypeOK, PartRequest
<1>5. \A q \in Putters : q # r => put'[q] = put[q]
  BY <1>3 DEF MPTypeOK
<1>6. /\ put[r].pc = "idle" /\ put'[r].pc = "body"
        /\ put'[r].part = p /\ put'[r].body = sent'
  BY SMT, <1>3 DEF StartPart, MPTypeOK
<1>7. up.live /\ ~WriteLocked
  BY DEF StartPart
<1>8. MPTypeOK'
  BY <1>1, <1>2, <1>4 DEF MPTypeOK
<1>9. Fresh'
  BY <1>1, <1>7 DEF Fresh, Running
<1>10. PutOK'
  BY <1>2, <1>5, <1>6 DEF PutOK
<1>11. OneWriter'
  BY <1>5, <1>6 DEF OneWriter, InWrite
<1>12. WriterAlone'
  BY <1>1, <1>5, <1>6 DEF WriterAlone, InWrite, Running
<1>13. Agree'
  BY SMT, <1>1, <1>5, <1>6 DEF Agree, Recording
<1>14. Recorded'
  BY <1>1, <1>5, <1>6 DEF Recorded
<1>15. Strays'
  BY <1>1, <1>5, <1>6 DEF Strays, WriteLocked
<1>16. OneCompletion' /\ DeadUp' /\ ListIntact' /\ Finalized' /\ Committed' /\ CompletedIntact' /\ PreviousKept'
  BY <1>1 DEF OneCompletion, Running, DeadUp, ListIntact, Finalized, Committed, CompletedIntact, PreviousKept
<1> QED BY <1>8, <1>9, <1>10, <1>11, <1>12, <1>13, <1>14, <1>15, <1>16

\* The body is in a temporary file.
LEMMA EncodePartIInv ==
  ASSUME MPIInv, NEW r \in Putters, EncodePart(r)
  PROVE  MPIInv'
<1> USE DEF MPIInv
<1>1. UNCHANGED <<started, up, files, object, data, previous, versioned, complete, sweep, acked, torn, swept>> /\ UNCHANGED <<sent, fails>>
  BY DEF EncodePart, PutUnchanged
<1>2. put' \in [Putters -> PartRequest]
  BY SMT DEF EncodePart, MPTypeOK, PartRequest
<1>3. \A q \in Putters : q # r => put'[q] = put[q]
  BY DEF EncodePart, MPTypeOK
<1>4. /\ put[r].pc = "body" /\ put'[r].pc = "wait"
        /\ put'[r].part = put[r].part /\ put'[r].body = put[r].body
  BY DEF EncodePart, MPTypeOK, PartRequest
<1>5. MPTypeOK'
  BY <1>1, <1>2 DEF MPTypeOK
<1>6. Fresh'
  BY <1>1, <1>3, <1>4 DEF Fresh, Running
<1>7. PutOK'
  BY <1>3, <1>4 DEF PutOK
<1>8. OneWriter'
  BY <1>3, <1>4 DEF OneWriter, InWrite
<1>9. WriterAlone'
  BY <1>1, <1>3, <1>4 DEF WriterAlone, InWrite, Running
<1>10. Agree'
  BY SMT, <1>1, <1>3, <1>4 DEF Agree, Recording
<1>11. Recorded'
  BY <1>1, <1>3, <1>4 DEF Recorded
<1>12. Strays'
  BY <1>1, <1>3, <1>4 DEF Strays, WriteLocked
<1>13. OneCompletion' /\ DeadUp' /\ ListIntact' /\ Finalized' /\ Committed' /\ CompletedIntact' /\ PreviousKept'
  BY <1>1 DEF OneCompletion, Running, DeadUp, ListIntact, Finalized, Committed, CompletedIntact, PreviousKept
<1> QED BY <1>5, <1>6, <1>7, <1>8, <1>9, <1>10, <1>11, <1>12, <1>13

\* The write lock is taken, and the upload looked up again.
LEMMA LockPartIInv ==
  ASSUME MPIInv, NEW r \in Putters, LockPart(r)
  PROVE  MPIInv'
<1> USE DEF MPIInv
<1>1. UNCHANGED <<started, up, files, object, data, previous, versioned, complete, sweep, acked, torn, swept>> /\ UNCHANGED <<sent, fails>>
  BY DEF LockPart, PutUnchanged
<1>2. put[r].pc = "wait" /\ ~WriteLocked /\ ~ReadLocked
  BY DEF LockPart
<1>3. put' \in [Putters -> PartRequest]
  BY SMT, IdleFacts DEF LockPart, MPTypeOK, PartRequest
<1>4. \A q \in Putters : q # r => put'[q] = put[q]
  BY DEF LockPart, MPTypeOK
<1>5. put'[r] = IF up.live THEN [put[r] EXCEPT !.pc = "rename"] ELSE IdlePut
  BY DEF LockPart, MPTypeOK
<1>6. ~up.live => put'[r].pc = "idle"
  BY <1>5, IdleFacts
<1>7. up.live => /\ put'[r].pc = "rename"
                   /\ put'[r].part = put[r].part /\ put'[r].body = put[r].body
  BY SMT, <1>5 DEF MPTypeOK, PartRequest
<1>8. MPTypeOK'
  BY <1>1, <1>3 DEF MPTypeOK
<1>9. Fresh'
  BY <1>1, <1>2 DEF Fresh, Running
<1>10. PutOK'
  BY <1>2, <1>4, <1>6, <1>7 DEF PutOK
<1>11. OneWriter'
  BY <1>2, <1>4 DEF OneWriter, InWrite, WriteLocked
<1>12. WriterAlone'
  BY <1>1, <1>2 DEF WriterAlone, InWrite, Running, ReadLocked
<1>13. Agree'
  BY SMT, <1>1, <1>2, <1>4, <1>6, <1>7 DEF Agree, Recording
<1>14. Recorded'
  BY <1>1, <1>4, <1>6, <1>7 DEF Recorded
<1>15. Strays'
  BY <1>1, <1>2, <1>4, <1>6, <1>7 DEF Strays, WriteLocked
<1>16. OneCompletion' /\ DeadUp' /\ ListIntact' /\ Finalized' /\ Committed' /\ CompletedIntact' /\ PreviousKept'
  BY <1>1 DEF OneCompletion, Running, DeadUp, ListIntact, Finalized, Committed, CompletedIntact, PreviousKept
<1> QED BY <1>8, <1>9, <1>10, <1>11, <1>12, <1>13, <1>14, <1>15, <1>16

\* The part file is renamed into place, under the write lock.
LEMMA RenamePartIInv ==
  ASSUME MPIInv, NEW r \in Putters, RenamePart(r)
  PROVE  MPIInv'
<1> USE DEF MPIInv
<1>1. UNCHANGED <<started, object, data, previous, versioned, complete, sweep, swept>> /\ UNCHANGED <<up, acked, sent, fails, torn>>
  BY DEF RenamePart, PutUnchanged
<1>2. put[r].pc = "rename" /\ put[r].part \in Parts /\ put[r].body \in Bodies
  BY DEF RenamePart, PutOK
<1>3. put' \in [Putters -> PartRequest]
  BY SMT DEF RenamePart, MPTypeOK, PartRequest
<1>4. \A q \in Putters : q # r => put'[q] = put[q]
  BY DEF RenamePart, MPTypeOK
<1>5. /\ put'[r].pc = "record"
        /\ put'[r].part = put[r].part /\ put'[r].body = put[r].body
  BY DEF RenamePart, MPTypeOK, PartRequest
<1>6. files' \in [Parts -> Bodies \cup {Nothing}]
  BY <1>2 DEF RenamePart, MPTypeOK
<1>7. /\ files'[put[r].part] = put[r].body
        /\ \A p \in Parts : p # put[r].part => files'[p] = files[p]
  BY <1>2 DEF RenamePart, MPTypeOK
<1>8. \A q \in Putters : InWrite(q) => q = r
  BY <1>2 DEF OneWriter, InWrite
<1>9. \A c \in Completers : ~Running(c)
  BY <1>2 DEF WriterAlone, InWrite
<1>10. swept \/ up.live
  BY <1>2 DEF Strays, WriteLocked
<1>11. MPTypeOK'
  BY <1>1, <1>3, <1>6 DEF MPTypeOK
<1>12. Fresh'
  BY <1>1, <1>2 DEF Fresh, Running
<1>13. PutOK'
  BY <1>2, <1>4, <1>5 DEF PutOK
<1>14. OneWriter'
  BY <1>4, <1>8 DEF OneWriter, InWrite
<1>15. WriterAlone'
  BY <1>1, <1>9 DEF WriterAlone, InWrite, Running
<1>16. Agree'
  BY SMT, <1>1, <1>2, <1>4, <1>5, <1>7, BodiesFacts DEF Agree, Recording
<1>17. Recorded'
  BY <1>1, <1>4, <1>5, <1>7, <1>8 DEF Recorded, InWrite
<1>18. Strays'
  BY <1>1, <1>10 DEF Strays, WriteLocked
<1>19. ListIntact'
  BY <1>1, <1>9 DEF ListIntact, Running
<1>20. OneCompletion' /\ DeadUp' /\ Finalized' /\ Committed' /\ CompletedIntact' /\ PreviousKept'
  BY <1>1 DEF OneCompletion, Running, DeadUp, Finalized, Committed, CompletedIntact, PreviousKept
<1> QED BY <1>11, <1>12, <1>13, <1>14, <1>15, <1>16, <1>17, <1>18, <1>19, <1>20

\* The part is recorded in xl.meta, if the upload is still there.
LEMMA RecordPartIInv ==
  ASSUME MPIInv, NEW r \in Putters, RecordPart(r)
  PROVE  MPIInv'
<1> USE DEF MPIInv
<1>1. UNCHANGED <<started, object, data, previous, versioned, complete, sweep, swept>> /\ UNCHANGED <<files, sent, fails>>
  BY DEF RecordPart, PutUnchanged
<1>2. put[r].pc = "record" /\ put[r].part \in Parts /\ put[r].body \in Bodies
  BY DEF RecordPart, PutOK
<1>3. put' \in [Putters -> PartRequest]
  BY IdleFacts DEF RecordPart, MPTypeOK
<1>4. \A q \in Putters : q # r => put'[q] = put[q]
  BY DEF RecordPart, MPTypeOK
<1>5. put'[r].pc = "idle"
  BY IdleFacts DEF RecordPart, MPTypeOK
<1>6. ~up.live => up' = up /\ torn' = torn
  BY DEF RecordPart
<1>7. up.live => /\ up' \in UploadMeta /\ up'.live = up.live
                   /\ up'.parts[put[r].part] = put[r].body
                   /\ \A p \in Parts : p # put[r].part => up'.parts[p] = up.parts[p]
  <2> SUFFICES ASSUME up.live PROVE up' \in UploadMeta /\ up'.live = up.live
                 /\ up'.parts[put[r].part] = put[r].body
                 /\ \A p \in Parts : p # put[r].part => up'.parts[p] = up.parts[p]
    OBVIOUS
  <2> DEFINE b == put[r].body
             p == put[r].part
  <2>1. up' = [up EXCEPT !.parts[p] = b, !.old = FALSE]
    BY DEF RecordPart
  <2>2. up \in UploadMeta /\ p \in Parts /\ b \in Bodies
    BY <1>2 DEF MPTypeOK
  <2> HIDE DEF p, b
  <2>3. /\ up'.live = up.live /\ up'.old = FALSE /\ up'.parts = [up.parts EXCEPT ![p] = b]
        /\ up.parts \in [Parts -> Bodies \cup {Nothing, Blank}] /\ up.live \in BOOLEAN
    BY <2>1, <2>2 DEF UploadMeta
  <2>4. up' = [live |-> up'.live, parts |-> up'.parts, old |-> up'.old]
    BY <2>1, <2>2 DEF UploadMeta
  <2>5. /\ up'.parts \in [Parts -> Bodies \cup {Nothing, Blank}]
        /\ up'.parts[p] = b /\ \A q \in Parts : q # p => up'.parts[q] = up.parts[q]
    BY <2>2, <2>3
  <2>6. up' \in UploadMeta
    BY <2>3, <2>4, <2>5 DEF UploadMeta
  <2> QED BY <2>3, <2>5, <2>6 DEF p, b
<1>8. up' \in UploadMeta /\ up'.live = up.live
  BY <1>6, <1>7 DEF MPTypeOK
<1>9. torn' \subseteq torn /\ \A p \in torn : p # put[r].part => p \in torn'
  BY DEF RecordPart
<1>10. acked' \in [Parts -> Bodies \cup {Nothing}]
  BY <1>2 DEF RecordPart, MPTypeOK
<1>11. \A c \in Completers : ~Running(c)
  BY <1>2 DEF WriterAlone, InWrite
<1>12. \A q \in Putters : InWrite(q) => q = r
  BY <1>2 DEF OneWriter, InWrite
<1>13. up.live => files[put[r].part] = put[r].body
  BY <1>2 DEF Recorded
<1>14. MPTypeOK'
  BY <1>1, <1>3, <1>8, <1>9, <1>10 DEF MPTypeOK
<1>15. Fresh'
  BY <1>1, <1>2 DEF Fresh, Running
<1>16. PutOK'
  BY <1>4, <1>5 DEF PutOK
<1>17. OneWriter'
  BY <1>4, <1>5 DEF OneWriter, InWrite
<1>18. WriterAlone'
  BY <1>1, <1>11 DEF WriterAlone, InWrite, Running
<1>19. DeadUp'
  BY <1>6, <1>8 DEF DeadUp
<1>20. Agree'
  <2> SUFFICES ASSUME NEW p \in Parts, up'.parts[p] \in Bodies
               PROVE  files[p] # Nothing /\ (p \in torn' \/ files[p] = up'.parts[p])
    BY <1>1 DEF Agree
  <2>1. up.live
    BY <1>6, GoneFacts, BodiesFacts DEF DeadUp
  <2>2. CASE p = put[r].part
    BY <1>2, <1>7, <1>13, <2>1, <2>2, BodiesFacts
  <2>3. CASE p # put[r].part
    <3>1. ~Recording(p)
      BY <1>12, <2>3 DEF Recording, InWrite
    <3> QED BY <1>7, <1>9, <2>1, <2>3, <3>1 DEF Agree
  <2> QED BY <2>2, <2>3
<1>21. Recorded'
  BY <1>4, <1>5, <1>12 DEF Recorded, InWrite
<1>22. Strays'
  BY <1>1, <1>4, <1>5, <1>8 DEF Strays, WriteLocked
<1>23. ListIntact'
  BY <1>1, <1>11 DEF ListIntact, Running
<1>24. Finalized'
  BY <1>1, <1>11 DEF Finalized, Running
<1>25. Committed'
  BY <1>1, <1>8 DEF Committed, Running
<1>26. CompletedIntact'
  <2>1. CASE up.live
    <3>1. object = NoParts
      BY <2>1 DEF Committed
    <3> QED BY <1>1, <3>1, GoneFacts DEF CompletedIntact
  <2>2. CASE ~up.live
    BY <1>1, <1>6, <2>2 DEF CompletedIntact
  <2> QED BY <2>1, <2>2
<1>27. OneCompletion' /\ PreviousKept'
  BY <1>1 DEF OneCompletion, Running, PreviousKept
<1> QED BY <1>14, <1>15, <1>16, <1>17, <1>18, <1>19, <1>20, <1>21, <1>22, <1>23, <1>24, <1>25, <1>26, <1>27

\* A part request fails or dies; its file may stay renamed and unrecorded.
LEMMA PartFailsIInv ==
  ASSUME MPIInv, NEW r \in Putters, PartFails(r)
  PROVE  MPIInv'
<1> USE DEF MPIInv
<1>1. UNCHANGED <<started, object, data, previous, versioned, complete, sweep, swept>> /\ UNCHANGED <<up, files, acked, sent>>
  BY DEF PartFails, PutUnchanged
<1>2. fails' \in 0..MaxFails
  BY SMT, MultipartAssumption DEF PartFails, MPTypeOK
<1>3. put' \in [Putters -> PartRequest]
  BY IdleFacts DEF PartFails, MPTypeOK
<1>4. \A q \in Putters : q # r => put'[q] = put[q]
  BY DEF PartFails, MPTypeOK
<1>5. put'[r].pc = "idle"
  BY IdleFacts DEF PartFails, MPTypeOK
<1>6. torn \subseteq torn' /\ torn' \subseteq Parts
  BY DEF PartFails, MPTypeOK, PutOK
<1>7. put[r].pc = "record" => put[r].part \in torn'
  BY DEF PartFails
<1>8. MPTypeOK'
  BY <1>1, <1>2, <1>3, <1>6 DEF MPTypeOK
<1>9. Fresh'
  BY <1>1, <1>4, <1>5 DEF Fresh, Running
<1>10. PutOK'
  BY <1>4, <1>5 DEF PutOK
<1>11. OneWriter'
  BY <1>4, <1>5 DEF OneWriter, InWrite
<1>12. WriterAlone'
  BY <1>1, <1>4, <1>5 DEF WriterAlone, InWrite, Running
<1>13. Agree'
  <2> SUFFICES ASSUME NEW p \in Parts, up.parts[p] \in Bodies
               PROVE  files[p] # Nothing /\ (p \in torn' \/ files[p] = up.parts[p] \/ Recording(p)')
    BY <1>1 DEF Agree
  <2>1. Recording(p) => p \in torn' \/ Recording(p)'
    BY <1>4, <1>7 DEF Recording
  <2> QED BY <1>6, <2>1 DEF Agree
<1>14. Recorded'
  BY <1>1, <1>4, <1>5 DEF Recorded
<1>15. Strays'
  BY <1>1, <1>4, <1>5 DEF Strays, WriteLocked
<1>16. ListIntact'
  <2> SUFFICES ASSUME NEW c \in Completers, Running(c)
               PROVE  /\ \E p \in Parts : complete[c].list[p] # Nothing
                      /\ \/ files = NoParts /\ swept
                         \/ \A p \in Parts : complete[c].list[p] # Nothing =>
                              files[p] # Nothing /\ (p \in torn' \/ files[p] = complete[c].list[p])
    BY <1>1 DEF ListIntact, Running
  <2> QED BY <1>6 DEF ListIntact
<1>17. CompletedIntact'
  BY <1>1, <1>6 DEF CompletedIntact
<1>18. OneCompletion' /\ DeadUp' /\ Finalized' /\ Committed' /\ PreviousKept'
  BY <1>1 DEF OneCompletion, Running, DeadUp, Finalized, Committed, PreviousKept
<1> QED BY <1>8, <1>9, <1>10, <1>11, <1>12, <1>13, <1>14, <1>15, <1>16, <1>17, <1>18

\* A completion checks the list of the client against xl.meta.
LEMMA BeginCompleteIInv ==
  ASSUME MPIInv, ~Overlap, NEW r \in Completers, NEW S \in SUBSET Parts, BeginComplete(r, S)
  PROVE  MPIInv'
<1> USE DEF MPIInv
<1>1. UNCHANGED <<started, object, data, previous, versioned, put, acked, sent, torn>> /\ UNCHANGED <<up, files, sweep, swept, fails>>
  BY DEF BeginComplete, CompleteUnchanged
<1>2. ~WriteLocked /\ up.live /\ \A c \in Completers : ~Running(c)
  BY DEF BeginComplete, Running
<1>3. S # {} /\ \A p \in S : acked[p] \in Bodies /\ up.parts[p] = acked[p]
  BY DEF BeginComplete, ValidParts, MPTypeOK
<1>4. complete' \in [Completers -> CompleteRequest]
  BY DEF BeginComplete, MPTypeOK, CompleteRequest
<1>5. \A c \in Completers : c # r => complete'[c] = complete[c]
  BY DEF BeginComplete, MPTypeOK
<1>6. /\ complete'[r].pc = "write"
        /\ complete'[r].list = [p \in Parts |-> IF p \in S THEN acked[p] ELSE Nothing]
  BY DEF BeginComplete, MPTypeOK
<1>7. \A p \in S : files[p] # Nothing /\ (p \in torn \/ files[p] = acked[p])
  BY <1>2, <1>3 DEF Agree, Recording, WriteLocked
<1>8. started
  BY <1>2 DEF Fresh
<1>9. MPTypeOK'
  BY <1>1, <1>4 DEF MPTypeOK
<1>10. Fresh'
  BY <1>1, <1>8 DEF Fresh, Running
<1>11. WriterAlone'
  BY <1>1, <1>2 DEF WriterAlone, InWrite, Running, WriteLocked
<1>12. OneCompletion'
  BY <1>2, <1>5 DEF OneCompletion, Running
<1>13. ListIntact'
  <2> SUFFICES ASSUME NEW c \in Completers, Running(c)'
               PROVE  /\ \E p \in Parts : complete'[c].list[p] # Nothing
                      /\ \A p \in Parts : complete'[c].list[p] # Nothing =>
                           files[p] # Nothing /\ (p \in torn \/ files[p] = complete'[c].list[p])
    BY <1>1 DEF ListIntact, Running
  <2>1. c = r
    BY <1>2, <1>5 DEF Running
  <2>2. \A p \in Parts : complete'[r].list[p] = IF p \in S THEN acked[p] ELSE Nothing
    BY <1>6
  <2> QED BY <1>3, <1>7, <2>1, <2>2, BodiesFacts
<1>14. Finalized'
  BY <1>1, <1>2, <1>5, <1>6 DEF Finalized, Running
<1>15. Committed'
  BY <1>1, <1>2 DEF Committed, Running
<1>16. PutOK' /\ OneWriter' /\ DeadUp' /\ Agree' /\ Recorded' /\ Strays' /\ CompletedIntact' /\ PreviousKept'
  BY <1>1 DEF PutOK, OneWriter, InWrite, DeadUp, Agree, Recording, Recorded, Strays, WriteLocked, CompletedIntact, PreviousKept
<1> QED BY <1>9, <1>10, <1>11, <1>12, <1>13, <1>14, <1>15, <1>16

\* A completion writes the xl.meta of the object at the upload.
LEMMA WriteFinalIInv ==
  ASSUME MPIInv, NEW r \in Completers, WriteFinal(r)
  PROVE  MPIInv'
<1> USE DEF MPIInv
<1>1. UNCHANGED <<started, object, data, previous, versioned, put, acked, sent, torn>> /\ UNCHANGED <<files, sweep, swept, fails>>
  BY DEF WriteFinal, CompleteUnchanged
<1>2. complete[r].pc = "write"
  BY DEF WriteFinal
<1>3. /\ up' \in UploadMeta /\ up'.live = TRUE
        /\ \A p \in Parts : up'.parts[p] \notin Bodies
  BY FinalMetaFacts DEF WriteFinal
<1>4. complete' = [complete EXCEPT ![r].pc = "trim"]
  BY DEF WriteFinal
<1>5. complete[r] \in CompleteRequest /\ complete'[r] = [complete[r] EXCEPT !.pc = "trim"]
  BY <1>4 DEF MPTypeOK
<1>6. complete'[r] \in CompleteRequest /\ complete'[r].pc = "trim" /\ complete'[r].list = complete[r].list
  BY <1>5 DEF CompleteRequest
<1>7. complete' \in [Completers -> CompleteRequest]
  BY <1>4, <1>6 DEF MPTypeOK
<1>8. \A c \in Completers : c # r => complete'[c] = complete[c]
  BY <1>4 DEF MPTypeOK
<1>9. object = NoParts /\ ~WriteLocked
  BY <1>2 DEF Committed, Running, WriterAlone, WriteLocked, InWrite
<1>10. \A c \in Completers : Running(c) => c = r
  BY <1>2 DEF OneCompletion, Running
<1>11. started
  BY <1>2 DEF Fresh, Running
<1>12. MPTypeOK'
  BY <1>1, <1>3, <1>7 DEF MPTypeOK
<1>13. Fresh'
  BY <1>1, <1>11 DEF Fresh, Running
<1>14. WriterAlone'
  BY <1>1, <1>9 DEF WriterAlone, InWrite, Running, WriteLocked
<1>15. OneCompletion'
  BY <1>8, <1>10 DEF OneCompletion, Running
<1>16. DeadUp'
  BY <1>3 DEF DeadUp
<1>17. Agree'
  BY <1>3 DEF Agree, Recording
<1>18. Recorded'
  BY <1>1, <1>9 DEF Recorded, WriteLocked
<1>19. Strays'
  BY <1>1, <1>3, <1>9 DEF Strays, WriteLocked
<1>20. ListIntact'
  BY SMT, <1>1, <1>2, <1>6, <1>8 DEF ListIntact, Running
<1>21. Finalized'
  BY <1>3 DEF Finalized
<1>22. Committed'
  BY <1>1, <1>9 DEF Committed, Running
<1>23. PutOK' /\ OneWriter' /\ CompletedIntact' /\ PreviousKept'
  BY <1>1 DEF PutOK, OneWriter, InWrite, CompletedIntact, PreviousKept
<1> QED BY <1>12, <1>13, <1>14, <1>15, <1>16, <1>17, <1>18, <1>19, <1>20, <1>21, <1>22, <1>23

\* A completion removes the parts that are not listed.
LEMMA TrimPartsIInv ==
  ASSUME MPIInv, NEW r \in Completers, TrimParts(r)
  PROVE  MPIInv'
<1> USE DEF MPIInv
<1>1. UNCHANGED <<started, object, data, previous, versioned, put, acked, sent, torn>> /\ UNCHANGED <<up, sweep, swept, fails>>
  BY DEF TrimParts, CompleteUnchanged
<1>2. complete[r].pc = "trim"
  BY DEF TrimParts
<1>3. files' \in [Parts -> Bodies \cup {Nothing}]
  BY DEF TrimParts, MPTypeOK
<1>4. \A p \in Parts : files'[p] = files[p] \/ (files'[p] = Nothing /\ complete[r].list[p] = Nothing)
  <2>1. files' = [p \in Parts |-> IF p \in Unlisted(r) THEN Nothing ELSE files[p]]
    BY DEF TrimParts
  <2>2. \A p \in Parts : p \in Unlisted(r) => complete[r].list[p] = Nothing
    BY DEF Unlisted, Listed
  <2>3. \A p \in Parts : files'[p] = IF p \in Unlisted(r) THEN Nothing ELSE files[p]
    BY <2>1
  <2> QED BY <2>2, <2>3
<1>5. complete' = [complete EXCEPT ![r].pc = "commit"]
  BY DEF TrimParts
<1>6. complete[r] \in CompleteRequest /\ complete'[r] = [complete[r] EXCEPT !.pc = "commit"]
  BY <1>5 DEF MPTypeOK
<1>7. complete'[r] \in CompleteRequest /\ complete'[r].pc = "commit" /\ complete'[r].list = complete[r].list
  BY <1>6 DEF CompleteRequest
<1>8. complete' \in [Completers -> CompleteRequest]
  BY <1>5, <1>7 DEF MPTypeOK
<1>9. \A c \in Completers : c # r => complete'[c] = complete[c]
  BY <1>5 DEF MPTypeOK
<1>10. object = NoParts /\ ~WriteLocked
  BY <1>2 DEF Committed, Running, WriterAlone, WriteLocked, InWrite
<1>11. \A c \in Completers : Running(c) => c = r
  BY <1>2 DEF OneCompletion, Running
<1>12. started
  BY <1>2 DEF Fresh, Running
<1>13. \A p \in Parts : up.parts[p] \notin Bodies
  BY <1>2 DEF Finalized
<1>14. files = NoParts => files' = NoParts
  BY <1>3, <1>4 DEF NoParts
<1>15. MPTypeOK'
  BY <1>1, <1>3, <1>8 DEF MPTypeOK
<1>16. Fresh'
  BY <1>1, <1>12 DEF Fresh, Running
<1>17. WriterAlone'
  BY <1>1, <1>10 DEF WriterAlone, InWrite, Running, WriteLocked
<1>18. OneCompletion'
  BY <1>9, <1>11 DEF OneCompletion, Running
<1>19. Agree'
  BY <1>1, <1>13 DEF Agree, Recording
<1>20. Recorded'
  BY <1>1, <1>10 DEF Recorded, WriteLocked
<1>21. Strays'
  BY <1>1, <1>10, <1>14 DEF Strays, WriteLocked
<1>22. ListIntact'
  <2> SUFFICES ASSUME NEW c \in Completers, Running(c)'
               PROVE  /\ \E p \in Parts : complete'[c].list[p] # Nothing
                      /\ \/ files' = NoParts /\ swept
                         \/ \A p \in Parts : complete'[c].list[p] # Nothing =>
                              files'[p] # Nothing /\ (p \in torn \/ files'[p] = complete'[c].list[p])
    BY <1>1 DEF ListIntact, Running
  <2>1. c = r
    BY <1>9, <1>11 DEF Running
  <2>2. Running(r)
    BY <1>2 DEF Running
  <2>3. CASE files = NoParts /\ swept
    BY <1>7, <1>14, <2>1, <2>2, <2>3 DEF ListIntact
  <2>4. CASE \A p \in Parts : complete[r].list[p] # Nothing =>
               files[p] # Nothing /\ (p \in torn \/ files[p] = complete[r].list[p])
    <3>1. \A p \in Parts : complete[r].list[p] # Nothing => files'[p] = files[p]
      BY <1>4
    <3> QED BY SMT, <1>7, <2>1, <2>2, <2>4, <3>1 DEF ListIntact
  <2> QED BY <2>2, <2>3, <2>4 DEF ListIntact
<1>23. Finalized'
  BY <1>1, <1>13 DEF Finalized
<1>24. Committed'
  BY <1>1, <1>10 DEF Committed, Running
<1>25. PutOK' /\ OneWriter' /\ DeadUp' /\ CompletedIntact' /\ PreviousKept'
  BY <1>1 DEF PutOK, OneWriter, InWrite, DeadUp, CompletedIntact, PreviousKept
<1> QED BY <1>15, <1>16, <1>17, <1>18, <1>19, <1>20, <1>21, <1>22, <1>23, <1>24, <1>25

\* A completion commits the object, or finds that the clean-up took the upload.
LEMMA CommitUploadIInv ==
  ASSUME MPIInv, NEW r \in Completers, CommitUpload(r)
  PROVE  MPIInv'
<1> USE DEF MPIInv
<1>1. UNCHANGED <<started, versioned, put, acked, sent, torn, sweep, swept, fails>>
  BY DEF CommitUpload, CompleteUnchanged
<1>2. complete[r].pc = "commit"
  BY DEF CommitUpload
<1>3. complete' \in [Completers -> CompleteRequest]
  BY IdleFacts DEF CommitUpload, MPTypeOK
<1>4. complete'[r].pc = "idle" /\ \A c \in Completers : c # r => complete'[c] = complete[c]
  BY IdleFacts DEF CommitUpload, MPTypeOK
<1>5. object = NoParts /\ ~WriteLocked
  BY <1>2 DEF Committed, Running, WriterAlone, WriteLocked, InWrite
<1>6. \A c \in Completers : Running(c) => c = r
  BY <1>2 DEF OneCompletion, Running
<1>7. started
  BY <1>2 DEF Fresh, Running
<1>8. \A c \in Completers : ~Running(c)'
  BY <1>4, <1>6 DEF Running
<1>9. complete[r].list \in [Parts -> Bodies \cup {Nothing}]
  BY DEF MPTypeOK, CompleteRequest
<1>10. files # NoParts => /\ data' = files /\ files' = NoParts /\ object' = complete[r].list
                           /\ up' \in UploadMeta /\ up'.live = FALSE /\ up'.parts = NoParts
  BY GoneFacts DEF CommitUpload
<1>11. files = NoParts => /\ data' = NoParts /\ files' = NoParts /\ object' = NoParts
                           /\ up' \in UploadMeta /\ up'.live = TRUE
                           /\ \A p \in Parts : up'.parts[p] \notin Bodies
  BY <1>5, FinalMetaFacts DEF CommitUpload
<1>12. previous' \in {"kept", "trashed"}
  BY DEF CommitUpload, MPTypeOK
<1>13. complete[r].list # NoParts /\ (files = NoParts => swept)
  BY SMT, <1>2, GoneFacts DEF ListIntact, Running
<1>14. files # NoParts => \A p \in Parts \ torn : complete[r].list[p] # Nothing => files[p] = complete[r].list[p]
  BY <1>2 DEF ListIntact, Running
<1>15. MPTypeOK'
  BY <1>1, <1>3, <1>9, <1>10, <1>11, <1>12, GoneFacts DEF MPTypeOK
<1>16. Fresh'
  BY <1>1, <1>7 DEF Fresh, Running
<1>17. WriterAlone'
  BY <1>8 DEF WriterAlone, InWrite, Running
<1>18. OneCompletion'
  BY <1>8 DEF OneCompletion, Running
<1>19. DeadUp'
  BY <1>10, <1>11 DEF DeadUp
<1>20. Agree'
  BY <1>10, <1>11, GoneFacts, BodiesFacts DEF Agree
<1>21. Recorded'
  BY <1>1, <1>5 DEF Recorded, WriteLocked
<1>22. Strays'
  BY <1>1, <1>5, <1>10, <1>11 DEF Strays, WriteLocked
<1>23. ListIntact'
  BY <1>8 DEF ListIntact, Running
<1>24. Finalized'
  BY <1>8 DEF Finalized, Running
<1>25. Committed'
  BY <1>1, <1>7, <1>8, <1>10, <1>11 DEF Committed, Running
<1>26. CompletedIntact'
  BY <1>1, <1>10, <1>11, <1>14, GoneFacts DEF CompletedIntact
<1>27. PreviousKept'
  BY <1>1, <1>10, <1>11, <1>13 DEF PreviousKept
<1>28. PutOK' /\ OneWriter'
  BY <1>1 DEF PutOK, OneWriter, InWrite
<1> QED BY <1>15, <1>16, <1>17, <1>18, <1>19, <1>20, <1>21, <1>22, <1>23, <1>24, <1>25, <1>26, <1>27, <1>28

\* A completion fails or dies.
LEMMA CompleteFailsIInv ==
  ASSUME MPIInv, NEW r \in Completers, CompleteFails(r)
  PROVE  MPIInv'
<1> USE DEF MPIInv
<1>1. UNCHANGED <<started, object, data, previous, versioned, put, acked, sent, torn>> /\ UNCHANGED <<up, files, sweep, swept>>
  BY DEF CompleteFails, CompleteUnchanged
<1>2. fails' \in 0..MaxFails
  BY SMT, MultipartAssumption DEF CompleteFails, MPTypeOK
<1>3. complete' \in [Completers -> CompleteRequest]
  BY IdleFacts DEF CompleteFails, MPTypeOK
<1>4. complete'[r].pc = "idle" /\ \A c \in Completers : c # r => complete'[c] = complete[c]
  BY IdleFacts DEF CompleteFails, MPTypeOK
<1>5. MPTypeOK'
  BY <1>1, <1>2, <1>3 DEF MPTypeOK
<1>6. Fresh'
  BY <1>1, <1>4 DEF Fresh, Running
<1>7. WriterAlone'
  BY <1>1, <1>4 DEF WriterAlone, InWrite, Running
<1>8. OneCompletion'
  BY <1>4 DEF OneCompletion, Running
<1>9. ListIntact'
  <2> SUFFICES ASSUME NEW c \in Completers, Running(c)'
               PROVE  /\ \E p \in Parts : complete'[c].list[p] # Nothing
                      /\ \/ files = NoParts /\ swept
                         \/ \A p \in Parts : complete'[c].list[p] # Nothing =>
                              files[p] # Nothing /\ (p \in torn \/ files[p] = complete'[c].list[p])
    BY <1>1 DEF ListIntact, Running
  <2>1. complete'[c] = complete[c] /\ Running(c)
    BY <1>4 DEF Running
  <2> QED BY SMT, <2>1 DEF ListIntact
<1>10. Finalized'
  BY <1>1, <1>4 DEF Finalized
<1>11. Committed'
  BY <1>1, <1>4 DEF Committed, Running
<1>12. PutOK' /\ OneWriter' /\ DeadUp' /\ Agree' /\ Recorded' /\ Strays' /\ CompletedIntact' /\ PreviousKept'
  BY <1>1 DEF PutOK, OneWriter, InWrite, DeadUp, Agree, Recording, Recorded, Strays, WriteLocked, CompletedIntact, PreviousKept
<1> QED BY <1>5, <1>6, <1>7, <1>8, <1>9, <1>10, <1>11, <1>12

\* AbortMultipartUpload, under the write lock.
LEMMA AbortIInv ==
  ASSUME MPIInv, AbortMultipartUpload
  PROVE  MPIInv'
<1> USE DEF MPIInv
<1>1. UNCHANGED <<started, object, data, previous, versioned, put, complete, acked, sent, fails, torn>> /\ UNCHANGED <<sweep, swept>>
  BY DEF AbortMultipartUpload
<1>2. up' \in UploadMeta /\ up'.live = FALSE /\ up'.parts = NoParts
  BY GoneFacts DEF AbortMultipartUpload
<1>3. files' \in [Parts -> Bodies \cup {Nothing}] /\ files' = NoParts
  BY GoneFacts DEF AbortMultipartUpload
<1>4. ~WriteLocked /\ \A c \in Completers : ~Running(c)
  BY DEF AbortMultipartUpload, ReadLocked, Running
<1>5. MPTypeOK'
  BY <1>1, <1>2, <1>3 DEF MPTypeOK
<1>6. Fresh'
  BY <1>1, <1>2 DEF Fresh, Running
<1>7. DeadUp'
  BY <1>2 DEF DeadUp
<1>8. Agree'
  BY <1>2, GoneFacts, BodiesFacts DEF Agree
<1>9. Recorded'
  BY <1>2 DEF Recorded
<1>10. Strays'
  BY <1>1, <1>3, <1>4 DEF Strays, WriteLocked
<1>11. ListIntact'
  BY <1>1, <1>4 DEF ListIntact, Running
<1>12. Finalized'
  BY <1>1, <1>4 DEF Finalized, Running
<1>13. Committed'
  BY <1>1, <1>2 DEF Committed, Running
<1>14. PutOK' /\ OneWriter' /\ WriterAlone' /\ OneCompletion' /\ CompletedIntact' /\ PreviousKept'
  BY <1>1 DEF PutOK, OneWriter, InWrite, WriterAlone, Running, OneCompletion, CompletedIntact, PreviousKept
<1> QED BY <1>5, <1>6, <1>7, <1>8, <1>9, <1>10, <1>11, <1>12, <1>13, <1>14

\* The clean-up removes the upload, whatever runs.
LEMMA RemoveStaleIInv ==
  ASSUME MPIInv, RemoveStale
  PROVE  MPIInv'
<1> USE DEF MPIInv
<1>1. UNCHANGED <<started, object, data, previous, versioned, put, complete, acked, sent, fails, torn>>
  BY DEF RemoveStale
<1>2. up' \in UploadMeta /\ up'.live = FALSE /\ up'.parts = NoParts
  BY GoneFacts DEF RemoveStale
<1>3. files' \in [Parts -> Bodies \cup {Nothing}] /\ files' = NoParts
  BY GoneFacts DEF RemoveStale
<1>4. sweep' \in BOOLEAN /\ swept' \in BOOLEAN
  BY DEF RemoveStale, MPTypeOK
<1>5. (swept => swept') /\ (WriteLocked => swept') /\ \A c \in Completers : Running(c) => swept'
  BY DEF RemoveStale, ReadLocked, Running
<1>6. MPTypeOK'
  BY <1>1, <1>2, <1>3, <1>4 DEF MPTypeOK
<1>7. Fresh'
  BY <1>1, <1>2 DEF Fresh, Running
<1>8. DeadUp'
  BY <1>2 DEF DeadUp
<1>9. Agree'
  BY <1>2, GoneFacts, BodiesFacts DEF Agree
<1>10. Recorded'
  BY <1>2 DEF Recorded
<1>11. Strays'
  BY <1>1, <1>3, <1>5 DEF Strays, WriteLocked
<1>12. ListIntact'
  BY <1>1, <1>3, <1>5 DEF ListIntact, Running
<1>13. Finalized'
  BY <1>2, GoneFacts, BodiesFacts DEF Finalized
<1>14. Committed'
  BY <1>1, <1>2 DEF Committed, Running
<1>15. PreviousKept'
  BY <1>1, <1>5 DEF PreviousKept
<1>16. PutOK' /\ OneWriter' /\ WriterAlone' /\ OneCompletion' /\ CompletedIntact'
  BY <1>1 DEF PutOK, OneWriter, InWrite, WriterAlone, Running, OneCompletion, CompletedIntact
<1> QED BY <1>6, <1>7, <1>8, <1>9, <1>10, <1>11, <1>12, <1>13, <1>14, <1>15, <1>16

\* The clean-up finds the upload stale.
LEMMA FindStaleIInv ==
  ASSUME MPIInv, FindStale
  PROVE  MPIInv'
<1> USE DEF MPIInv
<1>1. UNCHANGED <<started, object, data, previous, versioned, put, complete, acked, sent, fails, torn>> /\ UNCHANGED <<up, files, swept>>
  BY DEF FindStale
<1>2. sweep' \in BOOLEAN
  BY DEF FindStale
<1>3. MPTypeOK'
  BY <1>1, <1>2 DEF MPTypeOK
<1>4. Fresh'
  BY <1>1 DEF Fresh, Running
<1>5. Agree'
  BY <1>1 DEF Agree, Recording
<1>6. ListIntact'
  BY <1>1 DEF ListIntact, Running
<1>7. PutOK' /\ OneWriter' /\ WriterAlone' /\ OneCompletion' /\ DeadUp' /\ Recorded' /\ Strays' /\ Finalized' /\ Committed' /\ CompletedIntact' /\ PreviousKept'
  BY <1>1 DEF PutOK, OneWriter, InWrite, WriterAlone, Running, OneCompletion, DeadUp, Recorded, Strays, WriteLocked, Finalized, Committed, CompletedIntact, PreviousKept
<1> QED BY <1>3, <1>4, <1>5, <1>6, <1>7

\* The upload grows old.
LEMMA AgeIInv ==
  ASSUME MPIInv, Age
  PROVE  MPIInv'
<1> USE DEF MPIInv
<1>1. UNCHANGED <<started, object, data, previous, versioned, put, complete, acked, sent, fails, torn>> /\ UNCHANGED <<files, sweep, swept>>
  BY DEF Age
<1>2. up' \in UploadMeta /\ up'.live = up.live /\ up'.parts = up.parts
  BY DEF Age, MPTypeOK, UploadMeta
<1>3. MPTypeOK'
  BY <1>1, <1>2 DEF MPTypeOK
<1>4. Fresh'
  BY <1>1, <1>2 DEF Fresh, Running
<1>5. DeadUp'
  BY <1>2 DEF DeadUp
<1>6. Agree'
  BY <1>1, <1>2 DEF Agree, Recording
<1>7. Recorded'
  BY <1>1, <1>2 DEF Recorded
<1>8. Strays'
  BY <1>1, <1>2 DEF Strays, WriteLocked
<1>9. ListIntact'
  BY <1>1 DEF ListIntact, Running
<1>10. Finalized'
  BY <1>1, <1>2 DEF Finalized
<1>11. Committed'
  BY <1>1, <1>2 DEF Committed, Running
<1>12. PutOK' /\ OneWriter' /\ WriterAlone' /\ OneCompletion' /\ CompletedIntact' /\ PreviousKept'
  BY <1>1 DEF PutOK, OneWriter, InWrite, WriterAlone, Running, OneCompletion, CompletedIntact, PreviousKept
<1> QED BY <1>3, <1>4, <1>5, <1>6, <1>7, <1>8, <1>9, <1>10, <1>11, <1>12

\* The upload is created.
LEMMA NewMultipartUploadIInv ==
  ASSUME MPIInv, NewMultipartUpload
  PROVE  MPIInv'
<1> USE DEF MPIInv
<1>1. UNCHANGED <<files, object, data, previous, versioned, put, complete, sweep, acked,
                 sent, fails, torn, swept>>
  BY DEF NewMultipartUpload
<1>2. ~started /\ started' = TRUE
  BY DEF NewMultipartUpload
<1>3. up' \in UploadMeta /\ up'.live = TRUE /\ up'.parts = NoParts
  BY DEF NewMultipartUpload, Gone, UploadMeta, NoParts
<1>4. started' \in BOOLEAN /\ object = NoParts
  BY <1>2 DEF Committed
<1>5. \A r \in Putters : put[r].pc = "idle"
  BY <1>2 DEF Fresh
<1>6. MPTypeOK'
  BY <1>1, <1>3, <1>4 DEF MPTypeOK
<1>7. Fresh'
  BY <1>2 DEF Fresh, Running
<1>8. DeadUp'
  BY <1>3 DEF DeadUp
<1>9. Agree'
  BY <1>3, GoneFacts, BodiesFacts DEF Agree
<1>10. Recorded'
  BY <1>1, <1>5 DEF Recorded
<1>11. Strays'
  BY <1>1, <1>3 DEF Strays, WriteLocked
<1>12. ListIntact'
  BY <1>1 DEF ListIntact, Running
<1>13. Finalized'
  BY <1>3, GoneFacts, BodiesFacts DEF Finalized
<1>14. Committed'
  BY <1>1, <1>4 DEF Committed, Running
<1>15. PutOK' /\ OneWriter' /\ WriterAlone' /\ OneCompletion' /\ CompletedIntact' /\ PreviousKept'
  BY <1>1 DEF PutOK, OneWriter, InWrite, WriterAlone, Running, OneCompletion, CompletedIntact, PreviousKept
<1> QED BY <1>6, <1>7, <1>8, <1>9, <1>10, <1>11, <1>12, <1>13, <1>14, <1>15

\* The initial state satisfies the inductive invariant.
LEMMA MPInitIInv == MPInit => MPIInv
<1> SUFFICES ASSUME MPInit PROVE MPIInv
  OBVIOUS
<1>1. /\ \A r \in Putters : put[r] = IdlePut
      /\ \A c \in Completers : complete[c] = IdleComplete
      /\ put \in [Putters -> PartRequest] /\ complete \in [Completers -> CompleteRequest]
  BY IdleFacts DEF MPInit
<1>2. up \in UploadMeta /\ up.live = FALSE /\ up.parts = NoParts
  BY GoneFacts DEF MPInit
<1>3. started = FALSE /\ sweep = FALSE /\ swept = FALSE /\ versioned \in BOOLEAN
  BY DEF MPInit
<1>4. /\ files = NoParts /\ object = NoParts /\ data = NoParts /\ acked = NoParts
      /\ torn = {} /\ previous = "kept"
  BY DEF MPInit
<1>5. sent \in 0..MaxSent /\ fails \in 0..MaxFails
  BY SMT, MultipartAssumption DEF MPInit
<1>6. MPTypeOK
  BY <1>1, <1>2, <1>3, <1>4, <1>5, GoneFacts DEF MPTypeOK
<1>7. PutOK /\ OneWriter /\ WriterAlone /\ OneCompletion /\ Recorded /\ Finalized /\ ListIntact
  BY <1>1, IdleFacts DEF PutOK, OneWriter, WriterAlone, OneCompletion, Recorded, Finalized, ListIntact, InWrite, Running
<1>8. Agree /\ DeadUp
  BY <1>2, GoneFacts, BodiesFacts DEF Agree, DeadUp
<1>9. Fresh
  BY <1>1, <1>2, IdleFacts DEF Fresh, Running
<1>10. Strays /\ Committed /\ CompletedIntact /\ PreviousKept
  BY <1>1, <1>4, IdleFacts, GoneFacts DEF Strays, WriteLocked, Committed, CompletedIntact, PreviousKept
<1> QED BY <1>6, <1>7, <1>8, <1>9, <1>10 DEF MPIInv

\* Every step keeps the inductive invariant, if completions do not overlap.
LEMMA MPNextIInv == ~Overlap /\ MPIInv /\ [MPNext]_mpVars => MPIInv'
<1> SUFFICES ASSUME ~Overlap, MPIInv, [MPNext]_mpVars PROVE MPIInv'
  OBVIOUS
<1>1. ASSUME NEW r \in Putters, (\E p \in Parts : StartPart(r, p)) \/ PartStep(r) \/ PartFails(r)
      PROVE  MPIInv'
  BY <1>1, StartPartIInv, EncodePartIInv, LockPartIInv, RenamePartIInv, RecordPartIInv, PartFailsIInv DEF PartStep
<1>2. ASSUME NEW r \in Completers,
             (\E S \in SUBSET Parts : BeginComplete(r, S)) \/ CompleteStep(r) \/ CompleteFails(r)
      PROVE  MPIInv'
  BY <1>2, BeginCompleteIInv, WriteFinalIInv, TrimPartsIInv, CommitUploadIInv, CompleteFailsIInv DEF CompleteStep
<1>3. CASE NewMultipartUpload \/ AbortMultipartUpload \/ Age \/ FindStale \/ RemoveStale
  BY <1>3, NewMultipartUploadIInv, AbortIInv, AgeIInv, FindStaleIInv, RemoveStaleIInv
<1>4. CASE UNCHANGED mpVars
  <2> USE <1>4 DEF mpVars, MPIInv
  <2>1. MPTypeOK'
    BY DEF MPTypeOK
  <2>2. Fresh' /\ PutOK' /\ OneWriter' /\ WriterAlone' /\ OneCompletion' /\ DeadUp'
    BY DEF Fresh, PutOK, OneWriter, WriterAlone, OneCompletion, DeadUp, InWrite, Running
  <2>3. Agree' /\ Recorded' /\ Strays' /\ Finalized' /\ Committed' /\ CompletedIntact' /\ PreviousKept'
    BY DEF Agree, Recording, Recorded, Strays, WriteLocked, Finalized, Committed, Running, CompletedIntact, PreviousKept
  <2>4. ListIntact'
    BY DEF ListIntact, Running
  <2> QED BY <2>1, <2>2, <2>3, <2>4
<1> QED BY <1>1, <1>2, <1>3, <1>4 DEF MPNext

\* The inductive invariant holds for any parts, requests and faults, if no
\* completion is sent while another one runs.
THEOREM MPInvariantHolds == ~Overlap => (MPSpec => []MPIInv)
<1> SUFFICES ASSUME ~Overlap PROVE MPSpec => []MPIInv
  OBVIOUS
<1>1. MPIInv /\ [MPNext]_mpVars => MPIInv'
  BY MPNextIInv
<1> QED BY <1>1, MPInitIInv, PTL DEF MPSpec

\* The type invariant of Multipart, for any number of parts and requests.
THEOREM MPTypeCorrect == ~Overlap => (MPSpec => []MPTypeOK)
<1> SUFFICES ASSUME ~Overlap PROVE MPSpec => []MPTypeOK
  OBVIOUS
<1>1. MPIInv => MPTypeOK
  BY DEF MPIInv
<1> QED BY <1>1, MPInvariantHolds, PTL

\* Part uploads, one completion at a time, aborts and the clean-up do not mix
\* on one upload: the object is what the client listed, xl.meta is right about
\* the parts, none outlives the upload, and a failed completion does no harm.
THEOREM UploadSoundHolds == ~Overlap => (MPSpec => []UploadSound)
<1> SUFFICES ASSUME ~Overlap PROVE MPSpec => []UploadSound
  OBVIOUS
<1>1. ASSUME MPIInv PROVE UploadSound
  <2> USE <1>1 DEF MPIInv
  <2>1. PartsAgree
    BY DEF PartsAgree, Agree, Recording, WriteLocked
  <2>2. NoStrayParts
    BY DEF NoStrayParts, Strays
  <2> QED BY <2>1, <2>2 DEF UploadSound
<1>2. MPIInv => UploadSound
  BY <1>1
<1> QED BY <1>2, MPInvariantHolds, PTL

-----------------------------------------------------------------------------
(* Replication.  A worker that has sent a version still holds the write lock, *)
(* so the version cannot have changed when COMPLETED is recorded; and what a  *)
(* deletion takes from the target is a marker, or an object being purged.     *)

Tasks == [kind : {"put", "del"}, id : VersionIds, heal : BOOLEAN, retry : BOOLEAN, marker : BOOLEAN,
          repl : Statuses, purge : Statuses]
RepWorker == [task : Tasks \cup {NoTask}, at : {"idle", "stat", "copy", "send", "update", "remove", "mark"}, failed : BOOLEAN]
Holds(w) == worker[w].at \in {"stat", "copy", "send", "update"}
Deletes(w) == worker[w].at \in {"remove", "mark"}

SourceOK == DOMAIN source \subseteq 1..created /\ \A id \in DOMAIN source : source[id] \in SourceVersion

RepRest ==
  /\ target \subseteq TargetVersion /\ created \in 0..NVersions
  /\ repTasks \in Seq(Tasks) /\ Len(repTasks) <= RepQueueSize
  /\ worker \in [RepWorkers -> RepWorker]
  /\ \A w \in RepWorkers : Holds(w) \/ Deletes(w) => worker[w].task \in Tasks

\* A task to replicate a version is about an object, and one to delete an
\* object version is about one that a client purged; a version is either for ever.
Justified(t) ==
  /\ t.id <= created
  /\ t.id \in DOMAIN source /\ ~source[t.id].del /\ t.kind = "del" => ~t.marker /\ source[t.id].purge # ""

TasksOK ==
  /\ \A i \in DOMAIN repTasks : Justified(repTasks[i])
  /\ \A w \in RepWorkers : Holds(w) => Justified(worker[w].task) /\ worker[w].task.id \in DOMAIN source
  /\ \A w \in RepWorkers : Deletes(w) => Justified(worker[w].task) /\ worker[w].task.kind = "del"

\* One worker at a time has the lock; when it has sent the version, the target has it.
OneHolder == \A v, w \in RepWorkers : Holds(v) /\ Holds(w) => v = w
Sent ==
  \A w \in RepWorkers : worker[w].at = "update" /\ ~worker[w].failed =>
    LET id == worker[w].task.id IN ~source[id].del /\ source[id].purge = "" => CopyOf(id) \in target

RepIInv == SourceOK /\ RepRest /\ TasksOK /\ OneHolder /\ Sent /\ CompletedOnTarget

\* What the assumptions say about the constants, and a worker at rest.
LEMMA RepConstants ==
  /\ NVersions \in Nat /\ RepQueueSize \in Nat /\ RepQueueSize > 0 /\ MaxRepMishaps \in Nat
  /\ NoTask.kind = "put" /\ Resting \in RepWorker /\ Resting.at = "idle"
<1>1. NVersions \in Nat /\ RepQueueSize \in Nat /\ RepQueueSize > 0 /\ MaxRepMishaps \in Nat
  BY SMT, RepAssumption
<1>2. NoTask.kind = "put" /\ Resting \in RepWorker /\ Resting.at = "idle"
  BY DEF NoTask, PutTask, Resting, RepWorker
<1> QED BY <1>1, <1>2

\* The two values of the tags.
LEMMA TagValues == 0 \in 0..1 /\ 1 \in 0..1
BY SMT

\* A task to replicate an object version is a task.
LEMMA PutTaskType ==
  ASSUME NEW id \in VersionIds, NEW b \in BOOLEAN
  PROVE  PutTask(id, b) \in Tasks /\ PutTask(id, b).kind = "put" /\ PutTask(id, b).id = id
BY DEF PutTask, Tasks, Statuses

\* queueReplicaTask: the channels gain the task, or stay as they are.
LEMMA QueueFacts ==
  ASSUME repTasks \in Seq(Tasks), Len(repTasks) <= RepQueueSize, NEW t \in Tasks, QueueTask(t)
  PROVE  /\ repTasks' \in Seq(Tasks) /\ Len(repTasks') <= RepQueueSize
         /\ \A i \in DOMAIN repTasks' : (i \in DOMAIN repTasks /\ repTasks'[i] = repTasks[i]) \/ repTasks'[i] = t
BY SMT, RepConstants DEF QueueTask

\* A worker takes a task: the channels keep the others.
LEMMA WithoutFacts ==
  ASSUME repTasks \in Seq(Tasks), Len(repTasks) <= RepQueueSize, NEW i \in DOMAIN repTasks, repTasks' = Without(i)
  PROVE  /\ repTasks' \in Seq(Tasks) /\ Len(repTasks') <= RepQueueSize
         /\ \A j \in DOMAIN repTasks' : \E k \in DOMAIN repTasks : repTasks'[j] = repTasks[k]
<1>1. Len(repTasks) - 1 \in Nat /\ i \in 1..Len(repTasks)
  BY SMT
<1>2. \A j \in 1..Len(repTasks) - 1 : \E k \in 1..Len(repTasks) : Without(i)[j] = repTasks[k]
  BY SMT, <1>1 DEF Without
<1>3. Without(i) \in [1..Len(repTasks) - 1 -> Tasks]
  BY SMT, <1>1 DEF Without
<1>4. repTasks' \in Seq(Tasks) /\ Len(repTasks') = Len(repTasks) - 1 /\ DOMAIN repTasks' = 1..Len(repTasks) - 1
  BY SMT, <1>1, <1>3
<1>5. DOMAIN repTasks = 1..Len(repTasks)
  BY SMT
<1>6. Len(repTasks') <= RepQueueSize
  BY SMT, <1>1, <1>4, RepConstants
<1> QED BY <1>2, <1>4, <1>5, <1>6

\* What a step may do to the versions of the source: an object that is purged
\* stays so, and a new version has a new id.
SourceMoves ==
  /\ created' \in {created, created + 1}
  /\ \A id \in DOMAIN source' :
       \/ /\ id \in DOMAIN source /\ source'[id].del = source[id].del
          /\ ~source[id].del /\ source[id].purge # "" => source'[id].purge # ""
       \/ id = created + 1

\* A task that is justified stays so, whatever happens to the versions.
LEMMA JustifiedStays ==
  ASSUME NEW t \in Tasks, Justified(t), created \in Nat, SourceMoves
  PROVE  Justified(t)'
<1>1. t.id \in VersionIds
  BY DEF Tasks
<1> PICK n : n = t.id
  OBVIOUS
<1>2. n \in Int
  BY SMT, <1>1, RepConstants DEF VersionIds
<1>3. n <= created /\ created' \in {created, created + 1}
  BY DEF Justified, SourceMoves
<1>4. n <= created' /\ n # created + 1
  BY SMT, <1>2, <1>3
<1> QED BY <1>4 DEF Justified, SourceMoves

\* Empty buckets, empty channels and workers at rest satisfy the invariant.
LEMMA RepInitIInv == RepInit => RepIInv
<1> SUFFICES ASSUME RepInit PROVE RepIInv
  OBVIOUS
<1>1. /\ DOMAIN source = {} /\ target = {} /\ created = 0 /\ repTasks = <<>>
      /\ worker = [w \in RepWorkers |-> Resting]
  BY DEF RepInit
<1>2. \A w \in RepWorkers : ~Holds(w) /\ ~Deletes(w) /\ worker[w] = Resting
  BY <1>1, RepConstants DEF Holds, Deletes
<1>3. /\ created \in 0..NVersions /\ <<>> \in Seq(Tasks) /\ Len(<<>>) <= RepQueueSize /\ DOMAIN <<>> = {}
  BY SMT, <1>1, RepConstants
<1>4. SourceOK
  BY <1>1 DEF SourceOK
<1>5. RepRest
  BY <1>1, <1>2, <1>3, RepConstants DEF RepRest
<1>6. TasksOK /\ OneHolder
  BY <1>1, <1>2, <1>3 DEF TasksOK, OneHolder
<1>7. Sent /\ CompletedOnTarget
  BY <1>1, <1>2 DEF Sent, CompletedOnTarget, Holds
<1> QED BY <1>4, <1>5, <1>6, <1>7 DEF RepIInv

\* The worker's record is a task and a stage; only the other fields of w change.
LEMMA TasksStay ==
  ASSUME RepIInv, SourceMoves,
         \A i \in DOMAIN repTasks' : (\E j \in DOMAIN repTasks : repTasks'[i] = repTasks[j]) \/ Justified(repTasks[i])',
         \A w \in RepWorkers : (Holds(w)' => Holds(w) /\ worker'[w].task = worker[w].task),
         \A w \in RepWorkers : (Deletes(w)' => Deletes(w) /\ worker'[w].task = worker[w].task),
         \A w \in RepWorkers : Holds(w)' /\ worker[w].task.id \in DOMAIN source => worker[w].task.id \in DOMAIN source'
  PROVE  TasksOK'
<1>0. created \in Nat
  BY SMT, RepConstants DEF RepIInv, RepRest
<1>1. ASSUME NEW i \in DOMAIN repTasks' PROVE Justified(repTasks[i])'
  <2>1. CASE \E j \in DOMAIN repTasks : repTasks'[i] = repTasks[j]
    <3>1. PICK j \in DOMAIN repTasks : repTasks'[i] = repTasks[j]
      BY <2>1
    <3> PICK t : t = repTasks[j]
      OBVIOUS
    <3>2. t \in Tasks
      BY SMT DEF RepIInv, RepRest
    <3>3. Justified(t)
      BY DEF RepIInv, TasksOK
    <3>4. Justified(t)'
      BY <1>0, <3>2, <3>3, JustifiedStays
    <3> QED BY <3>1, <3>4
  <2> QED BY <1>1, <2>1
<1>2. ASSUME NEW w \in RepWorkers, Holds(w)' PROVE Justified(worker[w].task)' /\ worker'[w].task.id \in DOMAIN source'
  <2> PICK t : t = worker[w].task
    OBVIOUS
  <2>1. t \in Tasks /\ Justified(t) /\ t.id \in DOMAIN source /\ worker'[w].task = t
    BY <1>2 DEF RepIInv, RepRest, TasksOK
  <2>2. Justified(t)' /\ t.id \in DOMAIN source'
    BY <1>0, <1>2, <2>1, JustifiedStays
  <2> QED BY <2>1, <2>2
<1>3. ASSUME NEW w \in RepWorkers, Deletes(w)' PROVE Justified(worker[w].task)' /\ worker'[w].task.kind = "del"
  <2> PICK t : t = worker[w].task
    OBVIOUS
  <2>1. t \in Tasks /\ Justified(t) /\ t.kind = "del" /\ worker'[w].task = t
    BY <1>3 DEF RepIInv, RepRest, TasksOK
  <2>2. Justified(t)'
    BY <1>0, <2>1, JustifiedStays
  <2> QED BY <2>1, <2>2
<1> QED BY <1>1, <1>2, <1>3 DEF TasksOK

\* A handler changes versions without the lock of a worker and queues a task.
LEMMA HandlerIInv ==
  ASSUME NEW t \in Tasks, RepIInv, ~RepLocked, SourceMoves, SourceOK', created' \in 0..NVersions, target' = target,
         worker' = worker, QueueTask(t), Justified(t)',
         \A id \in DOMAIN source' : ~source'[id].del /\ source'[id].repl = "COMPLETED" /\ source'[id].purge = ""
                                      => id \in DOMAIN source /\ source'[id] = source[id]
  PROVE  RepIInv'
<1>1. \A w \in RepWorkers : ~Holds(w) /\ ~Holds(w)'
  BY DEF RepLocked, Holds
<1>2. /\ repTasks' \in Seq(Tasks) /\ Len(repTasks') <= RepQueueSize
      /\ \A i \in DOMAIN repTasks' : (i \in DOMAIN repTasks /\ repTasks'[i] = repTasks[i]) \/ repTasks'[i] = t
  BY QueueFacts DEF RepIInv, RepRest
<1>3. RepRest'
  BY <1>1, <1>2 DEF RepIInv, RepRest, Deletes
<1>4. TasksOK'
  <2>1. \A i \in DOMAIN repTasks' : (\E j \in DOMAIN repTasks : repTasks'[i] = repTasks[j]) \/ Justified(repTasks[i])'
    BY <1>2
  <2>2. \A w \in RepWorkers : Deletes(w)' => Deletes(w) /\ worker'[w].task = worker[w].task
    BY DEF Deletes
  <2> QED BY <1>1, <2>1, <2>2, TasksStay
<1>5. OneHolder'
  BY <1>1 DEF OneHolder
<1>6. Sent'
  BY <1>1 DEF Sent, Holds
<1>7. CompletedOnTarget'
  BY DEF RepIInv, CompletedOnTarget, CopyOf
<1> QED BY <1>3, <1>4, <1>5, <1>6, <1>7 DEF RepIInv

\* A new version has an id of its own.
LEMMA StoredFacts ==
  ASSUME RepIInv, created < NVersions, created' = created + 1, NEW v \in SourceVersion, source' = Stored(created + 1, v)
  PROVE  /\ created' \in 0..NVersions /\ created' <= created' /\ created + 1 \in VersionIds /\ SourceMoves /\ SourceOK'
         /\ \A id \in DOMAIN source' : (id \in DOMAIN source /\ id # created + 1 /\ source'[id] = source[id]) \/ source'[id] = v
         /\ created + 1 \in DOMAIN source' /\ source'[created + 1] = v
<1> PICK n : n = created + 1
  OBVIOUS
<1>1. created \in 0..NVersions
  BY DEF RepIInv, RepRest
<1>2. created' \in 0..NVersions /\ created' <= created' /\ n \in VersionIds /\ 1..created \subseteq 1..n /\ n \in 1..n
  BY SMT, <1>1, RepConstants DEF VersionIds
<1>3. /\ DOMAIN source' = DOMAIN source \cup {n} /\ source'[n] = v
      /\ \A id \in DOMAIN source : id # n => source'[id] = source[id]
  BY DEF Stored
<1>4. SourceMoves
  BY <1>3 DEF SourceMoves
<1>5. SourceOK'
  BY <1>2, <1>3 DEF RepIInv, SourceOK
<1> QED BY <1>2, <1>3, <1>4, <1>5

\* PutObjectHandler: a new version, PENDING, and its task.
LEMMA PutVersionIInv == ASSUME RepIInv, PutVersion PROVE RepIInv'
<1> PICK v : v = [del |-> FALSE, repl |-> "PENDING", purge |-> "", tags |-> 0]
  OBVIOUS
<1> PICK t : t = PutTask(created + 1, FALSE)
  OBVIOUS
<1>1. /\ ~RepLocked /\ created < NVersions /\ created' = created + 1 /\ source' = Stored(created + 1, v)
      /\ QueueTask(t) /\ target' = target /\ worker' = worker
  BY DEF PutVersion
<1>2. v \in SourceVersion /\ v.repl = "PENDING" /\ v.del = FALSE
  BY TagValues DEF SourceVersion, Statuses
<1>3. /\ created' \in 0..NVersions /\ created' <= created' /\ created + 1 \in VersionIds /\ SourceMoves /\ SourceOK'
      /\ \A id \in DOMAIN source' : (id \in DOMAIN source /\ id # created + 1 /\ source'[id] = source[id]) \/ source'[id] = v
  BY <1>1, <1>2, StoredFacts
<1>4. t \in Tasks /\ t.id = created' /\ t.kind = "put"
  BY <1>1, <1>3, PutTaskType
<1>5. Justified(t)'
  BY <1>3, <1>4 DEF Justified
<1> QED BY <1>1, <1>2, <1>3, <1>4, <1>5, HandlerIInv

\* DeleteObjectHandler without a version id: a new delete marker, PENDING, and its task.
LEMMA DeleteWithMarkerIInv == ASSUME RepIInv, DeleteWithMarker PROVE RepIInv'
<1> PICK v : v = [del |-> TRUE, repl |-> "PENDING", purge |-> "", tags |-> 0]
  OBVIOUS
<1> PICK t : t = DelTask(created + 1, TRUE, "PENDING", "")
  OBVIOUS
<1>1. /\ ~RepLocked /\ created < NVersions /\ created' = created + 1 /\ source' = Stored(created + 1, v)
      /\ QueueTask(t) /\ target' = target /\ worker' = worker
  BY DEF DeleteWithMarker
<1>2. v \in SourceVersion /\ v.repl = "PENDING" /\ v.del = TRUE
  BY TagValues DEF SourceVersion, Statuses
<1>3. /\ created' \in 0..NVersions /\ created' <= created' /\ created + 1 \in VersionIds /\ SourceMoves /\ SourceOK'
      /\ \A id \in DOMAIN source' : (id \in DOMAIN source /\ id # created + 1 /\ source'[id] = source[id]) \/ source'[id] = v
      /\ source'[created + 1] = v
  BY <1>1, <1>2, StoredFacts
<1>4. t \in Tasks /\ t.id = created'
  BY <1>1, <1>3 DEF DelTask, Tasks, Statuses
<1>5. Justified(t)'
  BY <1>1, <1>2, <1>3, <1>4 DEF Justified
<1> QED BY ZenonT(60), <1>1, <1>2, <1>3, <1>4, <1>5, HandlerIInv

\* The ids of versions are those that have been handed out.
LEMMA IdBounds ==
  ASSUME RepIInv, NEW id \in DOMAIN source
  PROVE  id \in VersionIds /\ id <= created
<1>4. id \in 1..created /\ created \in 0..NVersions
  BY DEF RepIInv, SourceOK, RepRest
<1> QED BY SMT, <1>4, RepConstants DEF VersionIds

\* A step that rewrites one version and keeps what it is.
LEMMA VersionStep ==
  ASSUME RepIInv, created' = created, NEW id \in DOMAIN source, NEW v \in SourceVersion,
         source' = [source EXCEPT ![id] = v], v.del = source[id].del,
         ~source[id].del /\ source[id].purge # "" => v.purge # ""
  PROVE  /\ SourceMoves /\ SourceOK' /\ created' \in 0..NVersions /\ DOMAIN source' = DOMAIN source /\ source'[id] = v
         /\ \A i \in DOMAIN source : i # id => source'[i] = source[i]
         /\ id \in VersionIds /\ id <= created'
<1>1. DOMAIN source' = DOMAIN source /\ source'[id] = v /\ \A i \in DOMAIN source : i # id => source'[i] = source[i]
  OBVIOUS
<1>2. SourceMoves
  BY <1>1 DEF SourceMoves
<1>3. SourceOK' /\ created' \in 0..NVersions
  BY <1>1 DEF RepIInv, SourceOK, RepRest
<1>5. id \in VersionIds /\ id <= created'
  BY IdBounds
<1> QED BY <1>1, <1>2, <1>3, <1>5

\* PutObjectTaggingHandler makes a version PENDING again.
LEMMA PutVersionTagsIInv == ASSUME RepIInv, NEW id \in VersionIds, PutVersionTags(id) PROVE RepIInv'
<1> PICK v : v = [source[id] EXCEPT !.tags = 1, !.repl = "PENDING"]
  OBVIOUS
<1> PICK t : t = PutTask(id, FALSE)
  OBVIOUS
<1>1. /\ ~RepLocked /\ id \in DOMAIN source /\ source[id].purge = "" /\ created' = created
      /\ source' = [source EXCEPT ![id] = v] /\ QueueTask(t) /\ target' = target /\ worker' = worker
  BY DEF PutVersionTags, Updatable, Present
<1>2. source[id] \in SourceVersion
  BY <1>1 DEF RepIInv, SourceOK
<1>3. v \in SourceVersion /\ v.repl = "PENDING" /\ v.del = source[id].del
  BY <1>2, TagValues DEF SourceVersion, Statuses
<1>4. /\ SourceMoves /\ SourceOK' /\ created' \in 0..NVersions /\ DOMAIN source' = DOMAIN source /\ source'[id] = v
      /\ \A i \in DOMAIN source : i # id => source'[i] = source[i]
      /\ id <= created'
  BY <1>1, <1>3, VersionStep
<1>5. t \in Tasks /\ t.id = id /\ t.kind = "put"
  BY PutTaskType
<1>6. Justified(t)'
  BY <1>4, <1>5 DEF Justified
<1> QED BY <1>1, <1>3, <1>4, <1>5, <1>6, HandlerIInv

\* DeleteObjectHandler with a version id: the version is marked, and its deletion is queued.
LEMMA PurgeVersionIInv == ASSUME RepIInv, NEW id \in VersionIds, PurgeVersion(id) PROVE RepIInv'
<1> PICK v : v = IF source[id].del THEN [source[id] EXCEPT !.repl = "", !.purge = "PENDING"]
                                   ELSE [source[id] EXCEPT !.purge = "PENDING"]
  OBVIOUS
<1> PICK t : t = DelTask(id, source[id].del, "", "PENDING")
  OBVIOUS
<1>1. /\ ~RepLocked /\ id \in DOMAIN source /\ source[id].purge = "" /\ created' = created
      /\ source' = WithStatus(id, "", "PENDING") /\ QueueTask(t) /\ target' = target /\ worker' = worker
  BY DEF PurgeVersion, Present
<1>2. source[id] \in SourceVersion /\ source[id].del \in BOOLEAN
  BY <1>1 DEF RepIInv, SourceOK, SourceVersion
<1>3. v \in SourceVersion /\ v.purge = "PENDING" /\ v.del = source[id].del
  BY <1>2 DEF SourceVersion, Statuses
<1>4. source' = [source EXCEPT ![id] = v]
  BY <1>1 DEF WithStatus
<1>5. /\ SourceMoves /\ SourceOK' /\ created' \in 0..NVersions /\ DOMAIN source' = DOMAIN source /\ source'[id] = v
      /\ \A i \in DOMAIN source : i # id => source'[i] = source[i]
      /\ id <= created'
  BY <1>1, <1>3, <1>4, VersionStep
<1>6. t \in Tasks /\ t.id = id /\ t.marker = source[id].del
  BY <1>2 DEF DelTask, Tasks, Statuses
<1>7. Justified(t)'
  BY <1>3, <1>5, <1>6 DEF Justified
<1> QED BY <1>1, <1>3, <1>5, <1>6, <1>7, HandlerIInv

\* Nothing but the channels changes.
LEMMA QueuedIInv ==
  ASSUME NEW t \in Tasks, RepIInv, UNCHANGED <<source, target, created, worker>>, QueueTask(t), Justified(t)
  PROVE  RepIInv'
<1>1. /\ repTasks' \in Seq(Tasks) /\ Len(repTasks') <= RepQueueSize
      /\ \A i \in DOMAIN repTasks' : (i \in DOMAIN repTasks /\ repTasks'[i] = repTasks[i]) \/ repTasks'[i] = t
  BY QueueFacts DEF RepIInv, RepRest
<1>2. Justified(t)'
  BY DEF Justified
<1>3. TasksOK'
  <2>1. \A i \in DOMAIN repTasks' : (\E j \in DOMAIN repTasks : repTasks'[i] = repTasks[j]) \/ Justified(repTasks[i])'
    BY <1>1, <1>2
  <2>2. SourceMoves
    BY DEF SourceMoves
  <2> QED BY <2>1, <2>2, TasksStay DEF Holds, Deletes
<1>4. SourceOK' /\ RepRest'
  BY <1>1 DEF RepIInv, SourceOK, RepRest, Holds, Deletes
<1>5. OneHolder' /\ Sent' /\ CompletedOnTarget'
  BY DEF RepIInv, OneHolder, Holds, Sent, CompletedOnTarget, CopyOf
<1> QED BY <1>3, <1>4, <1>5 DEF RepIInv

\* The scanner queues a version whose status is not settled.
LEMMA ScanVersionIInv == ASSUME RepIInv, NEW id \in VersionIds, ScanVersion(id) PROVE RepIInv'
<1> PICK t : t = HealTask(id)
  OBVIOUS
<1>1. id \in DOMAIN source /\ QueueTask(t) /\ UNCHANGED <<source, target, created, worker>>
  BY DEF ScanVersion, Present
<1>2. source[id] \in SourceVersion /\ id <= created
  BY <1>1, IdBounds DEF RepIInv, SourceOK
<1>3. source[id].del \in BOOLEAN /\ source[id].repl \in Statuses /\ source[id].purge \in Statuses
  BY <1>2 DEF SourceVersion
<1>4. CASE source[id].del \/ source[id].purge # ""
  <2> PICK r : r = source[id].repl
    OBVIOUS
  <2> PICK p : p = source[id].purge
    OBVIOUS
  <2>3. r \in Statuses /\ p \in Statuses
    BY <1>3
  <2>1. CASE p = ""
    <3>1. t = DelTask(id, TRUE, r, p) /\ source[id].del
      BY <1>4, <2>1 DEF HealTask
    <3>2. t \in Tasks /\ t.id = id
      <4>1. DelTask(id, TRUE, r, p) \in Tasks /\ DelTask(id, TRUE, r, p).id = id
        BY <2>3 DEF DelTask, Tasks
      <4> QED BY <3>1, <4>1
    <3>3. Justified(t)
      BY <1>2, <3>1, <3>2 DEF Justified
    <3> QED BY <1>1, <3>2, <3>3, QueuedIInv
  <2>2. CASE p # ""
    <3>1. t = DelTask(id, FALSE, r, p)
      BY <1>4, <2>2 DEF HealTask
    <3>2. t \in Tasks /\ t.id = id /\ t.marker = FALSE
      <4>1. DelTask(id, FALSE, r, p) \in Tasks /\ DelTask(id, FALSE, r, p).id = id /\ DelTask(id, FALSE, r, p).marker = FALSE
        BY <2>3 DEF DelTask, Tasks
      <4> QED BY <3>1, <4>1
    <3>3. Justified(t)
      BY <1>2, <2>2, <3>2 DEF Justified
    <3> QED BY <1>1, <3>2, <3>3, QueuedIInv
  <2> QED BY <2>1, <2>2
<1>5. CASE ~(source[id].del \/ source[id].purge # "")
  <2>1. t = PutTask(id, TRUE)
    BY <1>5 DEF HealTask
  <2>2. t \in Tasks /\ t.id = id /\ t.kind = "put"
    BY <2>1, PutTaskType
  <2>3. Justified(t)
    BY <1>2, <2>2 DEF Justified
  <2> QED BY <1>1, <2>2, <2>3, QueuedIInv
<1> QED BY <1>4, <1>5

\* One worker moves on.
LEMMA OneWorker ==
  ASSUME RepIInv, NEW w \in RepWorkers, NEW x \in RepWorker, worker' = [worker EXCEPT ![w] = x]
  PROVE  /\ worker' \in [RepWorkers -> RepWorker] /\ worker'[w] = x
         /\ \A v \in RepWorkers : v # w => worker'[v] = worker[v] /\ (Holds(v)' <=> Holds(v)) /\ (Deletes(v)' <=> Deletes(v))
<1>1. worker \in [RepWorkers -> RepWorker]
  BY DEF RepIInv, RepRest
<1>2. /\ worker' \in [RepWorkers -> RepWorker] /\ worker'[w] = x
      /\ \A v \in RepWorkers : v # w => worker'[v] = worker[v]
  BY <1>1
<1> QED BY <1>2 DEF Holds, Deletes

\* The task a worker takes was justified.
LEMMA TaskTaken ==
  ASSUME RepIInv, NEW i \in DOMAIN repTasks, repTasks' = Without(i)
  PROVE  /\ repTasks' \in Seq(Tasks) /\ Len(repTasks') <= RepQueueSize /\ repTasks[i] \in Tasks /\ Justified(repTasks[i])
         /\ \A j \in DOMAIN repTasks' : \E k \in DOMAIN repTasks : repTasks'[j] = repTasks[k]
<1>1. repTasks \in Seq(Tasks) /\ Len(repTasks) <= RepQueueSize /\ Justified(repTasks[i])
  BY DEF RepIInv, RepRest, TasksOK
<1>2. repTasks[i] \in Tasks
  BY SMT, <1>1
<1> QED BY <1>1, <1>2, WithoutFacts

\* replicateObject takes the write lock and reads the version.
LEMMA TakePutIInv == ASSUME RepIInv, NEW w \in RepWorkers, NEW i \in DOMAIN repTasks, TakePut(w, i) PROVE RepIInv'
<1> PICK t : t = repTasks[i]
  OBVIOUS
<1> PICK x : x = IF Present(t.id) THEN [task |-> t, at |-> "stat", failed |-> FALSE] ELSE Resting
  OBVIOUS
<1>1. /\ worker[w] = Resting /\ t.kind = "put" /\ ~RepLocked /\ repTasks' = Without(i)
      /\ UNCHANGED <<source, target, created>>
      /\ worker' = IF Present(t.id) THEN [worker EXCEPT ![w] = [task |-> t, at |-> "stat", failed |-> FALSE]] ELSE worker
  BY DEF TakePut
<1>2. /\ repTasks' \in Seq(Tasks) /\ Len(repTasks') <= RepQueueSize /\ t \in Tasks /\ Justified(t)
      /\ \A j \in DOMAIN repTasks' : \E k \in DOMAIN repTasks : repTasks'[j] = repTasks[k]
  BY <1>1, TaskTaken
<1>3. x \in RepWorker /\ ((x.at = "stat" /\ x.task = t /\ t.id \in DOMAIN source) \/ x = Resting)
  BY <1>2, RepConstants DEF RepWorker, Present
<1>4. worker' = [worker EXCEPT ![w] = x]
  <2>1. worker \in [RepWorkers -> RepWorker]
    BY DEF RepIInv, RepRest
  <2> QED BY <1>1, <2>1
<1>5. /\ worker' \in [RepWorkers -> RepWorker] /\ worker'[w] = x
      /\ \A v \in RepWorkers : v # w => worker'[v] = worker[v] /\ (Holds(v)' <=> Holds(v)) /\ (Deletes(v)' <=> Deletes(v))
  BY <1>3, <1>4, OneWorker, RepConstants
<1>6. \A v \in RepWorkers : ~Holds(v)
  BY <1>1 DEF RepLocked, Holds
<1>7. ~Deletes(w)' /\ (Holds(w)' => x.task = t /\ t.id \in DOMAIN source) /\ worker'[w].at # "update"
  BY <1>3, <1>5, RepConstants DEF Deletes, Holds
<1>8. SourceOK' /\ RepRest'
  BY <1>1, <1>2, <1>5, <1>6, <1>7 DEF RepIInv, SourceOK, RepRest
<1>9. TasksOK'
  <2>1. \A s : Justified(s) => Justified(s)'
    BY <1>1 DEF Justified
  <2>2. \A j \in DOMAIN repTasks' : Justified(repTasks[j])'
    BY <1>2, <2>1 DEF RepIInv, TasksOK
  <2>3. \A v \in RepWorkers : Holds(v)' => Justified(worker[v].task)' /\ worker'[v].task.id \in DOMAIN source'
    BY <1>1, <1>2, <1>5, <1>6, <1>7, <2>1
  <2>4. \A v \in RepWorkers : Deletes(v)' => Justified(worker[v].task)' /\ worker'[v].task.kind = "del"
    BY <1>5, <1>7, <2>1 DEF RepIInv, TasksOK
  <2> QED BY <2>2, <2>3, <2>4 DEF TasksOK
<1>10. OneHolder' /\ Sent' /\ CompletedOnTarget'
  <2>1. OneHolder'
    BY <1>5, <1>6 DEF OneHolder
  <2>2. Sent'
    BY <1>5, <1>6, <1>7 DEF Sent, Holds
  <2>3. CompletedOnTarget'
    BY <1>1 DEF RepIInv, CompletedOnTarget, CopyOf
  <2> QED BY <2>1, <2>2, <2>3
<1> QED BY <1>8, <1>9, <1>10 DEF RepIInv

\* replicateDelete takes a deletion.
LEMMA TakeDeleteIInv == ASSUME RepIInv, NEW w \in RepWorkers, NEW i \in DOMAIN repTasks, TakeDelete(w, i) PROVE RepIInv'
<1> PICK t : t = repTasks[i]
  OBVIOUS
<1> PICK x : x = [task |-> t, at |-> "remove", failed |-> FALSE]
  OBVIOUS
<1>1. /\ worker[w] = Resting /\ t.kind = "del" /\ repTasks' = Without(i)
      /\ UNCHANGED <<source, target, created>> /\ worker' = [worker EXCEPT ![w] = x]
  BY DEF TakeDelete
<1>2. /\ repTasks' \in Seq(Tasks) /\ Len(repTasks') <= RepQueueSize /\ t \in Tasks /\ Justified(t)
      /\ \A j \in DOMAIN repTasks' : \E k \in DOMAIN repTasks : repTasks'[j] = repTasks[k]
  BY <1>1, TaskTaken
<1>3. x \in RepWorker /\ x.at = "remove" /\ x.task = t
  BY <1>2 DEF RepWorker
<1>5. /\ worker' \in [RepWorkers -> RepWorker] /\ worker'[w] = x
      /\ \A v \in RepWorkers : v # w => worker'[v] = worker[v] /\ (Holds(v)' <=> Holds(v)) /\ (Deletes(v)' <=> Deletes(v))
  BY <1>1, <1>3, OneWorker
<1>7. ~Holds(w)' /\ worker'[w].at # "update"
  BY <1>3, <1>5 DEF Holds
<1>8. SourceOK' /\ RepRest'
  BY <1>1, <1>2, <1>3, <1>5 DEF RepIInv, SourceOK, RepRest
<1>9. TasksOK'
  <2>1. \A s : Justified(s) => Justified(s)'
    BY <1>1 DEF Justified
  <2>2. \A j \in DOMAIN repTasks' : Justified(repTasks[j])'
    BY <1>2, <2>1 DEF RepIInv, TasksOK
  <2>3. \A v \in RepWorkers : Holds(v)' => Justified(worker[v].task)' /\ worker'[v].task.id \in DOMAIN source'
    BY <1>1, <1>5, <1>7, <2>1 DEF RepIInv, TasksOK
  <2>4. \A v \in RepWorkers : Deletes(v)' => Justified(worker[v].task)' /\ worker'[v].task.kind = "del"
    BY <1>1, <1>2, <1>3, <1>5, <2>1 DEF RepIInv, TasksOK
  <2> QED BY <2>2, <2>3, <2>4 DEF TasksOK
<1>10. OneHolder' /\ Sent' /\ CompletedOnTarget'
  <2>1. OneHolder'
    BY <1>5, <1>7 DEF RepIInv, OneHolder
  <2>2. Sent'
    BY <1>1, <1>5, <1>7 DEF RepIInv, Sent, CopyOf
  <2>3. CompletedOnTarget'
    BY <1>1 DEF RepIInv, CompletedOnTarget, CopyOf
  <2> QED BY <2>1, <2>2, <2>3
<1> QED BY <1>8, <1>9, <1>10 DEF RepIInv

\* The worker that has the lock goes on without touching the versions.
LEMMA StatTargetIInv == ASSUME RepIInv, NEW w \in RepWorkers, StatTarget(w) PROVE RepIInv'
<1> PICK x : x = worker'[w]
  OBVIOUS
<1>1. worker[w].at = "stat" /\ UNCHANGED <<source, target, created, repTasks>>
  BY DEF StatTarget
<1>2. worker \in [RepWorkers -> RepWorker] /\ worker[w] \in RepWorker
  BY DEF RepIInv, RepRest
<1>3. \E y \in RepWorker : /\ worker' = [worker EXCEPT ![w] = y]
                           /\ y = Resting \/ (y.at \in {"send", "copy"} /\ y.task = worker[w].task)
  <2>1. CASE \E at \in {"send", "copy"} : Moves(w, at)
    <3>1. PICK at \in {"send", "copy"} : Moves(w, at)
      BY <2>1
    <3> PICK y : y = [worker[w] EXCEPT !.at = at]
      OBVIOUS
    <3>2. y \in RepWorker /\ y.at = at /\ y.task = worker[w].task
      BY <1>2 DEF RepWorker
    <3>3. worker' = [worker EXCEPT ![w] = y]
      BY <3>1 DEF Moves
    <3> QED BY <3>1, <3>2, <3>3
  <2>2. CASE worker' = [worker EXCEPT ![w] = Resting]
    BY <2>2, RepConstants
  <2> QED BY <2>1, <2>2 DEF StatTarget
<1>4. /\ worker' = [worker EXCEPT ![w] = x] /\ x \in RepWorker
      /\ x = Resting \/ (x.at \in {"send", "copy"} /\ x.task = worker[w].task)
  BY <1>2, <1>3
<1>5. /\ worker' \in [RepWorkers -> RepWorker]
      /\ \A v \in RepWorkers : v # w => worker'[v] = worker[v] /\ (Holds(v)' <=> Holds(v)) /\ (Deletes(v)' <=> Deletes(v))
  BY <1>4, OneWorker
<1>6. Holds(w) /\ ~Deletes(w)' /\ (Holds(w)' => x.task = worker[w].task) /\ worker'[w].at # "update"
  BY <1>1, <1>4, RepConstants DEF Holds, Deletes
<1>7. SourceOK' /\ RepRest'
  BY <1>1, <1>5, <1>6 DEF RepIInv, SourceOK, RepRest
<1>8. TasksOK'
  <2>1. SourceMoves
    BY <1>1 DEF SourceMoves
  <2>2. \A v \in RepWorkers : Holds(v)' => Holds(v) /\ worker'[v].task = worker[v].task
    BY <1>5, <1>6
  <2>3. \A v \in RepWorkers : Deletes(v)' => Deletes(v) /\ worker'[v].task = worker[v].task
    BY <1>5, <1>6
  <2> QED BY <1>1, <2>1, <2>2, <2>3, TasksStay
<1>9. OneHolder' /\ Sent' /\ CompletedOnTarget'
  <2>1. OneHolder'
    BY <1>5, <1>6 DEF RepIInv, OneHolder
  <2>2. Sent'
    BY <1>1, <1>5, <1>6 DEF RepIInv, Sent, CopyOf
  <2>3. CompletedOnTarget'
    BY <1>1 DEF RepIInv, CompletedOnTarget, CopyOf
  <2> QED BY <2>1, <2>2, <2>3
<1> QED BY <1>7, <1>8, <1>9 DEF RepIInv

\* A copy of a version that exists is a version for the target.
LEMMA CopyType ==
  ASSUME RepIInv, NEW id \in DOMAIN source
  PROVE  CopyOf(id) \in TargetVersion /\ CopyOf(id).id = id
<1>1. source[id] \in SourceVersion
  BY DEF RepIInv, SourceOK
<1>2. id \in VersionIds
  BY IdBounds
<1> QED BY <1>1, <1>2 DEF CopyOf, TargetVersion, SourceVersion

\* The version is sent, is refused, or the request fails with or without effect.
LEMMA SendIInv ==
  ASSUME RepIInv, NEW w \in RepWorkers, SendVersion(w) \/ SendFails(w) PROVE RepIInv'
<1> PICK id : id = worker[w].task.id
  OBVIOUS
<1> PICK x : x = worker'[w]
  OBVIOUS
<1>1. worker[w].at \in {"copy", "send"} /\ UNCHANGED <<source, created, repTasks>>
  BY DEF SendVersion, SendFails
<1>2. worker \in [RepWorkers -> RepWorker] /\ worker[w] \in RepWorker
  BY DEF RepIInv, RepRest
<1>3. \E f \in BOOLEAN : /\ worker' = [worker EXCEPT ![w] = [worker[w] EXCEPT !.at = "update", !.failed = f]]
                         /\ \/ target' = (target \ OnTarget(id)) \cup {CopyOf(id)}
                            \/ target' = target /\ f = TRUE
  <2>1. CASE SendVersion(w)
    <3> PICK f \in BOOLEAN : f = (worker[w].at = "copy" /\ OnTarget(id) = {})
      OBVIOUS
    <3> QED BY <2>1 DEF SendVersion
  <2>2. CASE SendFails(w)
    BY <2>2 DEF SendFails
  <2> QED BY <2>1, <2>2
<1>4. PICK f \in BOOLEAN : /\ worker' = [worker EXCEPT ![w] = [worker[w] EXCEPT !.at = "update", !.failed = f]]
                           /\ \/ target' = (target \ OnTarget(id)) \cup {CopyOf(id)}
                              \/ target' = target /\ f = TRUE
  BY <1>3
<1>5. /\ worker' = [worker EXCEPT ![w] = x] /\ x \in RepWorker
      /\ x.at = "update" /\ x.failed = f /\ x.task = worker[w].task
  BY <1>2, <1>4 DEF RepWorker
<1>6. /\ worker' \in [RepWorkers -> RepWorker]
      /\ \A v \in RepWorkers : v # w => worker'[v] = worker[v] /\ (Holds(v)' <=> Holds(v)) /\ (Deletes(v)' <=> Deletes(v))
  BY <1>5, OneWorker
<1>7. Holds(w) /\ ~Deletes(w)' /\ x.task = worker[w].task /\ id \in DOMAIN source
  BY <1>1, <1>5 DEF Holds, Deletes, RepIInv, TasksOK
<1>8. /\ target' \subseteq TargetVersion
      /\ \A c \in target : c.id # id => c \in target'
      /\ CopyOf(id) \in target => CopyOf(id) \in target'
      /\ ~x.failed => CopyOf(id) \in target'
  BY <1>4, <1>5, <1>7, CopyType DEF RepIInv, RepRest, OnTarget
<1>9. SourceOK' /\ RepRest'
  BY <1>1, <1>6, <1>7, <1>8 DEF RepIInv, SourceOK, RepRest
<1>10. TasksOK'
  <2>1. SourceMoves
    BY <1>1 DEF SourceMoves
  <2>2. \A v \in RepWorkers : Holds(v)' => Holds(v) /\ worker'[v].task = worker[v].task
    BY <1>6, <1>7
  <2>3. \A v \in RepWorkers : Deletes(v)' => Deletes(v) /\ worker'[v].task = worker[v].task
    BY <1>6, <1>7
  <2> QED BY <1>1, <2>1, <2>2, <2>3, TasksStay
<1>11. \A v \in RepWorkers : v # w => ~Holds(v)
  BY <1>7 DEF RepIInv, OneHolder
<1>12. OneHolder' /\ Sent' /\ CompletedOnTarget'
  <2>1. OneHolder'
    BY <1>6, <1>11 DEF OneHolder
  <2>2. Sent'
    <3> SUFFICES ASSUME NEW v \in RepWorkers, worker'[v].at = "update", ~worker'[v].failed
                 PROVE  v = w /\ worker'[v].task.id = id /\ CopyOf(id)' \in target'
      BY DEF Sent
    <3>1. v = w
      BY <1>6, <1>11 DEF Holds
    <3>2. CopyOf(id)' = CopyOf(id)
      BY <1>1 DEF CopyOf
    <3> QED BY <1>7, <1>8, <3>1, <3>2
  <2>3. CompletedOnTarget'
    <3> SUFFICES ASSUME NEW j \in DOMAIN source, ~source[j].del, source[j].repl = "COMPLETED", source[j].purge = ""
                 PROVE  CopyOf(j) \in target'
      BY <1>1 DEF CompletedOnTarget, CopyOf
    <3>1. CopyOf(j) \in target /\ CopyOf(j).id = j
      BY CopyType DEF RepIInv, CompletedOnTarget
    <3> QED BY <1>8, <3>1
  <2> QED BY <2>1, <2>2, <2>3
<1> QED BY <1>9, <1>10, <1>12 DEF RepIInv

\* A version whose tags do not change has the same copy on the target.
LEMMA SameCopy ==
  ASSUME NEW j, source'[j].del = source[j].del, source'[j].tags = source[j].tags PROVE CopyOf(j)' = CopyOf(j)
BY SMT DEF CopyOf

\* The worker records the outcome under the lock, and gives it back.
LEMMA RecordStatusIInv == ASSUME RepIInv, NEW w \in RepWorkers, RecordStatus(w) PROVE RepIInv'
<1> PICK t : t = worker[w].task
  OBVIOUS
<1> PICK u : u = [t EXCEPT !.heal = TRUE, !.retry = TRUE]
  OBVIOUS
<1>1. /\ worker[w].at = "update" /\ UNCHANGED <<target, created>> /\ worker' = [worker EXCEPT ![w] = Resting]
      /\ QueueTask(u) \/ repTasks' = repTasks
      /\ source' = IF RecordsStatus(w) /\ Updatable(t.id)
                   THEN [source EXCEPT ![t.id].repl = IF worker[w].failed THEN "FAILED" ELSE "COMPLETED"]
                   ELSE source
  BY DEF RecordStatus
<1>2. t \in Tasks /\ Justified(t) /\ t.id \in DOMAIN source /\ Holds(w) /\ source[t.id] \in SourceVersion
  BY <1>1 DEF RepIInv, RepRest, TasksOK, Holds, SourceOK
<1>3. u \in Tasks /\ u.id = t.id /\ u.kind = t.kind /\ u.marker = t.marker
  BY <1>2 DEF Tasks
<1>4. /\ worker' \in [RepWorkers -> RepWorker] /\ worker'[w] = Resting
      /\ \A v \in RepWorkers : v # w => worker'[v] = worker[v] /\ (Holds(v)' <=> Holds(v)) /\ (Deletes(v)' <=> Deletes(v))
  BY <1>1, OneWorker, RepConstants
<1>5. ~Holds(w)' /\ ~Deletes(w)'
  BY <1>4, RepConstants DEF Holds, Deletes
<1>6. \A v \in RepWorkers : ~Holds(v)'
  BY <1>2, <1>4, <1>5 DEF RepIInv, OneHolder
<1>7. /\ SourceMoves /\ SourceOK' /\ DOMAIN source' = DOMAIN source
      /\ \A j \in DOMAIN source : source'[j] = source[j] \/ (j = t.id /\ /\ source'[j].del = source[j].del
            /\ source'[j].purge = source[j].purge /\ source'[j].tags = source[j].tags
            /\ (source'[j].repl = "COMPLETED" => ~worker[w].failed))
  <2>1. CASE RecordsStatus(w) /\ Updatable(t.id)
    <3> PICK st : st = IF worker[w].failed THEN "FAILED" ELSE "COMPLETED"
      OBVIOUS
    <3> PICK v : v = [source[t.id] EXCEPT !.repl = st]
      OBVIOUS
    <3>1. source' = [source EXCEPT ![t.id] = v]
      BY <1>1, <2>1
    <3>2. st \in Statuses /\ (st = "COMPLETED" => ~worker[w].failed)
      BY DEF Statuses
    <3>3. /\ v \in SourceVersion /\ v.del = source[t.id].del /\ v.purge = source[t.id].purge /\ v.tags = source[t.id].tags
          /\ v.repl = st
      BY <1>2, <3>2 DEF SourceVersion
    <3>4. /\ SourceMoves /\ SourceOK' /\ DOMAIN source' = DOMAIN source /\ source'[t.id] = v
          /\ \A i \in DOMAIN source : i # t.id => source'[i] = source[i]
      <4>1. t.id \in DOMAIN source /\ v \in SourceVersion /\ created' = created
        BY <1>1, <1>2, <3>3
      <4> QED BY <4>1, <3>1, <3>3, VersionStep
    <3> QED BY <3>2, <3>3, <3>4
  <2>2. CASE ~(RecordsStatus(w) /\ Updatable(t.id))
    <3>1. source' = source
      BY <1>1, <2>2
    <3> QED BY <1>1, <3>1 DEF SourceMoves, RepIInv, SourceOK
  <2> QED BY <2>1, <2>2
<1>8. /\ repTasks' \in Seq(Tasks) /\ Len(repTasks') <= RepQueueSize
      /\ \A i \in DOMAIN repTasks' : (i \in DOMAIN repTasks /\ repTasks'[i] = repTasks[i]) \/ repTasks'[i] = u
  BY <1>1, <1>3, QueueFacts DEF RepIInv, RepRest
<1>9. RepRest'
  BY <1>1, <1>4, <1>5, <1>6, <1>8 DEF RepIInv, RepRest
<1>10. TasksOK'
  <2>1. Justified(u)
    BY <1>2, <1>3 DEF Justified
  <2>2. created \in Nat
    BY SMT, RepConstants DEF RepIInv, RepRest
  <2>3. Justified(u)'
    BY <1>3, <1>7, <2>1, <2>2, JustifiedStays
  <2>4. \A i \in DOMAIN repTasks' : (\E j \in DOMAIN repTasks : repTasks'[i] = repTasks[j]) \/ Justified(repTasks[i])'
    BY <1>8, <2>3
  <2>5. \A v \in RepWorkers : Deletes(v)' => Deletes(v) /\ worker'[v].task = worker[v].task
    BY <1>4, <1>5
  <2> QED BY <1>6, <1>7, <2>4, <2>5, TasksStay
<1>11. OneHolder' /\ Sent'
  BY <1>6 DEF OneHolder, Sent, Holds
<1>12. CompletedOnTarget'
  <2> SUFFICES ASSUME NEW j \in DOMAIN source', ~source'[j].del, source'[j].repl = "COMPLETED", source'[j].purge = ""
               PROVE  CopyOf(j)' \in target'
    BY DEF CompletedOnTarget
  <2>1. CASE source'[j] = source[j]
    <3>1. CopyOf(j)' = CopyOf(j)
      BY <2>1, SameCopy
    <3>2. CopyOf(j) \in target
      BY <1>7, <2>1 DEF RepIInv, CompletedOnTarget
    <3> QED BY <1>1, <3>1, <3>2
  <2>2. CASE source'[j] # source[j]
    <3>1. /\ j = t.id /\ source'[j].del = source[j].del /\ source'[j].purge = source[j].purge
          /\ source'[j].tags = source[j].tags /\ ~worker[w].failed
      BY <1>7, <2>2
    <3>2. CopyOf(j) \in target
      BY <1>1, <3>1 DEF RepIInv, Sent
    <3>3. CopyOf(j)' = CopyOf(j)
      BY <3>1, SameCopy
    <3> QED BY <1>1, <3>2, <3>3
  <2> QED BY <2>1, <2>2
<1> QED BY <1>7, <1>9, <1>10, <1>11, <1>12 DEF RepIInv

\* A deletion reaches the target, or fails with or without effect: what it may
\* take away there is no object that the source still keeps.
LEMMA RemoveIInv ==
  ASSUME RepIInv, NEW w \in RepWorkers, RemoveOnTarget(w) \/ RemoveFails(w) PROVE RepIInv'
<1> PICK t : t = worker[w].task
  OBVIOUS
<1> PICK x : x = worker'[w]
  OBVIOUS
<1>1. worker[w].at = "remove" /\ UNCHANGED <<source, created, repTasks>> /\ target' \in {target, RemovedOnTarget(t)}
  BY DEF RemoveOnTarget, RemoveFails
<1>2. worker \in [RepWorkers -> RepWorker] /\ worker[w] \in RepWorker
  BY DEF RepIInv, RepRest
<1>3. \E y \in RepWorker : worker' = [worker EXCEPT ![w] = y] /\ y.at = "mark" /\ y.task = t
  <2>1. CASE RemoveOnTarget(w)
    <3> PICK y : y = [worker[w] EXCEPT !.at = "mark"]
      OBVIOUS
    <3>1. y \in RepWorker /\ y.at = "mark" /\ y.task = t
      BY <1>2 DEF RepWorker
    <3>2. worker' = [worker EXCEPT ![w] = y]
      BY <2>1 DEF RemoveOnTarget, Moves
    <3> QED BY <3>1, <3>2
  <2>2. CASE RemoveFails(w)
    <3> PICK y : y = [worker[w] EXCEPT !.at = "mark", !.failed = TRUE]
      OBVIOUS
    <3>1. y \in RepWorker /\ y.at = "mark" /\ y.task = t
      BY <1>2 DEF RepWorker
    <3>2. worker' = [worker EXCEPT ![w] = y]
      BY <2>2 DEF RemoveFails
    <3> QED BY <3>1, <3>2
  <2> QED BY <2>1, <2>2
<1>4. worker' = [worker EXCEPT ![w] = x] /\ x \in RepWorker /\ x.at = "mark" /\ x.task = t
  BY <1>2, <1>3
<1>5. /\ worker' \in [RepWorkers -> RepWorker]
      /\ \A v \in RepWorkers : v # w => worker'[v] = worker[v] /\ (Holds(v)' <=> Holds(v)) /\ (Deletes(v)' <=> Deletes(v))
  BY <1>4, OneWorker
<1>6. Deletes(w) /\ Deletes(w)' /\ ~Holds(w)' /\ x.task = t /\ t \in Tasks /\ Justified(t) /\ t.kind = "del"
  BY <1>1, <1>4 DEF Holds, Deletes, RepIInv, RepRest, TasksOK
<1>7. target' \subseteq TargetVersion /\ \A c \in target : c.id # t.id => c \in target'
  <2>1. [id |-> t.id, del |-> TRUE, tags |-> 0] \in TargetVersion
    BY <1>6, TagValues DEF TargetVersion, Tasks
  <2> QED BY <1>1, <2>1 DEF RepIInv, RepRest, RemovedOnTarget, OnTarget
<1>8. ASSUME NEW j \in DOMAIN source, ~source[j].del, source[j].purge = "", CopyOf(j) \in target
      PROVE  CopyOf(j) \in target'
  <2>1. j # t.id
    BY <1>6, <1>8 DEF Justified
  <2> QED BY <1>7, <1>8, <2>1, CopyType
<1>9. SourceOK' /\ RepRest'
  BY <1>1, <1>5, <1>6, <1>7 DEF RepIInv, SourceOK, RepRest
<1>10. TasksOK'
  <2>1. SourceMoves
    BY <1>1 DEF SourceMoves
  <2>2. \A v \in RepWorkers : Holds(v)' => Holds(v) /\ worker'[v].task = worker[v].task
    BY <1>5, <1>6
  <2>3. \A v \in RepWorkers : Deletes(v)' => Deletes(v) /\ worker'[v].task = worker[v].task
    BY <1>5, <1>6
  <2> QED BY <1>1, <2>1, <2>2, <2>3, TasksStay
<1>11. OneHolder'
  BY <1>5, <1>6 DEF RepIInv, OneHolder
<1>12. Sent'
  <2> SUFFICES ASSUME NEW v \in RepWorkers, worker'[v].at = "update", ~worker'[v].failed,
                      NEW j, j = worker'[v].task.id, ~source[j].del, source[j].purge = ""
               PROVE  CopyOf(j) \in target'
    BY <1>1 DEF Sent, CopyOf
  <2>1. v # w
    BY <1>4
  <2>2. worker'[v] = worker[v] /\ Holds(v)
    BY <1>5, <2>1 DEF Holds
  <2>3. j \in DOMAIN source /\ CopyOf(j) \in target
    BY <2>2 DEF RepIInv, Sent, TasksOK
  <2> QED BY <1>8, <2>3
<1>13. CompletedOnTarget'
  <2> SUFFICES ASSUME NEW j \in DOMAIN source, ~source[j].del, source[j].repl = "COMPLETED", source[j].purge = ""
               PROVE  CopyOf(j) \in target'
    BY <1>1 DEF CompletedOnTarget, CopyOf
  <2> QED BY <1>8 DEF RepIInv, CompletedOnTarget
<1> QED BY <1>9, <1>10, <1>11, <1>12, <1>13 DEF RepIInv

\* The statuses replicateDelete records; the deletion of an object version never clears its purge status.
LEMMA Outcomes ==
  ASSUME NEW t, t \in Tasks, NEW f, f \in BOOLEAN
  PROVE  /\ MarkerOutcome(t, f) \in Statuses /\ PurgeOutcome(t, f) \in Statuses \cup {"COMPLETE"}
         /\ ~t.marker => PurgeOutcome(t, f) # ""
<1>1. t.repl \in Statuses /\ t.purge \in Statuses
  BY DEF Tasks
<1>2. "FAILED" \in Statuses /\ "COMPLETED" \in Statuses
  BY DEF Statuses
<1> QED BY <1>1, <1>2 DEF MarkerOutcome, PurgeOutcome

\* replicateDelete records the outcome, or removes the version.
LEMMA MarkDeletionIInv == ASSUME RepIInv, NEW w \in RepWorkers, MarkDeletion(w) PROVE RepIInv'
<1> PICK t : t = worker[w].task
  OBVIOUS
<1> PICK m : m = MarkerOutcome(t, worker[w].failed)
  OBVIOUS
<1> PICK p : p = PurgeOutcome(t, worker[w].failed)
  OBVIOUS
<1>1. /\ worker[w].at = "mark" /\ ~RepLocked /\ UNCHANGED <<target, created, repTasks>>
      /\ worker' = [worker EXCEPT ![w] = Resting]
      /\ source' = IF Present(t.id) THEN WithStatus(t.id, m, p) ELSE source
  BY DEF MarkDeletion
<1>2. Deletes(w) /\ t \in Tasks /\ Justified(t) /\ t.kind = "del" /\ worker[w].failed \in BOOLEAN
  BY <1>1 DEF RepIInv, RepRest, TasksOK, Deletes, RepWorker
<1>3. m \in Statuses /\ p \in Statuses \cup {"COMPLETE"} /\ (~t.marker => p # "")
  BY <1>2, Outcomes
<1>4. /\ worker' \in [RepWorkers -> RepWorker] /\ worker'[w] = Resting
      /\ \A v \in RepWorkers : v # w => worker'[v] = worker[v] /\ (Holds(v)' <=> Holds(v)) /\ (Deletes(v)' <=> Deletes(v))
  BY <1>1, OneWorker, RepConstants
<1>5. ~Holds(w)' /\ ~Deletes(w)'
  BY <1>4, RepConstants DEF Holds, Deletes
<1>6. \A v \in RepWorkers : ~Holds(v)'
  BY <1>1, <1>4, <1>5 DEF RepLocked, Holds
<1>7. /\ SourceMoves /\ SourceOK'
      /\ \A j \in DOMAIN source' : ~source'[j].del /\ source'[j].purge = "" => j \in DOMAIN source /\ source'[j] = source[j]
  <2>1. CASE ~Present(t.id)
    <3>1. source' = source
      BY <1>1, <2>1
    <3> QED BY <1>1, <3>1 DEF SourceMoves, RepIInv, SourceOK
  <2>2. CASE Present(t.id) /\ p = "COMPLETE"
    <3>1. source' = [i \in DOMAIN source \ {t.id} |-> source[i]]
      BY <1>1, <2>2 DEF WithStatus
    <3>2. DOMAIN source' \subseteq DOMAIN source /\ \A i \in DOMAIN source' : source'[i] = source[i]
      BY <3>1
    <3> QED BY ZenonT(60), <1>1, <3>2 DEF SourceMoves, RepIInv, SourceOK
  <2>3. CASE Present(t.id) /\ p # "COMPLETE"
    <3> PICK v : v = IF source[t.id].del THEN [source[t.id] EXCEPT !.repl = m, !.purge = p]
                                         ELSE [source[t.id] EXCEPT !.purge = p]
      OBVIOUS
    <3>1. source' = [source EXCEPT ![t.id] = v]
      BY <1>1, <2>3 DEF WithStatus
    <3>2. t.id \in DOMAIN source /\ source[t.id] \in SourceVersion
      BY <2>3 DEF RepIInv, SourceOK, Present
    <3>3. v \in SourceVersion /\ v.purge = p /\ v.del = source[t.id].del
      BY <1>3, <2>3, <3>2 DEF SourceVersion
    <3>4. ~source[t.id].del => p # ""
      BY <1>2, <1>3, <3>2 DEF Justified
    <3>5. ~source[t.id].del /\ source[t.id].purge # "" => v.purge # ""
      BY <3>3, <3>4
    <3>6. created' = created
      BY <1>1
    <3>7. /\ SourceMoves /\ SourceOK' /\ DOMAIN source' = DOMAIN source /\ source'[t.id] = v
          /\ \A i \in DOMAIN source : i # t.id => source'[i] = source[i]
      BY <3>1, <3>2, <3>3, <3>5, <3>6, VersionStep
    <3> QED BY <3>3, <3>4, <3>7
  <2> QED BY <2>1, <2>2, <2>3
<1>8. RepRest'
  BY <1>1, <1>4, <1>5, <1>6 DEF RepIInv, RepRest
<1>9. TasksOK'
  <2>1. \A v \in RepWorkers : Deletes(v)' => Deletes(v) /\ worker'[v].task = worker[v].task
    BY <1>4, <1>5
  <2> QED BY <1>1, <1>6, <1>7, <2>1, TasksStay
<1>10. OneHolder' /\ Sent'
  BY <1>6 DEF OneHolder, Sent, Holds
<1>11. CompletedOnTarget'
  <2> SUFFICES ASSUME NEW j \in DOMAIN source', ~source'[j].del, source'[j].repl = "COMPLETED", source'[j].purge = ""
               PROVE  CopyOf(j)' \in target'
    BY DEF CompletedOnTarget
  <2>1. j \in DOMAIN source /\ source'[j] = source[j]
    BY <1>7
  <2>2. CopyOf(j)' = CopyOf(j)
    BY <2>1, SameCopy
  <2>3. CopyOf(j) \in target
    BY <2>1 DEF RepIInv, CompletedOnTarget
  <2> QED BY <1>1, <2>2, <2>3
<1> QED BY <1>7, <1>8, <1>9, <1>10, <1>11 DEF RepIInv

\* A restart frees the lock and empties the channels.
LEMMA RepRestartIInv == ASSUME RepIInv, RepRestart PROVE RepIInv'
<1>1. /\ repTasks' = <<>> /\ worker' = [w \in RepWorkers |-> Resting] /\ UNCHANGED <<source, target, created>>
  BY DEF RepRestart
<1>2. \A w \in RepWorkers : ~Holds(w)' /\ ~Deletes(w)' /\ worker'[w] = Resting
  BY <1>1, RepConstants DEF Holds, Deletes
<1>3. repTasks' \in Seq(Tasks) /\ Len(repTasks') <= RepQueueSize /\ DOMAIN repTasks' = {}
  BY SMT, <1>1, RepConstants
<1>4. worker' \in [RepWorkers -> RepWorker]
  BY <1>1, RepConstants
<1>5. SourceOK' /\ RepRest'
  BY <1>1, <1>2, <1>3, <1>4 DEF RepIInv, SourceOK, RepRest
<1>6. TasksOK' /\ OneHolder' /\ Sent'
  BY <1>2, <1>3 DEF TasksOK, OneHolder, Sent, Holds
<1>7. CompletedOnTarget'
  BY <1>1 DEF RepIInv, CompletedOnTarget, CopyOf
<1> QED BY <1>5, <1>6, <1>7 DEF RepIInv

\* Every step of the handlers, the scanner, the workers and the server preserves the invariant.
LEMMA RepNextIInv == RepIInv /\ [RepNext]_repVars => RepIInv'
<1> SUFFICES ASSUME RepIInv, [RepNext]_repVars PROVE RepIInv'
  OBVIOUS
<1>1. CASE PutVersion
  BY <1>1, PutVersionIInv
<1>2. CASE DeleteWithMarker
  BY <1>2, DeleteWithMarkerIInv
<1>3. CASE RepRestart
  BY <1>3, RepRestartIInv
<1>4. CASE \E id \in VersionIds : PutVersionTags(id) \/ PurgeVersion(id) \/ ScanVersion(id)
  BY <1>4, PutVersionTagsIInv, PurgeVersionIInv, ScanVersionIInv
<1>5. CASE \E w \in RepWorkers : Takes(w)
  BY <1>5, TakePutIInv, TakeDeleteIInv DEF Takes
<1>6. CASE \E w \in RepWorkers : Works(w) \/ MarkDeletion(w) \/ SendFails(w) \/ RemoveFails(w)
  BY <1>6, StatTargetIInv, SendIInv, RecordStatusIInv, RemoveIInv, MarkDeletionIInv DEF Works
<1>7. CASE UNCHANGED repVars
  BY <1>7 DEF repVars, RepIInv, SourceOK, RepRest, TasksOK, Justified, OneHolder, Sent, CompletedOnTarget,
              Holds, Deletes, CopyOf
<1> QED BY <1>1, <1>2, <1>3, <1>4, <1>5, <1>6, <1>7 DEF RepNext

\* No history of requests, full channels, failed calls and restarts breaks the invariant
\* (replicateObject, replicateDelete, healReplication).
THEOREM RepInvariantHolds == RepSpec => []RepIInv
BY RepInitIInv, RepNextIInv, PTL DEF RepSpec

\* An object version with status COMPLETED that nobody deletes is on the target with the same
\* tags, for any number of workers, versions and requests (the write lock of replicateObject):
\* RepIInv implies it.
THEOREM CompletedOnTargetHolds == RepSpec => []CompletedOnTarget
<1>1. RepIInv => CompletedOnTarget
  BY DEF RepIInv
<1> QED BY <1>1, RepInvariantHolds, PTL
=============================================================================
