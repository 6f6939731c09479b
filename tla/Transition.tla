----------------------------- MODULE Transition -----------------------------
(* Moving an object to a remote tier, restoring it, and deleting it there and *)
(* here (bucket-lifecycle.go, transition-reference.go, data-scanner.go), with *)
(* servers that crash and remote calls that fail before or after their effect.*)
(*                                                                            *)
(* One object of an unversioned bucket.  An upload is identified by a number, *)
(* which stands for its modification time, ETag and size; each upload is      *)
(* prepared for the tier at most once, so that the number also stands for the *)
(* unique remote key in its reference.  Every operation below holds the write *)
(* lock of the object: op is the one that has it, and where it stands.        *)
EXTENDS Integers, FiniteSets

CONSTANTS MaxUploads,  \* bound on the uploads of the object
          MaxFaults    \* bound on crashes and failed remote calls

ASSUME TransitionAssumption == MaxUploads \in Nat /\ MaxFaults \in Nat

Uploads == 1..MaxUploads

ObjectMeta ==
  [up : Uploads \cup {0}, status : {"", "pending", "complete"}, intent : BOOLEAN,
   restore : {"none", "ongoing", "done", "expired"}, local : BOOLEAN]

NoObject == [up |-> 0, status |-> "", intent |-> FALSE, restore |-> "none", local |-> FALSE]

VARIABLES puts,      \* uploads so far
          src,       \* xl.meta of the object: its upload, transition-status,
                     \* delete intent and restore header; and its local data
          remote,    \* uploads whose data is in the tier
          rule,      \* whether the life cycle rule (still) asks for transition
          op,        \* the operation that holds the lock
          tasks,     \* transitionCh: uploads queued for transitionObject
          expiries,  \* expiryCh: uploads queued for executeExpiry
          faults

tierVars == <<puts, src, remote, rule, op, tasks, expiries, faults>>

\* Type invariant: the tier holds data of uploads that were made, the queues too.
TierTypeOK ==
  /\ puts \in 0..MaxUploads
  /\ src \in ObjectMeta
  /\ remote \subseteq 1..puts
  /\ rule \in BOOLEAN
  /\ op \in {"idle", "upload", "commit", "shed", "intent", "remove", "purge", "fetch"}
  /\ tasks \subseteq 1..puts /\ expiries \subseteq 1..puts
  /\ faults \in 0..MaxFaults

TierInit ==
  /\ puts = 0
  /\ src = NoObject
  /\ remote = {}
  /\ rule = TRUE
  /\ op = "idle"
  /\ tasks = {} /\ expiries = {}
  /\ faults = 0

Exists == src.up # 0
Same == UNCHANGED <<puts, rule, tasks, expiries, faults>>

\* Whether the object is read from its local data (transitionHasLocalData).
ReadsLocal == src.status # "complete" \/ src.restore = "done"

-----------------------------------------------------------------------------
(* Clients.                                                                   *)

\* putObject does not replace an object that is, or is being, tiered.
TierPut ==
  /\ op = "idle"
  /\ src.status = "" /\ puts < MaxUploads
  /\ puts' = puts + 1
  /\ src' = [NoObject EXCEPT !.up = puts', !.local = TRUE]
  /\ UNCHANGED <<remote, rule, op, tasks, expiries, faults>>

\* Mutant of BeginDelete: the remote copy is removed before it is recorded.
BeginDeleteNoIntent ==
  IF src.status = "" \/ (src.status = "pending" /\ src.up \notin remote)
  THEN "purge" ELSE "remove"

\* cleanupTransitionBeforeDelete: where the delete of the object begins.  A
\* pending upload may have reached the tier though its reply was lost.
BeginDelete ==
  IF src.status = "" \/ (src.status = "pending" /\ src.up \notin remote) THEN "purge"
  ELSE IF src.intent THEN "remove"
  ELSE "intent"

\* DeleteObject.
TierDelete ==
  /\ op = "idle" /\ Exists
  /\ op' = BeginDelete
  /\ UNCHANGED <<src, remote>> /\ Same

\* beginTransitionRestore
BeginRestore ==
  /\ op = "idle"
  /\ src.status = "complete" /\ ~src.intent
  /\ src.restore \in {"none", "expired"}
  /\ src' = [src EXCEPT !.restore = "ongoing"]
  /\ UNCHANGED <<remote, op>> /\ Same

\* restoreTransitionedObject, started by the request that began it.
StartRestore ==
  /\ op = "idle"
  /\ src.status = "complete" /\ src.restore = "ongoing" /\ ~src.intent
  /\ op' = "fetch"
  /\ UNCHANGED <<src, remote>> /\ Same

\* The life cycle configuration of the bucket is removed or put back.
EditRule ==
  /\ rule' = ~rule
  /\ UNCHANGED <<puts, src, remote, op, tasks, expiries, faults>>

\* The expiry date of a restored copy is reached.
RestoredExpires ==
  /\ op = "idle"
  /\ src.restore = "done"
  /\ src' = [src EXCEPT !.restore = "expired"]
  /\ UNCHANGED <<remote, op>> /\ Same

-----------------------------------------------------------------------------
(* The scanner: applyLifecycle.                                               *)

\* lifecycleActionForObject: what was begun goes on without the rule.
WantsTransition ==
  \/ rule /\ src.status = ""
  \/ src.status = "pending"
  \/ src.status = "complete" /\ src.restore = "ongoing"

\* prepareTransitionLocked refuses an object whose deletion has begun.
Prepared == WantsTransition /\ ~src.intent

\* applyTransitionAction: the destination is committed, and the work queued.
ScanTransition ==
  /\ op = "idle" /\ Exists
  /\ Prepared
  /\ src' = IF src.status = "" THEN [src EXCEPT !.status = "pending"] ELSE src
  /\ tasks' = tasks \cup {src.up}
  /\ <<src', tasks'>> # <<src, tasks>>
  /\ UNCHANGED <<puts, remote, rule, op, expiries, faults>>

\* Mutant of ScanIntent: the scanner leaves a begun deletion to the client.
ScanIntentNever == FALSE

\* A deletion that was begun is queued for executeExpiry.
ScanIntent ==
  /\ Exists /\ src.intent
  /\ src.up \notin expiries
  /\ expiries' = expiries \cup {src.up}
  /\ UNCHANGED <<puts, src, remote, rule, op, tasks, faults>>

\* executeExpiry of a queued task.  The upload must still be the one queued.
Expiry(u) ==
  /\ op = "idle"
  /\ u \in expiries
  /\ expiries' = expiries \ {u}
  /\ op' = IF src.up = u /\ src.intent THEN BeginDelete ELSE "idle"
  /\ UNCHANGED <<puts, src, remote, rule, tasks, faults>>

\* executeExpiry of the life cycle's Expiration of the object itself.
ScanExpiration ==
  /\ op = "idle" /\ Exists /\ rule
  /\ op' = BeginDelete
  /\ UNCHANGED <<src, remote>> /\ Same

\* executeExpiry of a restored copy: the header goes, and then the data.
ScanRestored ==
  /\ op = "idle"
  /\ src.status = "complete" /\ src.restore = "expired" /\ ~src.intent
  /\ src' = [src EXCEPT !.restore = "none"]
  /\ op' = "shed"
  /\ UNCHANGED remote /\ Same

-----------------------------------------------------------------------------
(* transitionObject, taken from the queue.                                    *)

\* The object is read again under the lock, and the tier asked for the data.
TaskStep(u) ==
  IF src.up # u \/ src.intent THEN "idle"
  ELSE IF src.status = "complete" /\ src.restore = "ongoing" THEN "fetch"
  ELSE IF src.status = "pending" THEN IF u \in remote THEN "commit" ELSE "upload"
  ELSE "idle"

TakeTask(u) ==
  /\ op = "idle"
  /\ u \in tasks
  /\ tasks' = tasks \ {u}
  /\ op' = TaskStep(u)
  /\ UNCHANGED <<puts, src, remote, rule, expiries, faults>>

\* PutObject to the tier.
Upload ==
  /\ op = "upload"
  /\ remote' = remote \cup {src.up}
  /\ op' = "commit"
  /\ UNCHANGED src /\ Same

\* DeleteObject with TransitionComplete: PutObjectMetadata at write quorum,
\* and then the local data on each drive.
Commit ==
  /\ op = "commit"
  /\ src' = [src EXCEPT !.status = "complete", !.restore = "none"]
  /\ op' = "shed"
  /\ UNCHANGED remote /\ Same

ShedLocal ==
  /\ op = "shed"
  /\ src' = [src EXCEPT !.local = FALSE]
  /\ op' = "idle"
  /\ UNCHANGED remote /\ Same

\* restoreTransitionedObjectLocked: the data is read from the tier and put.
Fetch ==
  /\ op = "fetch"
  /\ src' = IF src.up \in remote THEN [src EXCEPT !.restore = "done", !.local = TRUE] ELSE src
  /\ op' = "idle"
  /\ UNCHANGED remote /\ Same

-----------------------------------------------------------------------------
(* cleanupTransitionBeforeDelete and the delete itself.                       *)

PersistIntent ==
  /\ op = "intent"
  /\ src' = [src EXCEPT !.intent = TRUE]
  /\ op' = "remove"
  /\ UNCHANGED remote /\ Same

RemoveRemote ==
  /\ op = "remove"
  /\ remote' = remote \ {src.up}
  /\ op' = "purge"
  /\ UNCHANGED src /\ Same

PurgeLocal ==
  /\ op = "purge"
  /\ src' = NoObject
  /\ op' = "idle"
  /\ UNCHANGED remote /\ Same

-----------------------------------------------------------------------------
(* Faults.                                                                    *)

Fault == faults < MaxFaults /\ faults' = faults + 1

\* The operation fails at its next step, which has had no effect.
Fail ==
  /\ Fault
  /\ op # "idle"
  /\ op' = "idle"
  /\ UNCHANGED <<puts, src, remote, rule, tasks, expiries>>

\* The remote call is carried out and its reply is lost.
ReplyLost ==
  /\ Fault
  /\ \/ op = "upload" /\ remote' = remote \cup {src.up}
     \/ op = "remove" /\ remote' = remote \ {src.up}
  /\ op' = "idle"
  /\ UNCHANGED <<puts, src, rule, tasks, expiries>>

\* The server restarts: its queues are lost.
TierCrash ==
  /\ Fault
  /\ op' = "idle" /\ tasks' = {} /\ expiries' = {}
  /\ UNCHANGED <<puts, src, remote, rule>>

Steps == Upload \/ Commit \/ ShedLocal \/ Fetch \/ PersistIntent \/ RemoveRemote \/ PurgeLocal

TierNext ==
  \/ \E u \in Uploads : Expiry(u) \/ TakeTask(u)
  \/ TierPut
  \/ TierDelete \/ BeginRestore \/ StartRestore \/ EditRule \/ RestoredExpires
  \/ ScanTransition \/ ScanIntent \/ ScanExpiration \/ ScanRestored
  \/ Steps
  \/ Fail \/ ReplyLost \/ TierCrash

\* An operation that has the lock goes on; the scanner comes round again and
\* again, and the workers take what is queued, also when clients and the
\* scanner's other duties keep taking the lock (the lock is fair to waiters).
TierFairness ==
  /\ WF_tierVars(Steps)
  /\ WF_tierVars(ScanIntent)
  /\ SF_tierVars(ScanTransition)
  /\ \A u \in Uploads : SF_tierVars(Expiry(u)) /\ SF_tierVars(TakeTask(u))

TierSpec == TierInit /\ [][TierNext]_tierVars /\ TierFairness

-----------------------------------------------------------------------------
(* Properties.                                                                *)

\* Whatever crashes, an object whose deletion has not begun can be read: its
\* data is on the drives, or in the tier at the destination it records.
TierReadable ==
  Exists /\ ~src.intent => IF ReadsLocal THEN src.local ELSE src.up \in remote

\* The data in the tier is never cut off: as long as it is there, the object's
\* metadata records where ("a failed remote operation leaves the durable
\* reference available for a retry").
NoOrphanInTier ==
  \A u \in remote : src.up = u /\ src.status # ""

\* The tier and the metadata of the object agree after any crash: the object can
\* be read, and no data in the tier is unreferenced (transition-reference.go).
TierSound == TierReadable /\ NoOrphanInTier

\* A deletion that began is not taken back: no restore, transition or upload
\* revives the object, which is only ever removed.
IntentIsFinal ==
  [][src.intent => src' = NoObject \/ (src'.intent /\ src'.up = src.up /\ (src'.local => src.local))]_tierVars

\* A deletion whose intent is recorded comes to an end, although the tier
\* refuses for a while and the server restarts (the scanner takes it up).
DeletionEnds == src.intent ~> ~src.intent

\* A version marked pending is transitioned or let go, also if the rule that
\* asked for it is gone and the server restarted.
TransitionEnds == (src.status = "pending") ~> (src.status # "pending")

\* A restore that was begun ends, also if its copy fails or the server restarts.
RestoreEnds == (src.restore = "ongoing") ~> (src.restore # "ongoing")

\* Everything begun about the tier ends: deletions, which are not taken back,
\* transitions and restores.
TierEnds == DeletionEnds /\ IntentIsFinal /\ TransitionEnds /\ RestoreEnds
=============================================================================
