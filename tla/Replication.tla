---------------------------- MODULE Replication ----------------------------
(***************************************************************************)
(* Bucket replication of one object (cmd/bucket-replication.go): the       *)
(* handlers store a version with status PENDING and queue a task, the      *)
(* workers of the ReplicationPool copy versions and deletions to the       *)
(* target bucket and record the outcome on the source version, and the     *)
(* scanner queues again what is not COMPLETED.  replicateObject holds the  *)
(* object's write lock from its read to its status update;                 *)
(* replicateDelete takes it only for the status update.  The target is     *)
(* another deployment of the same server, reached by requests that may     *)
(* fail with or without effect.                                            *)
(***************************************************************************)
EXTENDS FiniteSets, Integers, Sequences

CONSTANTS RepWorkers,    \* goroutines of AddWorker and AddMRFWorker
          NVersions,     \* bound on the versions and delete markers created
          NRequests,     \* bound on the requests of clients
          RepQueueSize,  \* room in the channels of the pool
          MaxRepMishaps, \* bound on failed requests and restarts
          RepRequests    \* the client requests of the instance

VARIABLES source,     \* xl.meta of the object on the source: the versions by their ids, in whose order it lists them
          target,     \* the versions on the target
          created,    \* version ids given out
          asked,      \* client requests so far
          repTasks,      \* replicaCh, mrfReplicaCh and the two delete channels
          worker,     \* the task of each worker and how far it is
          repMishaps

repVars == <<source, target, created, asked, repTasks, worker, repMishaps>>

ASSUME RepAssumption ==
    /\ RepWorkers # {} /\ NVersions \in Nat \ {0} /\ NRequests \in Nat /\ RepQueueSize \in Nat \ {0} /\ MaxRepMishaps \in Nat
    /\ RepRequests \subseteq {"put", "tags", "marker", "purge"}

Statuses == {"", "PENDING", "COMPLETED", "FAILED"}
VersionIds == 1..NVersions

\* A version of the source: an object or a delete marker, its replication status, its
\* VersionPurgeStatus and its tags.
SourceVersion == [del: BOOLEAN, repl: Statuses, purge: Statuses, tags: 0..1]
TargetVersion == [id: VersionIds, del: BOOLEAN, tags: 0..1]

\* ReplicateObjectInfo, and DeletedObjectVersionInfo with DeleteMarkerVersionID or VersionID.
PutTask(id, heal) == [kind |-> "put", id |-> id, heal |-> heal, retry |-> FALSE,
                      marker |-> FALSE, repl |-> "", purge |-> ""]
DelTask(id, marker, repl, purge) == [kind |-> "del", id |-> id, heal |-> FALSE, retry |-> FALSE,
                                     marker |-> marker, repl |-> repl, purge |-> purge]
NoTask == PutTask(0, FALSE)
Resting == [task |-> NoTask, at |-> "idle", failed |-> FALSE]

Present(id) == id \in DOMAIN source
OnTarget(id) == {t \in target : t.id = id}

\* Mutant of RepLocked: the lock is given back before the status is recorded.
RepLockedToSend == \E w \in RepWorkers : worker[w].at \in {"stat", "copy", "send"}

\* replicateObject keeps the write lock of the object.
RepLocked == \E w \in RepWorkers : worker[w].at \in {"stat", "copy", "send", "update"}

RepInit ==
    /\ source = [id \in {} |-> {}] /\ target = {} /\ created = 0 /\ asked = 0 /\ repTasks = <<>>
    /\ worker = [w \in RepWorkers |-> Resting] /\ repMishaps = 0

\* Mutant of QueueTask: one task too many.
QueueTaskOver(t) == repTasks' = IF Len(repTasks) <= RepQueueSize THEN Append(repTasks, t) ELSE repTasks

\* queueReplicaTask and queueReplicaDeleteTask: dropped when the channels are full.
QueueTask(t) == repTasks' = IF Len(repTasks) < RepQueueSize THEN Append(repTasks, t) ELSE repTasks

-----------------------------------------------------------------------------
(* The handlers of the source.                                             *)

Asks(kind) == kind \in RepRequests /\ asked < NRequests /\ asked' = asked + 1

Stored(id, v) == [i \in DOMAIN source \cup {id} |-> IF i = id THEN v ELSE source[i]]

PutVersion ==
    /\ Asks("put") /\ ~RepLocked /\ created < NVersions /\ created' = created + 1
    /\ source' = Stored(created + 1, [del |-> FALSE, repl |-> "PENDING", purge |-> "", tags |-> 0])
    /\ QueueTask(PutTask(created + 1, FALSE))
    /\ UNCHANGED <<target, worker, repMishaps>>

\* UpdateObjectVersion gives up at the first delete marker of the list.
Updatable(id) == Present(id) /\ \A i \in DOMAIN source : source[i].del => i > id

\* PutObjectTaggingHandler, with a version id: refused for a version being purged.
PutVersionTags(id) ==
    /\ Asks("tags") /\ ~RepLocked /\ Updatable(id) /\ source[id].purge = "" /\ source[id].tags = 0
    /\ source' = [source EXCEPT ![id] = [@ EXCEPT !.tags = 1, !.repl = "PENDING"]]
    /\ QueueTask(PutTask(id, FALSE))
    /\ UNCHANGED <<target, created, worker, repMishaps>>

\* DeleteObjectHandler without a version id.
DeleteWithMarker ==
    /\ Asks("marker") /\ ~RepLocked /\ DOMAIN source # {} /\ created < NVersions /\ created' = created + 1
    /\ source' = Stored(created + 1, [del |-> TRUE, repl |-> "PENDING", purge |-> "", tags |-> 0])
    /\ QueueTask(DelTask(created + 1, TRUE, "PENDING", ""))
    /\ UNCHANGED <<target, worker, repMishaps>>

\* DeleteObject with a version id and replication statuses: rewrites them on the version, or
\* removes it once the purge is complete.  An object keeps its replication status.
WithStatus(id, repl, purge) ==
    IF purge = "COMPLETE" THEN [i \in DOMAIN source \ {id} |-> source[i]]
    ELSE IF source[id].del THEN [source EXCEPT ![id] = [@ EXCEPT !.repl = repl, !.purge = purge]]
    ELSE [source EXCEPT ![id].purge = purge]

\* DeleteObjectHandler with a version id.  The deletion of a marker is queued as if the
\* marker had been set.
PurgeVersion(id) ==
    /\ Asks("purge") /\ ~RepLocked /\ Present(id) /\ source[id].purge = ""
    /\ source' = WithStatus(id, "", "PENDING")
    /\ QueueTask(DelTask(id, source[id].del, "", "PENDING"))
    /\ UNCHANGED <<target, created, worker, repMishaps>>

-----------------------------------------------------------------------------
(* The scanner: healReplication and healReplicationDeletes.                *)

Unsettled == {"PENDING", "FAILED"}
HealTask(id) == LET v == source[id] IN
    IF v.del \/ v.purge # "" THEN DelTask(id, v.purge = "", v.repl, v.purge) ELSE PutTask(id, TRUE)

\* Mutant of ScanVersion: versions left PENDING are not looked at.
ScanVersionFailed(id) ==
    /\ Present(id) /\ source[id].repl = "FAILED"
    /\ Len(repTasks) < RepQueueSize /\ QueueTask(HealTask(id))
    /\ UNCHANGED <<source, target, created, asked, worker, repMishaps>>
ScanVersion(id) ==
    /\ Present(id) /\ (source[id].repl \in Unsettled \/ source[id].purge \in Unsettled)
    /\ Len(repTasks) < RepQueueSize /\ QueueTask(HealTask(id))
    /\ UNCHANGED <<source, target, created, asked, worker, repMishaps>>

-----------------------------------------------------------------------------
(* replicateObject.                                                        *)

\* The channels without their i-th task.
Without(i) == [j \in 1..Len(repTasks) - 1 |-> IF j < i THEN repTasks[j] ELSE repTasks[j + 1]]

Moves(w, at) == worker' = [worker EXCEPT ![w].at = at]

\* The read under the write lock; a version that is gone is skipped, one that is being purged
\* is not.
TakePut(w, i) ==
    /\ worker[w] = Resting /\ repTasks[i].kind = "put" /\ ~RepLocked
    /\ repTasks' = Without(i)
    /\ worker' = IF Present(repTasks[i].id) THEN [worker EXCEPT ![w] = [task |-> repTasks[i], at |-> "stat", failed |-> FALSE]]
                 ELSE worker
    /\ UNCHANGED <<source, target, created, asked, repMishaps>>

\* StatObject and getReplicationAction: nothing to do, the metadata, or all of it.
StatTarget(w) ==
    /\ worker[w].at = "stat"
    /\ LET id == worker[w].task.id IN
       IF OnTarget(id) = {} THEN Moves(w, "send")
       ELSE IF \E t \in OnTarget(id) : t.tags = source[id].tags
            THEN worker' = [worker EXCEPT ![w] = Resting]
            ELSE Moves(w, "copy")
    /\ UNCHANGED <<source, target, created, asked, repTasks, repMishaps>>

CopyOf(id) == [id |-> id, del |-> source[id].del, tags |-> source[id].tags]

\* PutObject or CopyObject on the target: CopyObject fails when the version is gone there.
SendVersion(w) ==
    /\ worker[w].at \in {"copy", "send"}
    /\ LET id == worker[w].task.id
           refused == worker[w].at = "copy" /\ OnTarget(id) = {}
       IN /\ target' = IF refused THEN target ELSE (target \ OnTarget(id)) \cup {CopyOf(id)}
          /\ worker' = [worker EXCEPT ![w] = [@ EXCEPT !.at = "update", !.failed = refused]]
    /\ UNCHANGED <<source, created, asked, repTasks, repMishaps>>

\* The request fails, with or without effect.
SendFails(w) ==
    /\ worker[w].at \in {"copy", "send"} /\ repMishaps < MaxRepMishaps /\ repMishaps' = repMishaps + 1
    /\ target' \in {target, (target \ OnTarget(worker[w].task.id)) \cup {CopyOf(worker[w].task.id)}}
    /\ worker' = [worker EXCEPT ![w] = [@ EXCEPT !.at = "update", !.failed = TRUE]]
    /\ UNCHANGED <<source, created, asked, repTasks>>

\* A failure of the first attempt leaves PENDING; it is queued once more.
RecordsStatus(w) == worker[w].task.heal \/ ~worker[w].failed

RecordStatus(w) ==
    /\ worker[w].at = "update"
    /\ LET t == worker[w].task IN
       /\ source' = IF RecordsStatus(w) /\ Updatable(t.id)
                    THEN [source EXCEPT ![t.id].repl = IF worker[w].failed THEN "FAILED" ELSE "COMPLETED"]
                    ELSE source
       /\ IF worker[w].failed /\ ~t.retry
          THEN QueueTask([t EXCEPT !.heal = TRUE, !.retry = TRUE]) ELSE UNCHANGED repTasks
    /\ worker' = [worker EXCEPT ![w] = Resting]
    /\ UNCHANGED <<target, created, asked, repMishaps>>

-----------------------------------------------------------------------------
(* replicateDelete.                                                        *)

TakeDelete(w, i) ==
    /\ worker[w] = Resting /\ repTasks[i].kind = "del"
    /\ repTasks' = Without(i)
    /\ worker' = [worker EXCEPT ![w] = [task |-> repTasks[i], at |-> "remove", failed |-> FALSE]]
    /\ UNCHANGED <<source, target, created, asked, repMishaps>>

\* DeleteObjectHandler and DeleteObject on the target.  A marker to be set that is there
\* already is removed, because the request says REPLICA.
RemovedOnTarget(t) ==
    IF t.marker /\ OnTarget(t.id) = {} THEN target \cup {[id |-> t.id, del |-> TRUE, tags |-> 0]}
    ELSE target \ OnTarget(t.id)

RemoveOnTarget(w) ==
    /\ worker[w].at = "remove"
    /\ target' = RemovedOnTarget(worker[w].task)
    /\ Moves(w, "mark")
    /\ UNCHANGED <<source, created, asked, repTasks, repMishaps>>

RemoveFails(w) ==
    /\ worker[w].at = "remove" /\ repMishaps < MaxRepMishaps /\ repMishaps' = repMishaps + 1
    /\ target' \in {target, RemovedOnTarget(worker[w].task)}
    /\ worker' = [worker EXCEPT ![w] = [@ EXCEPT !.at = "mark", !.failed = TRUE]]
    /\ UNCHANGED <<source, created, asked, repTasks>>

\* versionPurgeStatus of replicateDelete: what the task carried, for a marker to be set.
PurgeOutcome(t, failed) == IF t.marker THEN t.purge ELSE IF failed THEN "FAILED" ELSE "COMPLETE"
MarkerOutcome(t, failed) == IF ~t.marker THEN t.repl ELSE IF failed THEN "FAILED" ELSE "COMPLETED"

MarkDeletion(w) ==
    /\ worker[w].at = "mark" /\ ~RepLocked
    /\ LET t == worker[w].task IN
       source' = IF Present(t.id) THEN WithStatus(t.id, MarkerOutcome(t, worker[w].failed), PurgeOutcome(t, worker[w].failed))
                 ELSE source
    /\ worker' = [worker EXCEPT ![w] = Resting]
    /\ UNCHANGED <<target, created, asked, repTasks, repMishaps>>

-----------------------------------------------------------------------------
\* A restart forgets the channels and the workers.
RepRestart ==
    /\ repMishaps < MaxRepMishaps /\ repMishaps' = repMishaps + 1
    /\ repTasks' = <<>> /\ worker' = [w \in RepWorkers |-> Resting]
    /\ UNCHANGED <<source, target, created, asked>>

Takes(w) == \E i \in DOMAIN repTasks : TakePut(w, i) \/ TakeDelete(w, i)
Works(w) == StatTarget(w) \/ SendVersion(w) \/ RecordStatus(w) \/ RemoveOnTarget(w)
RepNext ==
    \/ PutVersion \/ DeleteWithMarker \/ RepRestart
    \/ \E id \in VersionIds : PutVersionTags(id) \/ PurgeVersion(id) \/ ScanVersion(id)
    \/ \E w \in RepWorkers : Takes(w) \/ Works(w) \/ MarkDeletion(w) \/ SendFails(w) \/ RemoveFails(w)

\* Workers run, one that waits for the write lock gets it, and the scanner comes by every
\* version again and again, sometimes with room in the channels.
RepFairness ==
    /\ WF_repVars(\E w \in RepWorkers : Works(w)) /\ SF_repVars(\E w \in RepWorkers : Takes(w))
    /\ \A w \in RepWorkers : SF_repVars(MarkDeletion(w))
    /\ \A id \in VersionIds : SF_repVars(ScanVersion(id))
RepSpec == RepInit /\ [][RepNext]_repVars /\ RepFairness

-----------------------------------------------------------------------------
(* Properties.                                                             *)

\* Type invariant of the two buckets, the channels and the workers.
RepTypeOK ==
    /\ DOMAIN source \subseteq VersionIds /\ (\A id \in DOMAIN source : source[id] \in SourceVersion)
    /\ target \subseteq TargetVersion /\ created \in 0..NVersions
    /\ Len(repTasks) <= RepQueueSize
    /\ \A w \in RepWorkers : worker[w].at \in {"idle", "stat", "copy", "send", "update", "remove", "mark"}

\* An object version with status COMPLETED that nobody deletes is on the target with the same
\* tags: a tagging, a duplicate task or a late status update never leaves COMPLETED on what is
\* not replicated (the write lock of replicateObject).
CompletedOnTarget ==
    \A id \in DOMAIN source : LET v == source[id] IN
        ~v.del /\ v.repl = "COMPLETED" /\ v.purge = "" => CopyOf(id) \in target

Owed(id) == Present(id) /\ ~source[id].del /\ source[id].purge = ""
Behind == {id \in VersionIds : Owed(id) /\ CopyOf(id) \notin target}

\* The target catches up: every object version reaches it with its latest tags, or is deleted, although
\* channels overflow, requests fail and the server restarts (queueReplicaTask, healReplication).
VersionsReachTarget == Behind # {} ~> Behind = {}

Purging == {id \in VersionIds : Present(id) /\ ~source[id].del /\ source[id].purge # ""}

\* Deletions of object versions are carried out: the versions leave the source, although the
\* task is lost or the target refuses it for a while (healReplicationDeletes, replicateDelete).
PurgesEnd == Purging # {} ~> Purging = {}

\* The two buckets converge: versions reach the target and deletions are
\* carried out.
ReplicationEnds == VersionsReachTarget /\ PurgesEnd

\* A delete marker with status COMPLETED is on the target.
MarkersOnTarget ==
    \A id \in DOMAIN source : LET v == source[id] IN
        v.del /\ v.repl = "COMPLETED" /\ v.purge = "" => CopyOf(id) \in target

\* A version that has been purged from the source is not on the target.
PurgedGone == \A id \in 1..created : ~Present(id) => OnTarget(id) = {}

\* The replication status of a version leaves PENDING.
StatusSettles == \A id \in VersionIds :
    Owed(id) /\ source[id].repl = "PENDING" ~> ~Owed(id) \/ source[id].repl # "PENDING"
=============================================================================
