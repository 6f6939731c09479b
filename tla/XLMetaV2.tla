------------------------------ MODULE XLMetaV2 ------------------------------
(* The versions of one object on one drive: the journal in xl.meta            *)
(* (xl-storage-format-v2.go), the data directories beside it (xl-storage.go), *)
(* and what the object layer asks of them in a bucket whose versioning is     *)
(* off, enabled or suspended (erasure-object.go, erasure-server-pool.go).     *)
(* The namespace lock makes the operations on an object exclude one another,  *)
(* so that each one is a step; the drives of a set do the same steps.         *)
(*                                                                            *)
(* UTCNow and mustGetUUID are clock: a new version gets a later time, a new   *)
(* id and a new data directory.  The null version has id 0.  A version that   *)
(* is moved to a remote tier keeps its entry and loses its local data.        *)
EXTENDS Integers, Sequences, Functions

CONSTANT MaxOps   \* bound on the number of operations

ASSUME MaxOpsAssumption == MaxOps \in Nat

Null == 0
AnyId == -1        \* a request without versionId
Ids == 0..MaxOps
NoDir == 0

VARIABLES versions,   \* xlMetaV2.Versions: the entries, in their order
          inline,     \* xlMetaV2.data: ids of the versions with inline data
          dirs,       \* data directories on the drive
          leaked,     \* history: directories of restored copies restored anew
          mode,       \* versioning of the bucket
          clock,
          did         \* history: the last operation and the id it was given

xlVars == <<versions, inline, dirs, leaked, mode, clock, did>>

VersionEntry == [type : {"object", "delete"}, id : Ids, dir : Ids, time : Ids,
          small : BOOLEAN,                      \* small enough to be inlined
          tier : {"", "pending", "complete"},   \* transition-status
          restored : BOOLEAN,                   \* has an x-amz-restore header
          purge : {"", "PENDING"},              \* VersionPurgeStatusKey
          tagged : BOOLEAN]

\* Type invariant: the journal holds entries with the fields xl.meta has.
XLTypeOK ==
  /\ versions \in Seq(VersionEntry)
  /\ inline \subseteq Ids /\ dirs \subseteq Ids /\ leaked \subseteq Ids
  /\ mode \in {"off", "enabled", "suspended"}
  /\ clock \in 1..MaxOps + 1
  /\ did \in [op : {"none", "put", "copy", "delete", "tag", "tier", "mode"},
              id : Ids \cup {AnyId}]

XLInit ==
  /\ versions = <<>>
  /\ inline = {} /\ dirs = {} /\ leaked = {}
  /\ mode \in {"off", "enabled", "suspended"}
  /\ clock = 1
  /\ did = [op |-> "none", id |-> AnyId]

-----------------------------------------------------------------------------
(* xlMetaV2.                                                                  *)

\* The first entry with an id.
IsPlace(vs, id, i) == vs[i].id = id /\ \A j \in 1..i - 1 : vs[j].id # id
Has(vs, id) == \E v \in Range(vs) : v.id = id
Place(vs, id) == CHOOSE i \in DOMAIN vs : IsPlace(vs, id, i)

\* vs without its i-th entry.
Dropped(vs, i) == [j \in 1..Len(vs) - 1 |-> IF j < i THEN vs[j] ELSE vs[j + 1]]

\* ToFileInfo: without an id, the entry with the latest time.
Found(id) ==
  IF id = AnyId THEN {v \in Range(versions) : \A w \in Range(versions) : w.time <= v.time}
  ELSE {v \in Range(versions) : v.id = id}

AddVersion(vs, v) ==
  IF Has(vs, v.id) THEN [vs EXCEPT ![Place(vs, v.id)] = v] ELSE Append(vs, v)

\* Whether a version needs the data directory of its entry.
NeedsDir(v) == v.type = "object" /\ (v.tier # "complete" \/ v.restored)

\* Mutant of SharedDataDir: no other version is looked at.
SharedDataDirNever(vs, id, dir) == FALSE

\* SharedDataDirCount(Str) > 0.  Inline data is looked for under the id of
\* the version; the key of the null version is another one than it looks for.
SharedDataDir(vs, id, dir) ==
  /\ id = Null \/ id \notin inline
  /\ \E v \in Range(vs) : v.id # id /\ NeedsDir(v) /\ v.dir = dir

\* UpdateObjectVersion stops at the first delete marker, whatever its id.
CanUpdate(vs, id) ==
  Has(vs, id) /\ \A i \in 1..Place(vs, id) : vs[i].type = "object"

Marker(fi) ==
  [type |-> "delete", id |-> fi.id, dir |-> NoDir, time |-> clock, small |-> FALSE,
   tier |-> "", restored |-> FALSE, purge |-> "", tagged |-> FALSE]

\* xlMetaV2.DeleteVersion: the journal, and the data directory to remove.
\* fi is the FileInfo of the request: its id, Deleted, MarkDeleted,
\* VersionPurgeStatus and TransitionStatus.
DeleteVersion(fi) ==
  LET i == Place(versions, fi.id)
      v == versions[i]
      updateVersion == IF fi.purge = "" THEN fi.mark ELSE fi.purge # "COMPLETE"
      Marked(vs) == IF fi.deleted THEN Append(vs, Marker(fi)) ELSE vs
      Unshared(vs) == IF SharedDataDir(vs, fi.id, v.dir) THEN NoDir ELSE v.dir
  IN IF ~Has(versions, fi.id) THEN [vs |-> Marked(versions), dir |-> NoDir]
     ELSE IF updateVersion
     THEN [vs |-> [versions EXCEPT ![i] = [v EXCEPT !.purge = fi.purge]], dir |-> NoDir]
     ELSE IF v.type = "delete"
     THEN [vs |-> Dropped(versions, i), dir |-> NoDir]
     ELSE IF fi.tier # ""
     THEN LET vs == [versions EXCEPT ![i] = [v EXCEPT !.tier = fi.tier,
                                                      !.restored = v.restored /\ fi.tier # "complete"]]
          IN [vs |-> vs, dir |-> Unshared(vs)]
     ELSE [vs |-> Marked(Dropped(versions, i)), dir |-> Unshared(Dropped(versions, i))]

-----------------------------------------------------------------------------
(* xlStorage.                                                                 *)

Done(op, id) ==
  /\ clock <= MaxOps
  /\ clock' = clock + 1
  /\ did' = [op |-> op, id |-> id]

\* xlStorage.DeleteVersion.  With its last version the object's directory goes
\* to the trash; a version whose transition is pending keeps its data.
DriveDeleteVersion(fi) ==
  LET res == DeleteVersion(fi)
      gone == IF fi.tier = "pending" THEN NoDir ELSE res.dir
  IN /\ fi.deleted \/ Has(versions, fi.id)
     /\ versions' = res.vs
     /\ IF res.vs = <<>> THEN inline' = {} /\ dirs' = {}
        ELSE /\ inline' = IF gone = NoDir THEN inline ELSE inline \ {fi.id}
             /\ dirs' = dirs \ {gone}

\* RenameData: the directory of the null version that is replaced.
OldDataDir(v) ==
  IF /\ v.id = Null
     /\ \E w \in Found(Null) : w.type = "object" /\ ~SharedDataDir(versions, Null, w.dir)
  THEN (CHOOSE w \in Found(Null) : TRUE).dir
  ELSE NoDir

\* xlStorage.RenameData: v replaces the version with its id, or is added.
RenameData(v) ==
  /\ versions' = AddVersion(versions, v)
  /\ inline' = IF v.small THEN inline \cup {v.id} ELSE inline \ {v.id}
  /\ dirs' = (dirs \ {OldDataDir(v)}) \cup (IF v.small THEN {} ELSE {v.dir})

-----------------------------------------------------------------------------
(* The object layer.                                                          *)

\* putObject refuses to replace a version that is, or is being, tiered.
PutObject(small) ==
  LET id == IF mode = "enabled" THEN clock ELSE Null
  IN /\ \A v \in Found(id) : v.tier = ""
     /\ RenameData([type |-> "object", id |-> id, dir |-> clock, time |-> clock,
                    small |-> small, tier |-> "", restored |-> FALSE, purge |-> "",
                    tagged |-> FALSE])
     /\ Done("put", id)
     /\ UNCHANGED <<leaked, mode>>

\* CopyObject of an object onto itself in a versioned bucket: a new version
\* that refers to the data directory of the source (versionOnly).
CopyVersionOnly(id) ==
  /\ mode = "enabled"
  /\ \E src \in Found(id) :
       /\ src.type = "object" /\ src.tier = "" /\ src.purge = ""
       /\ versions' = AddVersion(versions, [src EXCEPT !.id = clock, !.time = clock])
       /\ inline' = IF src.id \in inline THEN inline \cup {clock} ELSE inline
  /\ Done("copy", clock)
  /\ UNCHANGED <<dirs, leaked, mode>>

\* Mutant of DeleteRequest: the marker takes the id of the latest version.
DeleteRequestOfLatest(goi, id, purge) ==
  [id |-> goi.id, mark |-> FALSE, deleted |-> id = AnyId /\ mode # "off",
   purge |-> purge, tier |-> ""]

\* The FileInfo that DeleteObject sends to the drives.  The id of an object
\* that was found is "null" and not empty once the bucket has been versioned.
DeleteRequest(goi, id, purge) ==
  [id |-> IF id # AnyId THEN id ELSE IF mode = "enabled" THEN clock ELSE Null,
   mark |-> mode # "off" /\ (id = AnyId \/ purge = "PENDING"),
   deleted |-> mode # "off" /\ (id = AnyId \/ goi.type = "delete"),
   purge |-> purge, tier |-> ""]

\* DeleteObject.  When the bucket is replicated, a version is marked first
\* (PENDING) and removed once the replica is gone (COMPLETE).
DeleteObject(id, purge) ==
  /\ purge # "" => id # AnyId /\ mode = "enabled"
  /\ \E goi \in Found(id) : DriveDeleteVersion(DeleteRequest(goi, id, purge))
  /\ Done("delete", IF purge = "PENDING" THEN Null ELSE id)
  /\ UNCHANGED <<leaked, mode>>

\* DeleteObjects sends the drives an entry of its own making.
DeleteObjects(id) ==
  /\ versions # <<>>
  /\ DriveDeleteVersion(
       IF id = AnyId
       THEN [id |-> IF mode = "enabled" THEN clock ELSE Null, mark |-> FALSE,
             deleted |-> mode # "off", purge |-> "", tier |-> ""]
       ELSE [id |-> id, mark |-> FALSE, deleted |-> FALSE, purge |-> "", tier |-> ""])
  /\ Done("delete", id)
  /\ UNCHANGED <<leaked, mode>>

\* PutObjectTags and PutObjectMetadata: UpdateObjectVersion on every drive.
PutObjectTags(id) ==
  /\ \E fi \in Found(id) :
       /\ fi.type = "object" /\ ~fi.tagged
       /\ CanUpdate(versions, fi.id)
       /\ versions' = [versions EXCEPT ![Place(versions, fi.id)] = [fi EXCEPT !.tagged = TRUE]]
  /\ Done("tag", id)
  /\ UNCHANGED <<inline, dirs, leaked, mode>>

\* prepareTransition: the version is bound to its destination.
TransitionPending(id) ==
  /\ \E fi \in Found(id) :
       /\ fi.type = "object" /\ fi.tier = "" /\ fi.purge = ""
       /\ DriveDeleteVersion([id |-> fi.id, mark |-> FALSE, deleted |-> FALSE,
                              purge |-> "", tier |-> "pending"])
  /\ Done("tier", id)
  /\ UNCHANGED <<leaked, mode>>

\* transitionObject once the upload is done, and executeExpiry of a restored
\* copy: the metadata is committed, and then the local data removed.
TransitionComplete(id) ==
  /\ \E fi \in Found(id) :
       /\ fi.tier = "pending" \/ fi.restored
       /\ CanUpdate(versions, fi.id)
       /\ DriveDeleteVersion([id |-> fi.id, mark |-> FALSE, deleted |-> FALSE,
                              purge |-> "", tier |-> "complete"])
  /\ Done("tier", id)
  /\ UNCHANGED <<leaked, mode>>

\* restoreTransitionedObject: an upload into the version, with a new data
\* directory.  A copy that has expired may be restored again before it is
\* removed; only the null version gives up the directory it had.
Restore(id) ==
  /\ \E fi \in Found(id) :
       /\ fi.tier = "complete"
       /\ CanUpdate(versions, fi.id)
       /\ RenameData([fi EXCEPT !.dir = clock, !.restored = TRUE])
       /\ leaked' = IF fi.restored /\ ~fi.small /\ fi.id # Null
                    THEN leaked \cup {fi.dir} ELSE leaked
  /\ Done("tier", id)
  /\ UNCHANGED mode

\* PutBucketVersioning.
SetVersioning(m) ==
  /\ m # mode
  /\ mode' = m
  /\ Done("mode", AnyId)
  /\ UNCHANGED <<versions, inline, dirs, leaked>>

XLNext ==
  \/ \E small \in BOOLEAN : PutObject(small)
  \/ \E id \in Ids \cup {AnyId} :
       \/ CopyVersionOnly(id)
       \/ \E purge \in {"", "PENDING", "COMPLETE"} : DeleteObject(id, purge)
       \/ DeleteObjects(id)
       \/ PutObjectTags(id)
  \/ \E id \in Ids :
       \/ TransitionPending(id)
       \/ TransitionComplete(id)
       \/ Restore(id)
  \/ \E m \in {"enabled", "suspended"} : SetVersioning(m)

XLSpec == XLInit /\ [][XLNext]_xlVars

-----------------------------------------------------------------------------
(* Properties.                                                                *)

\* AddVersion and DeleteVersion keep one entry for an id: a read of a version
\* (ToFileInfo) does not depend on the order of the journal.
OneEntryPerVersion ==
  \A i, j \in DOMAIN versions : versions[i].id = versions[j].id => i = j

\* Every version that is not on a tier, or is restored from it, has its data on
\* the drive, inline or in a directory, even when the directory is shared with
\* a version that was deleted, overwritten or tiered (SharedDataDirCount).
DataHeld ==
  \A v \in Range(versions) :
    NeedsDir(v) => IF v.small THEN v.id \in inline ELSE v.dir \in dirs

\* DeleteVersion and RenameData leave no directory behind that no version
\* refers to, but those of restored copies that were restored anew.
NoOrphanDir ==
  \A d \in dirs \ leaked : \E v \in Range(versions) : NeedsDir(v) /\ v.dir = d

\* The journal and the data it refers to agree after any operations: one entry
\* for an id, the data of every version, and no other directory.
JournalSound == OneEntryPerVersion /\ DataHeld /\ NoOrphanDir

\* A version with an id leaves the journal only when a request names it: no
\* upload, copy, tiering or delete without versionId touches it.
VersionsKept ==
  [][\A v \in Range(versions) :
       v.id # Null /\ ~Has(versions', v.id) => did'.op = "delete" /\ did'.id = v.id]_xlVars

Visible == \E v \in Found(AnyId) : v.type = "object"

\* After a delete without versionId the object is not found, and the versions
\* it had are still there if the bucket is versioned.
DeleteHides ==
  [][did'.op = "delete" /\ did'.id = AnyId /\ mode # "suspended" => ~Visible']_xlVars

\* What a request does to the history of the object: versions leave it only by
\* their id (DeleteVersion), and a delete without versionId hides the object.
HistoryKept == VersionsKept /\ DeleteHides

\* "versioning suspended means we add `null` version as delete marker": after a
\* delete without versionId the object is not found.
SuspendedDeleteHides ==
  [][did'.op = "delete" /\ did'.id = AnyId => ~Visible']_xlVars

\* UpdateObjectVersion updates any version of the journal but a delete marker.
UpdateFindsVersion ==
  \A v \in Range(versions) : v.type = "object" => CanUpdate(versions, v.id)
=============================================================================
