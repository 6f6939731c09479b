--------------------------- MODULE ErasureObject ----------------------------
(* One object of an unversioned bucket on one erasure set: upload, deletion,  *)
(* metadata update, read and healing (erasure-object.go, erasure-healing.go)  *)
(* over the drives' xl.meta and data directories (xl-storage.go).             *)
(*                                                                            *)
(* The calls of an operation to the drives run in parallel: each one is a     *)
(* step, and may fail before, amid or after its effect, or have its reply     *)
(* lost.  A server may crash at any step.  The namespace lock is the          *)
(* reader-writer lock that NSLock and Dsync show it to be.  Upload times come *)
(* from the clocks of different servers: they are distinct but not ordered.   *)
EXTENDS ErasureQuorum

CONSTANTS Procs, NoProc,
          Faults,      \* whether drives and servers may fail
          HealRemove   \* HealOpts.Remove: healing removes what is dangling

ASSUME ObjectAssumption ==
  /\ NoProc \notin Procs
  /\ 0 \in Tags
  /\ Faults \in BOOLEAN /\ HealRemove \in BOOLEAN

VARIABLES meta,      \* drive -> FileInfo of the null version, or Absent
          data,      \* drive -> data directories that hold the drive's shard
          writer,    \* holder of the write lock
          readers,   \* holders of the read lock
          pc,        \* operation -> its phase
          val,       \* operation -> the FileInfo that it writes
          todo,      \* operation -> drives whose call has not returned
          oks,       \* operation -> drives whose call returned nil
          used,      \* upload times taken
          possible   \* history: the values the object may have, given the
                     \* replies that clients got: that of the last successful
                     \* operation and of the ones begun or failed since

vars == <<meta, data, writer, readers, pc, val, todo, oks, used, possible>>
drives == <<meta, data>>
locks == <<writer, readers>>

Value == FileInfo \cup {Absent}

\* Type invariant of the drives, the lock of the object and the operations under way.
TypeOK ==
  /\ meta \in [Disks -> Value]
  /\ data \in [Disks -> SUBSET Times]
  /\ writer \in Procs \cup {NoProc}
  /\ readers \subseteq Procs
  /\ pc \in [Procs -> {"idle", "rename", "delete", "tag", "purge", "hlock", "heal"}]
  /\ val \in [Procs -> Value]
  /\ todo \in [Procs -> SUBSET Disks]
  /\ oks \in [Procs -> SUBSET Disks]
  /\ used \subseteq Times
  /\ possible \subseteq Value

Init ==
  /\ meta = [d \in Disks |-> Absent]
  /\ data = [d \in Disks |-> {}]
  /\ writer = NoProc
  /\ readers = {}
  /\ pc = [p \in Procs |-> "idle"]
  /\ val = [p \in Procs |-> Absent]
  /\ todo = [p \in Procs |-> {}]
  /\ oks = [p \in Procs |-> {}]
  /\ used = {}
  /\ possible = {Absent}

-----------------------------------------------------------------------------
(* The lock, and the calls of an operation.                                   *)

Unlocked == writer = NoProc /\ readers = {}

\* Operation p goes to phase ph with calls to the drives ds, to write fi.
Begin(p, ph, fi, ds) ==
  /\ pc' = [pc EXCEPT ![p] = ph]
  /\ val' = [val EXCEPT ![p] = fi]
  /\ todo' = [todo EXCEPT ![p] = ds]
  /\ oks' = [oks EXCEPT ![p] = {}]

Finish(p) ==
  /\ Begin(p, "idle", Absent, {})
  /\ writer' = IF writer = p THEN NoProc ELSE writer
  /\ readers' = readers \ {p}

\* The call of p to d returned.
Returned(p, d, ok) ==
  /\ d \in todo[p]
  /\ todo' = [todo EXCEPT ![p] = @ \ {d}]
  /\ oks' = [oks EXCEPT ![p] = IF ok THEN @ \cup {d} ELSE @]
  /\ UNCHANGED <<pc, val, used, locks, possible>>

\* readAllFileInfo: the drives in up reply.  The replies are taken together:
\* as the calls of an operation reach the drives in any order, replies spread
\* over one are those of a state during it.
View(up) == [d \in Disks |-> IF d \in up THEN meta[d] ELSE Offline]
Replying == IF Faults THEN SUBSET Disks ELSE {Disks}

-----------------------------------------------------------------------------
(* One drive: xlStorage.RenameData, DeleteVersion, UpdateMetadata.            *)

SetDrive(d, fi, dirs) ==
  /\ meta' = [meta EXCEPT ![d] = fi]
  /\ data' = [data EXCEPT ![d] = dirs]

\* The data directory of the version that is replaced goes to the trash.
KeptDirs(d) == IF meta[d] = Absent THEN data[d] ELSE data[d] \ {meta[d].dir}

\* What RenameData leaves behind when it fails: nothing done, the old data
\* gone, the new data also in place, or all done and the reply lost.
RenameResidue(d, fi) ==
  {<<meta[d], data[d]>>, <<meta[d], KeptDirs(d)>>,
   <<meta[d], KeptDirs(d) \cup {fi.dir}>>, <<fi, KeptDirs(d) \cup {fi.dir}>>}

RenameDone(p, d) ==
  /\ pc[p] \in {"rename", "heal"}
  /\ Returned(p, d, TRUE)
  /\ SetDrive(d, val[p], KeptDirs(d) \cup {val[p].dir})

RenameFails(p, d) ==
  /\ Faults
  /\ pc[p] = "rename"
  /\ Returned(p, d, FALSE)
  /\ \E left \in RenameResidue(d, val[p]) : SetDrive(d, left[1], left[2])

\* The last version of an object goes with its directory.
DeleteVersionDone(p, d) ==
  /\ pc[p] \in {"delete", "purge"}
  /\ meta[d] # Absent
  /\ Returned(p, d, TRUE)
  /\ SetDrive(d, Absent, {})

\* errFileNotFound, a failed call, or a lost reply.
DeleteVersionFails(p, d) ==
  /\ pc[p] \in {"delete", "purge"}
  /\ Returned(p, d, FALSE)
  /\ \/ (meta[d] = Absent \/ Faults) /\ UNCHANGED drives
     \/ Faults /\ SetDrive(d, Absent, {})

\* Mutant of Updated: the metadata of the version is kept.
UpdatedKeepsTag(old, fi) == [time |-> fi.time, dir |-> old.dir, tag |-> old.tag]

\* xlMetaV2.UpdateObjectVersion: the modTime and metadata of the version, and
\* not its data directory.
Updated(old, fi) == [time |-> fi.time, dir |-> old.dir, tag |-> fi.tag]

UpdateMetadataDone(p, d) ==
  /\ pc[p] = "tag"
  /\ meta[d] # Absent
  /\ Returned(p, d, TRUE)
  /\ SetDrive(d, Updated(meta[d], val[p]), data[d])

UpdateMetadataFails(p, d) ==
  /\ pc[p] = "tag"
  /\ Returned(p, d, FALSE)
  /\ \/ (meta[d] = Absent \/ Faults) /\ UNCHANGED drives
     \/ Faults /\ meta[d] # Absent /\ SetDrive(d, Updated(meta[d], val[p]), data[d])

\* Drives that do not hold a complete copy of a possible value.
Lacking ==
  {d \in Disks : meta[d] \notin possible \/ (meta[d] # Absent /\ meta[d].dir \notin data[d])}

\* As many drives as write quorum leaves lack a copy, at most.
FewLack(ds) == Cardinality(Lacking \cup ds) <= N - WriteQuorum(DataBlocks)

\* WriteAll truncates xl.meta before it writes it, and ReadVersion and
\* DeleteVersion take an empty one for a missing one: an update that stops in
\* between leaves a drive without the object.  Where more drives than write
\* quorum leaves lack it then, the update may have removed the object.
UpdateMetadataTears(p, d) ==
  /\ Faults
  /\ pc[p] = "tag"
  /\ meta[d] # Absent
  /\ d \in todo[p]
  /\ todo' = [todo EXCEPT ![p] = @ \ {d}]
  /\ SetDrive(d, Absent, data[d])
  /\ possible' = IF FewLack({d}) THEN possible ELSE possible \cup {Absent}
  /\ UNCHANGED <<pc, val, oks, used, locks>>

-----------------------------------------------------------------------------
(* putObject.  The shards are first written below the temporary path of the   *)
(* upload, which nobody else uses: enc are the drives where that succeeded.   *)

PutLock(p, t, enc) ==
  /\ pc[p] = "idle"
  /\ Cardinality(enc) >= WriteQuorum(DataBlocks)
  /\ Unlocked
  /\ LET fi == [time |-> t, dir |-> t, tag |-> 0]
     IN Begin(p, "rename", fi, enc) /\ possible' = possible \cup {fi}
  /\ used' = used \cup {t}
  /\ writer' = p
  /\ UNCHANGED <<drives, readers>>

\* renameData has returned: with write quorum the upload is acknowledged.
PutReturn(p) ==
  /\ pc[p] = "rename"
  /\ todo[p] = {}
  /\ possible' = IF Cardinality(oks[p]) >= WriteQuorum(DataBlocks) THEN {val[p]} ELSE possible
  /\ Finish(p)
  /\ UNCHANGED <<drives, used>>

-----------------------------------------------------------------------------
(* DeleteObject: reads the object, then deletes the null version on every     *)
(* drive.  An object that is not found, or cannot be read, is left alone.     *)

DeleteLock(p, up) ==
  /\ pc[p] = "idle"
  /\ Unlocked
  /\ \/ /\ MayRead(View(up)) # {}
        /\ Begin(p, "delete", Absent, Disks)
        /\ possible' = possible \cup {Absent}
     \/ /\ FoundDangling(View(up))
        /\ Begin(p, "purge", Absent, Disks)
        /\ UNCHANGED possible
  /\ writer' = p
  /\ UNCHANGED <<drives, readers, used>>

DeleteReturn(p) ==
  /\ pc[p] = "delete"
  /\ todo[p] = {}
  /\ possible' = IF Cardinality(oks[p]) >= DeleteQuorum THEN {Absent} ELSE possible
  /\ Finish(p)
  /\ UNCHANGED <<drives, used>>

-----------------------------------------------------------------------------
(* PutObjectTags and PutObjectMetadata.                                       *)

TagLock(p, up, tag) ==
  /\ pc[p] = "idle"
  /\ Unlocked
  /\ "ok" \in LatestFileInfo(View(up))
  /\ \E x \in CommonDirs(View(up)) : \E fi \in PickValidFileInfo(View(up), x) :
       /\ tag # fi.tag
       /\ Begin(p, "tag", [fi EXCEPT !.tag = tag], Disks)
       /\ possible' = possible \cup {[fi EXCEPT !.tag = tag]}
  /\ writer' = p
  /\ UNCHANGED <<drives, readers, used>>

TagReturn(p) ==
  /\ pc[p] = "tag"
  /\ todo[p] = {}
  /\ possible' = IF Cardinality(oks[p]) >= WriteQuorum(DataBlocks) THEN {val[p]} ELSE possible
  /\ Finish(p)
  /\ UNCHANGED <<drives, used>>

-----------------------------------------------------------------------------
(* Reads change nothing, unless they find the object dangling.                *)

GetDangling(p, up) ==
  /\ pc[p] = "idle"
  /\ writer = NoProc
  /\ FoundDangling(View(up))
  /\ Begin(p, "purge", Absent, Disks)
  /\ readers' = readers \cup {p}
  /\ UNCHANGED <<drives, writer, used, possible>>

PurgeReturn(p) ==
  /\ pc[p] = "purge"
  /\ todo[p] = {}
  /\ Finish(p)
  /\ UNCHANGED <<drives, used, possible>>

-----------------------------------------------------------------------------
(* HealObject reads the metadata without the lock, and removes an object that *)
(* looks dangling also without it; otherwise healObject takes the lock, reads *)
(* again and rewrites the outdated drives.                                    *)

\* purgeObjectDangling
PurgesDangling(replies, lostParts) == HealRemove /\ IsObjectDangling(replies, lostParts)

\* HealObject: past the first read, or the removal of a dangling object.
HealRead(p, up) ==
  /\ pc[p] = "idle"
  /\ \E outcome \in LatestFileInfo(View(up)) :
       IF outcome = "ok" THEN Begin(p, "hlock", Absent, {})
       ELSE IF Missing(View(up)) # Disks /\ PurgesDangling(View(up), {})
       THEN Begin(p, "purge", Absent, Disks)
       ELSE Begin(p, "idle", Absent, {})
  /\ UNCHANGED <<drives, locks, used, possible>>

\* commonTime of no replies at all is a directory that no drive has.
HealDirs(replies) == IF Found(replies) = {} THEN Times ELSE CommonDirs(replies)

\* disksWithAllParts
Available(replies, x) == {d \in OnlineDisks(replies, x) : x \in data[d]}

LostParts(replies, x) == OnlineDisks(replies, x) \ Available(replies, x)

\* Mutant of Outdated: every drive that replies is rewritten.
OutdatedReplying(replies, x) == Missing(replies) \cup Found(replies)

\* shouldHealObjectOnDisk: no metadata, parts missing, or another modTime.
Outdated(replies, x) ==
  Missing(replies)
    \cup LostParts(replies, x)
    \cup {d \in Found(replies) : replies[d].time # CommonTime(replies)}

Recoverable(replies, x) == Cardinality(Available(replies, x)) >= DataBlocks

\* ds: the outdated drives to which the shards could be written.
HealRewrite(p, up, x) ==
  /\ pc[p] = "hlock"
  /\ Unlocked
  /\ x \in HealDirs(View(up))
  /\ Recoverable(View(up), x)
  /\ \E ds \in SUBSET Outdated(View(up), x) :
       /\ Faults \/ ds = Outdated(View(up), x)
       /\ \E fi \in PickValidFileInfo(View(up), x) : Begin(p, "heal", fi, ds)
  /\ writer' = p
  /\ UNCHANGED <<drives, readers, used, possible>>

HealPurge(p, up, x) ==
  /\ pc[p] = "hlock"
  /\ Unlocked
  /\ Missing(View(up)) # Disks
  /\ x \in HealDirs(View(up))
  /\ ~Recoverable(View(up), x)
  /\ PurgesDangling(View(up), LostParts(View(up), x))
  /\ Begin(p, "purge", Absent, Disks)
  /\ writer' = p
  /\ UNCHANGED <<drives, readers, used, possible>>

\* The object is gone, or cannot be rebuilt from the drives that reply.
HealGivesUp(p, up) ==
  /\ pc[p] = "hlock"
  /\ Unlocked
  /\ \/ Missing(View(up)) = Disks
     \/ \E x \in HealDirs(View(up)) :
          IF Recoverable(View(up), x) THEN PickValidFileInfo(View(up), x) = {}
          ELSE ~PurgesDangling(View(up), LostParts(View(up), x))
  /\ Begin(p, "idle", Absent, {})
  /\ UNCHANGED <<drives, locks, used, possible>>

\* healObject returns on the first drive that fails.
HealFails(p, d) ==
  /\ Faults
  /\ pc[p] = "heal"
  /\ d \in todo[p]
  /\ \E left \in RenameResidue(d, val[p]) : SetDrive(d, left[1], left[2])
  /\ Finish(p)
  /\ UNCHANGED <<used, possible>>

HealReturn(p) ==
  /\ pc[p] = "heal"
  /\ todo[p] = {}
  /\ Finish(p)
  /\ UNCHANGED <<drives, used, possible>>

-----------------------------------------------------------------------------
\* The server that runs p stops; its lock is released or expires.
Crash(p) ==
  /\ Faults
  /\ pc[p] # "idle"
  /\ Finish(p)
  /\ UNCHANGED <<drives, used, possible>>

\* A drive is replaced by an empty one.  Operators do so one by one, waiting
\* for healing: as many drives as write quorum keep the last acknowledged
\* version, and no drive is replaced during an operation it has confirmed.
Wipe(d) ==
  /\ Faults
  /\ meta[d] # Absent
  /\ \A p \in Procs : d \notin oks[p]
  /\ Absent \in possible \/ FewLack({d})
  /\ SetDrive(d, Absent, {})
  /\ UNCHANGED <<locks, pc, val, todo, oks, used, possible>>

Next ==
  \/ \E p \in Procs :
       \/ \E t \in Times \ used, enc \in Replying : PutLock(p, t, enc)
       \/ \E up \in Replying :
            \/ DeleteLock(p, up)
            \/ \E tag \in Tags \ {0} : TagLock(p, up, tag)
            \/ GetDangling(p, up)
            \/ HealRead(p, up)
            \/ \E x \in Times :
                 \/ HealRewrite(p, up, x)
                 \/ HealPurge(p, up, x)
            \/ HealGivesUp(p, up)
       \/ \E d \in Disks :
            \/ RenameDone(p, d)
            \/ RenameFails(p, d)
            \/ DeleteVersionDone(p, d)
            \/ DeleteVersionFails(p, d)
            \/ UpdateMetadataDone(p, d)
            \/ UpdateMetadataFails(p, d)
            \/ UpdateMetadataTears(p, d)
            \/ HealFails(p, d)
       \/ PutReturn(p)
       \/ DeleteReturn(p)
       \/ TagReturn(p)
       \/ PurgeReturn(p)
       \/ HealReturn(p)
       \/ Crash(p)
  \/ \E d \in Disks : Wipe(d)

Spec == Init /\ [][Next]_vars

-----------------------------------------------------------------------------
(* Properties.                                                                *)

\* A read (getObjectFileInfo) under the lock, whichever drives reply, returns
\* a value that the object may have given what clients were told: the last one
\* acknowledged, or one of an operation that failed since.
ReadsLatest ==
  writer = NoProc => \A up \in SUBSET Disks : MayRead(View(up)) \subseteq possible

\* A read under the lock answers that the object does not exist only if it may
\* be so: what a minority of the drives lacks is never reported as absent, whether
\* a call failed there, the drive was replaced or an update tore its xl.meta.
NoFalseNotFound ==
  writer = NoProc /\ Absent \notin possible =>
    \A up \in SUBSET Disks : ~AnswersNotFound(View(up))

\* An acknowledged upload that no later operation touches keeps enough
\* complete shards to be rebuilt, whatever reads that remove a dangling object,
\* heals that do not remove (HealRemove is FALSE) and crashed servers do.
AckedDurable ==
  \A fi \in possible \ {Absent} :
    possible = {fi} => Cardinality({d \in Disks : meta[d] = fi /\ fi.dir \in data[d]}) >= DataBlocks
=============================================================================
