------------------------------ MODULE FSObject ------------------------------
(* An object in the file-system backend (fs-v1.go): its file, and fs.json     *)
(* with its metadata.  Within a server, requests hold the namespace lock of   *)
(* the object; servers that share the file system (the NAS gateway) are kept  *)
(* apart by advisory locks on fs.json alone (pkg/lock), and the readers of a  *)
(* server share one descriptor of it (fs-v1-rwpool.go).                       *)
(*                                                                            *)
(* A content is the number of the request that wrote it, and so is its ETag;  *)
(* an fs.json that is empty or absent stands for the default ETag, 0.         *)
EXTENDS Integers, Sequences, FiniteSets

CONSTANTS Servers, Requests,
          Kinds,         \* the requests made, of AllKinds
          PreExisting,   \* BOOLEAN: the object may be a file without fs.json
          MaxFSFaults      \* bound on failures and stops

AllKinds == {"get", "put", "delete", "tags", "copy"}

ASSUME FSObjectAssumption ==
  /\ IsFiniteSet(Servers) /\ IsFiniteSet(Requests) /\ Kinds \subseteq AllKinds
  /\ PreExisting \in BOOLEAN /\ MaxFSFaults \in Nat

NoServer == "none"
Unused == [kind |-> "none", srv |-> NoServer, pc |-> "idle", ino |-> 0, etag |-> 0,
           body |-> 0, fresh |-> FALSE, locked |-> FALSE]
Ended == [Unused EXCEPT !.pc = "done"]
ClosedFd == [ino |-> 0, refs |-> 0]

VARIABLES fileData,     \* content of the file, 0 when there is none
          meta,     \* the file that fs.json names, 0 when there is none
          metaFiles,    \* ETag in every fs.json ever created, 0 when empty
          pool,     \* readersMap of each server
          req,      \* the requests
          fsPuts,     \* contents so far
          fsFaults,
          tornFile      \* history: a write failed half way, or a copy, which holds no namespace
                        \* lock, wrote an ETag read before or kept a removed fs.json open

fsVars == <<fileData, meta, metaFiles, pool, req, fsPuts, fsFaults, tornFile>>

Contents == 0..Cardinality(Requests) + 1

\* Type invariant; no descriptor of a pool has a negative number of readers.
FSTypeOK ==
  /\ fileData \in Contents
  /\ meta \in 0..Len(metaFiles)
  /\ metaFiles \in Seq(Contents)
  /\ pool \in [Servers -> [ino : 0..Len(metaFiles), refs : 0..Cardinality(Requests)]]
  /\ \A r \in Requests :
       /\ req[r].kind \in AllKinds \cup {"none"} /\ req[r].srv \in Servers \cup {NoServer}
       /\ req[r].ino \in 0..Len(metaFiles) /\ req[r].etag \in Contents /\ req[r].body \in Contents
  /\ fsPuts \in Contents /\ fsFaults \in 0..MaxFSFaults /\ tornFile \in BOOLEAN

FSInit ==
  /\ fsPuts = 1
  /\ \/ fileData = 0 /\ meta = 0 /\ metaFiles = <<>>
     \/ fileData = 1 /\ meta = 1 /\ metaFiles = <<1>>
     \/ PreExisting /\ fileData = 1 /\ meta = 0 /\ metaFiles = <<>>
  /\ pool = [s \in Servers |-> ClosedFd]
  /\ req = [r \in Requests |-> Unused]
  /\ fsFaults = 0 /\ tornFile = FALSE

-----------------------------------------------------------------------------
(* Locks.                                                                     *)

\* Mutant of TakesNSLock: deletes do not.
TakesNSLockPuts(kind) == IF kind = "put" THEN "write" ELSE IF kind = "get" THEN "read" ELSE "none"

\* PutObject and DeleteObject take the namespace lock to write, GetObjectNInfo
\* to read; PutObjectTags and a copy of an object onto itself take none.
TakesNSLock(kind) ==
  CASE kind \in {"put", "delete"} -> "write" [] kind = "get" -> "read" [] OTHER -> "none"

NSFree(s, mode) ==
  \A r \in Requests : req[r].srv = s =>
    /\ mode = "write" => TakesNSLock(req[r].kind) = "none"
    /\ mode = "read" => TakesNSLock(req[r].kind) # "write"

Exclusive(i) == \E r \in Requests : req[r].locked /\ req[r].ino = i
Shared(i) == \E s \in Servers : pool[s].refs > 0 /\ pool[s].ino = i

Goto(r, pc) == req' = [req EXCEPT ![r].pc = pc]
GotoWith(r, pc, i) == req' = [req EXCEPT ![r].pc = pc, ![r].ino = i]
EndRequest(r) == req' = [req EXCEPT ![r] = Ended]

StartRequest(r, s, kind) ==
  /\ req[r].pc = "idle"
  /\ NSFree(s, TakesNSLock(kind))
  /\ fsPuts' = IF kind = "put" THEN fsPuts + 1 ELSE fsPuts
  /\ req' = [req EXCEPT ![r] = [Unused EXCEPT !.kind = kind, !.srv = s,
               !.pc = IF kind \in {"get", "copy"} THEN "info" ELSE "open",
               !.body = IF kind = "put" THEN fsPuts + 1 ELSE 0]]
  /\ UNCHANGED <<fileData, meta, metaFiles, pool, fsFaults, tornFile>>

-----------------------------------------------------------------------------
(* fsIOPool.Open and Close; "next" is where the request goes on.              *)

Joined(s, i) == IF pool[s].refs > 0 THEN [pool EXCEPT ![s].refs = @ + 1]
                ELSE [pool EXCEPT ![s] = [ino |-> i, refs |-> 1]]

Left(s) == IF pool[s].refs > 1 THEN [pool EXCEPT ![s].refs = @ - 1] ELSE [pool EXCEPT ![s] = ClosedFd]

\* The first lookup, and the opening of a new descriptor.
PoolOpen(r, from, wait, next, absent) ==
  /\ req[r].pc = from
  /\ \/ /\ pool[req[r].srv].refs > 0
        /\ GotoWith(r, next, pool[req[r].srv].ino)
        /\ pool' = Joined(req[r].srv, 0)
     \/ /\ pool[req[r].srv].refs = 0 /\ meta # 0
        /\ GotoWith(r, wait, meta) /\ UNCHANGED pool
     \/ /\ pool[req[r].srv].refs = 0 /\ meta = 0
        /\ GotoWith(r, absent, 0) /\ UNCHANGED pool
  /\ UNCHANGED <<fileData, meta, metaFiles, fsPuts, fsFaults, tornFile>>

\* The lock is granted, the path still exists, and the second lookup.
PoolLock(r, wait, next, absent) ==
  /\ req[r].pc = wait /\ ~Exclusive(req[r].ino)
  /\ IF meta = 0 THEN GotoWith(r, absent, 0) /\ UNCHANGED <<pool, tornFile>>
     ELSE /\ pool' = Joined(req[r].srv, req[r].ino)
          /\ GotoWith(r, next, pool'[req[r].srv].ino)
          /\ tornFile' = (tornFile \/ (req[r].kind = "copy" /\ pool'[req[r].srv].ino # meta))
  /\ UNCHANGED <<fileData, meta, metaFiles, fsPuts, fsFaults>>

-----------------------------------------------------------------------------
(* GetObjectNInfo, and the reading half of a copy of an object onto itself.   *)

ReadInfo(r) ==
  /\ req[r].pc = "readinfo"
  /\ req' = [req EXCEPT ![r].pc = "stat", ![r].etag = metaFiles[req[r].ino]]
  /\ pool' = Left(req[r].srv)
  /\ UNCHANGED <<fileData, meta, metaFiles, fsPuts, fsFaults, tornFile>>

StatData(r) ==
  /\ req[r].pc = "stat"
  /\ IF fileData = 0 THEN EndRequest(r)
     ELSE Goto(r, IF req[r].kind = "copy" THEN "open" ELSE "reopen")
  /\ UNCHANGED <<fileData, meta, metaFiles, pool, fsPuts, fsFaults, tornFile>>

\* The unlocker is set whether or not fs.json could be opened.
OpenData(r) ==
  /\ req[r].pc = "opendata"
  /\ IF fileData = 0 THEN EndRequest(r) /\ pool' = Left(req[r].srv)
     ELSE req' = [req EXCEPT ![r].pc = "body", ![r].body = fileData] /\ UNCHANGED pool
  /\ UNCHANGED <<fileData, meta, metaFiles, fsPuts, fsFaults, tornFile>>

CloseReader(r) ==
  /\ req[r].pc = "body"
  /\ EndRequest(r)
  /\ pool' = Left(req[r].srv)
  /\ UNCHANGED <<fileData, meta, metaFiles, fsPuts, fsFaults, tornFile>>

-----------------------------------------------------------------------------
(* fsIOPool.Write, and Create where Write failed.                             *)

AfterWriteFails(r) == GotoWith(r, IF req[r].kind = "delete" THEN "remove" ELSE "create", 0)

OpenForWrite(r) ==
  /\ req[r].pc = "open"
  /\ IF meta = 0 THEN AfterWriteFails(r) ELSE GotoWith(r, "lock", meta)
  /\ UNCHANGED <<fileData, meta, metaFiles, pool, fsPuts, fsFaults, tornFile>>

LockForWrite(r) ==
  /\ req[r].pc = "lock" /\ ~Exclusive(req[r].ino) /\ ~Shared(req[r].ino)
  /\ IF meta = 0 THEN AfterWriteFails(r)
     ELSE req' = [req EXCEPT ![r].pc = IF req[r].kind = "delete" THEN "remove" ELSE "write",
                             ![r].locked = TRUE]
  /\ UNCHANGED <<fileData, meta, metaFiles, pool, fsPuts, fsFaults, tornFile>>

CreateMeta(r) ==
  /\ req[r].pc = "create"
  /\ IF meta = 0 THEN metaFiles' = Append(metaFiles, 0) /\ meta' = Len(metaFiles) + 1 ELSE UNCHANGED <<metaFiles, meta>>
  /\ req' = [req EXCEPT ![r].pc = "lockcreated", ![r].ino = meta', ![r].fresh = TRUE]
  /\ UNCHANGED <<fileData, pool, fsPuts, fsFaults, tornFile>>

\* The request fails if fs.json went in the meantime.
LockCreated(r) ==
  /\ req[r].pc = "lockcreated" /\ ~Exclusive(req[r].ino) /\ ~Shared(req[r].ino)
  /\ IF meta = 0 THEN EndRequest(r)
     ELSE req' = [req EXCEPT ![r].pc = "write", ![r].locked = TRUE]
  /\ UNCHANGED <<fileData, meta, metaFiles, pool, fsPuts, fsFaults, tornFile>>

-----------------------------------------------------------------------------
(* The writes.                                                                *)

\* putObject: the new file replaces the old one.
MoveData(r) ==
  /\ req[r].pc = "write" /\ req[r].kind = "put"
  /\ fileData' = req[r].body
  /\ Goto(r, "meta")
  /\ UNCHANGED <<meta, metaFiles, pool, fsPuts, fsFaults, tornFile>>

\* Then its metadata is written, and everything released.
WriteMeta(r) ==
  /\ req[r].pc = "meta"
  /\ metaFiles' = [metaFiles EXCEPT ![req[r].ino] = req[r].body]
  /\ EndRequest(r)
  /\ UNCHANGED <<fileData, meta, pool, fsPuts, fsFaults, tornFile>>

\* putObject fails before the rename, or when it writes the metadata: an
\* fs.json it created goes, one that was there keeps what is in it (nothing,
\* once it was truncated).
PutFails(r) ==
  /\ req[r].kind = "put" /\ req[r].pc \in {"write", "meta"}
  /\ fsFaults < MaxFSFaults /\ fsFaults' = fsFaults + 1
  /\ meta' = IF req[r].fresh THEN 0 ELSE meta
  /\ metaFiles' = IF req[r].pc = "meta" THEN [metaFiles EXCEPT ![req[r].ino] = 0] ELSE metaFiles
  /\ tornFile' = (tornFile \/ req[r].pc = "meta")
  /\ EndRequest(r)
  /\ UNCHANGED <<fileData, pool, fsPuts>>

\* PutObjectTags writes back the metadata it read under the lock; a copy onto
\* itself writes the ETag it read before.
WriteTags(r) ==
  /\ req[r].pc = "write" /\ req[r].kind = "tags"
  /\ EndRequest(r)
  /\ UNCHANGED <<fileData, meta, metaFiles, pool, fsPuts, fsFaults, tornFile>>

WriteCopied(r) ==
  /\ req[r].pc = "write" /\ req[r].kind = "copy"
  /\ metaFiles' = [metaFiles EXCEPT ![req[r].ino] = req[r].etag]
  /\ tornFile' = (tornFile \/ req[r].etag # fileData)
  /\ EndRequest(r)
  /\ UNCHANGED <<fileData, meta, pool, fsPuts, fsFaults>>

\* DeleteObject: the file goes first, then the lock, then fs.json.
RemoveData(r) ==
  /\ req[r].pc = "remove"
  /\ IF fileData = 0 THEN EndRequest(r) /\ UNCHANGED fileData
     ELSE /\ fileData' = 0
          /\ req' = [req EXCEPT ![r].pc = "unlink", ![r].locked = FALSE]
  /\ UNCHANGED <<meta, metaFiles, pool, fsPuts, fsFaults, tornFile>>

UnlinkMeta(r) ==
  /\ req[r].pc = "unlink"
  /\ meta' = 0
  /\ tornFile' = (tornFile \/ \E c \in Requests : req[c].kind = "copy" /\ req[c].pc = "readinfo")
  /\ EndRequest(r)
  /\ UNCHANGED <<fileData, metaFiles, pool, fsPuts, fsFaults>>

\* A server stops: its descriptors are closed, and its locks with them.
StopServer(s) ==
  /\ fsFaults < MaxFSFaults /\ fsFaults' = fsFaults + 1
  /\ \E r \in Requests : req[r].srv = s
  /\ req' = [r \in Requests |-> IF req[r].srv = s THEN Ended ELSE req[r]]
  /\ pool' = [pool EXCEPT ![s] = ClosedFd]
  /\ tornFile' = (tornFile \/ \E r \in Requests : req[r].srv = s /\ req[r].pc \in {"meta", "unlink"})
  /\ UNCHANGED <<fileData, meta, metaFiles, fsPuts>>

-----------------------------------------------------------------------------
FSStep(r) ==
  \/ PoolOpen(r, "info", "infolock", "readinfo", "stat")
  \/ PoolLock(r, "infolock", "readinfo", "stat")
  \/ ReadInfo(r) \/ StatData(r)
  \/ PoolOpen(r, "reopen", "relock", "opendata", "opendata")
  \/ PoolLock(r, "relock", "opendata", "opendata")
  \/ OpenData(r) \/ CloseReader(r)
  \/ OpenForWrite(r) \/ LockForWrite(r) \/ CreateMeta(r) \/ LockCreated(r)
  \/ MoveData(r) \/ WriteMeta(r) \/ WriteTags(r) \/ WriteCopied(r)
  \/ RemoveData(r) \/ UnlinkMeta(r)

FSNext ==
  \/ \E r \in Requests, s \in Servers, k \in Kinds : StartRequest(r, s, k)
  \/ \E r \in Requests : FSStep(r) \/ PutFails(r)
  \/ \E s \in Servers : StopServer(s)

\* A request takes its next step in the end.
FSSpec == FSInit /\ [][FSNext]_fsVars /\ \A r \in Requests : WF_fsVars(FSStep(r))

-----------------------------------------------------------------------------
(* Properties.                                                                *)

\* What GetObject returns is one object: the ETag it announced is that of the
\* content it reads.
GetMatches == \A r \in Requests : req[r].pc = "body" => req[r].etag = req[r].body \/ tornFile

\* An object that no request is writing has the ETag of its content, in the
\* fs.json that the path names.
EtagOfData ==
  (\A r \in Requests : req[r].kind \notin {"put", "delete", "copy"}) /\ fileData # 0 /\ ~tornFile
    => meta # 0 /\ metaFiles[meta] = fileData

\* "Once reference count has reached zero we can be sure that there are no
\* more readers active": every request that reads under the lock of fs.json is
\* counted, so that no other server can write.  Not so once a write failed half
\* way: the reader of an object without fs.json closes what it did not open.
ReadersCounted ==
  \A s \in Servers : tornFile \/
    pool[s].refs = Cardinality({r \in Requests : req[r].srv = s /\ req[r].ino # 0
                                  /\ req[r].pc \in {"readinfo", "opendata", "body"}})

\* Requests of one server on one object do not mix: a read returns one object,
\* an object at rest has its own ETag, and the pool knows its readers.
FilesSound == GetMatches /\ EtagOfData /\ ReadersCounted

InProgress == {r \in Requests : req[r].pc \notin {"idle", "done"}}

\* Nobody waits for ever: of finitely many requests every one ends, whatever
\* locks the others hold.
RequestsEnd == InProgress # {} ~> InProgress = {}
=============================================================================
