# A TLA+ model of OtterIO

OtterIO is an S3 object store written in Go.  This directory holds TLA+ models of the
parts of it whose correctness depends on interleavings, failures and quorums, the TLC
configurations that check them on small instances, and proofs that TLAPS checks for
every value of the constants.

`PROJECT.json` records, for every definition, the lines of code it stands for (`map`),
every run and what it checks (`runs`), a fault in the code that each property catches
(`mutants`), the dangers the code is exposed to (`hazards`), the places where the code
disagrees with its documentation (`findings`) and the theorems (`theorems`).

Contents: [the system](#the-system), [modules](#modules), [runs](#runs),
[fairness](#fairness), [findings](#findings), [proofs](#proofs),
[assumptions](#assumptions-of-the-models), [what is not modelled](#what-is-not-modelled).

## The system

A request for an object reaches the object layer.  With several *server pools*, it looks
for the pool that has the object; in a pool the name is hashed to one *erasure set*.
There the operation takes the *namespace lock* of the object (on one server a counted
mutex, on several servers the quorum protocol *dsync* with a *lock node* on every server)
and calls all drives of the set in parallel.  It succeeds with a *quorum*; what a minority
of drives missed is left to *healing*, which starts from a list of recently failed
operations (*MRF*), from the monitor of replaced drives, from the scanner, from reads that
meet damage, and from administrators.  On a drive an object is the journal `xl.meta` and
data directories.  The *file system backend* stores an object as a file and `fs.json`.

Around the objects, the *scanner* walks over all folders, skips those that no server's
*update tracker* has marked, and triggers *transition* to a tier, expiry and *replication*.
*Listings* are cached, and the cache is kept or dropped by what the update tracker says.
*Bucket settings* are stored like an object and cached by every server.  *Events* are
queued in a directory until their target takes them.

## Modules

| Module | Models | Code |
|---|---|---|
| `NSLock` | locks of one server | `cmd/namespace-lock.go`, `pkg/lsync` |
| `Dsync` | clients of the distributed lock, and what a node does with each call | `pkg/dsync` |
| `LocalLocker`, `LockTable` | a lock node with its slices; what it promises | `cmd/local-locker.go`, `cmd/lock-rest-server.go` |
| `ErasureQuorum` | pure functions over the replies of the drives | `cmd/erasure-metadata*.go`, `cmd/erasure-healing-common.go` |
| `ErasureObject` | one object on one set: upload, delete, tags, read, heal | `cmd/erasure-object.go`, `cmd/erasure-healing.go`, `cmd/xl-storage.go` |
| `XLMetaV2` | the versions of one object on one drive | `cmd/xl-storage-format-v2.go`, `cmd/xl-storage.go` |
| `Transition` | a version on its way to a tier and back | `cmd/bucket-lifecycle.go`, `cmd/transition-reference.go` |
| `Multipart` | one multipart upload | `cmd/erasure-multipart.go` |
| `Replication` | replication of one object to another cluster | `cmd/bucket-replication.go` |
| `FSObject` | one object in the file system backend, with its handle pool | `cmd/fs-v1*.go`, `pkg/lock` |
| `DegradedRead` | a GET whose shards are missing or damaged | `cmd/erasure-decode.go`, `cmd/erasure-object.go` |
| `ServerPools` | one object in several pools | `cmd/erasure-server-pool.go` |
| `MRF` | the list of recently failed operations | `cmd/erasure-sets.go` |
| `DriveHeal` | healing of a replaced drive | `cmd/background-newdisks-heal-ops.go`, `cmd/global-heal.go` |
| `HealSequences` | heal sequences and the heal routine | `cmd/admin-heal-ops.go`, `cmd/background-heal-ops.go` |
| `EventStore` | the queue of an event target | `pkg/event/target` |
| `DynamicTimeout` | timeouts that adapt | `cmd/dynamic-timeouts.go` |
| `BucketMetadata` | settings of a bucket and their caches | `cmd/bucket-metadata*.go`, `cmd/notification.go` |
| `UpdateTracker` | which folders changed, and which the scanner visits | `cmd/data-update-tracker.go`, `cmd/data-scanner.go` |
| `Metacache` | the listing cache, on top of `UpdateTracker` | `cmd/metacache*.go` |
| `MC*` | instances for TLC | |
| `*Proofs` | theorems | |

`components` in `PROJECT.json` lists all parts of the system, modelled or not.

How the modules fit together:

- `Dsync` needs of a node only that it is a counting table; `LocalLocker` has the slices of
  the code, and `LocksKept` contains that it implements `LockTable`.
- `ErasureObject`, `XLMetaV2`, `Multipart`, `Transition` and `FSObject` need of a lock only that it
  excludes, which `NSLock` shows for one server and `Dsync` for many (up to entries that
  nodes dropped).
- `Metacache` extends `UpdateTracker`: both see the same changes, cycles and restarts.
- `MCErasureSets`, `MCObjects`, `MCCluster`, `MCProgress` and `MCListing` put components side by side.
  The variable `which` names the component (or the instance) a behaviour is one of; the others
  keep still, so that the states are the sum and not the product of theirs.

### Locks

**NSLock.**  `lockMap` and `heap` are the Go map and the `nsLock` objects behind its pointers;
`ptr[p]` is the pointer that goroutine `p` took under `lockMapMutex` and waits on outside of
it.  `GetLock`, `LockRef` and `LockTaken` go through the sorted paths, `LockTimeout` and `LockFailed`
are the failure path, `Rollback` and `UnlockNext` the loops over `unlock`.  A call on a missing
entry, or an unlock that `LRWMutex` panics on, sends the goroutine to `"panic"`.

**Dsync.**  A client is one `DRWMutex` with one UID.  `StartAttempt` sends a request to every node,
`Execute` is the node's answer, `Consume` takes it from the channel, `Decide` is the quorum check,
`Release` is `releaseAll`, `Drain` is the goroutine that gives back answers that come after the
decision, `Unlock` and its repetition follow `DRWMutex.Unlock`, `Refresh` is one refresh round.
`ExecuteError` is a call whose reply is lost, executed or not; `Expire`, `RestartOrForceUnlock` and
`Crash` are the faults.  `lost` and `unsure` are history variables that no guard reads.

**LocalLocker.**  A map from resources to sequences of entries.  `RemoveEntry` and `ExpireOldLocks`
keep the aliasing of the code: a range loop sees the array as each removal shifts it.

### Objects

**ErasureObject.**  A drive has the `FileInfo` of the null version and the set of data directories
with its shard.  `PutLock`, `DeleteLock` and `TagLock` take the lock and begin the parallel calls;
`RenameDone`, `DeleteVersionDone`, `UpdateMetadataDone` and their `...Fails` are the calls one by one (a
failing `RenameData` leaves any of the states between its renames; `UpdateMetadataTears` is a tag update
that stops after `WriteAll` truncated `xl.meta`, which reads then take for missing); `PutReturn`, `DeleteReturn` and
`TagReturn` compare the successes with the quorum.  Healing first looks at the drives without the
lock, then removes what it takes for dangling (if the constant `HealRemove` says so), or locks,
looks again and rewrites.  `Wipe` replaces a drive by an empty one.  A read is not an action:
`MayRead(View(up))` is the set of results `getObjectFileInfo` can return when the drives `up` reply; a
set, since the code ranges over Go maps.  `possible` is a history variable: the value of the
last acknowledged operation and those of operations that began or failed since, and absence once torn
updates left the object on fewer drives than a write quorum.  The quorum
sizes, `Parity(data)` and `WriteQuorum(data)`, take the number of data blocks as a parameter: TLC
evaluates a definition without parameters once, with the constants of the root module, and an
instance with other constants would be given the root's quorum.

**XLMetaV2** has one step per operation on the journal (they exclude one another), with the data
directories that `RenameData` and `DeleteVersion` keep or purge, inline data, and versioning that is
enabled, suspended and resumed.  **Transition** has a step for every stored change of the metadata
and every remote call, which may take effect although it fails.  **Multipart** has the upload's
`xl.meta` and its part files apart, since requests change them one after the other.
**Replication** has the channels, the workers, the scanner that queues again, and a target that
treats requests as the same server would.  **FSObject** has the namespace lock, the advisory
locks on `fs.json` and the pool's shared descriptors; a `fs.json` is an inode, so that a removed
file that is still open stays apart from the new one.  **DegradedRead** has the goroutines of
`parallelReader.Read` with their triggers, block by block and part by part, and the readers that
`preferReaders` swaps.  **ServerPools** has the lookup in every pool, the choice and the work in the
chosen pool as separate steps; a read takes a delete marker for a missing object and goes on to the next
pool, a write ends its lookup there.

### Services

**MRF** has the bounded channels, the list, the sweep on a reconnect event, and heals that fail, which
nobody repeats (`unhealed`).  **DriveHeal** has the tracker file and restarts between any two steps; a save
that fails leaves the old tracker or a torn one, which marks the drive and loads as a new one, and a
deletion that fails leaves the drive marked (`undeleted`).  **HealSequences** has the unbuffered channels as
common steps of sender and receiver, the map of sequences and the bounded list of results.
**EventStore** has the directory and the counter apart, restarts, half-written files, whole files that
cannot be read (`Get` drops those too: `unread`), removals that fail after the post, and a store that is
open while its replay is not started.
**DynamicTimeout** has the atomic index and the locked store as separate steps.  **BucketMetadata** has
the stored document, the cache of every server, notifications in any order, saves that fail although
the document may have changed, and the migration of a legacy file, which a deleted bucket may leave behind
and which may fail half way.  **UpdateTracker** has the filter, history and saved file of every server, the collection
of filters server by server, and the turns of a folder.  **Metacache** has the request on the pools
(`BeginList`, peer by peer), the owner's answer, the walk of the drives, the stored block and its end
mark, the updates, of which one to another server may be lost (`WalkReport`), the cleanup and the saved
index.

## Runs

Each passing run is one question about a group of components; the violations are the findings
below.

| Run | Instance | Shows |
|---|---|---|
| `nslock` | 3 goroutines, 2 paths, 2 objects | mutual exclusion, exact counts, no panic; someone waiting leads to someone owning or giving up, as paths are taken in sorted order |
| `dsync_safety` | a writer and a retrying reader, 2 nodes, 1 fault | exclusion up to dropped entries, where half is a read quorum but no write quorum; late answers of the first attempt take nothing from the second; nothing is left behind; no false report of a loss |
| `object` | 4 drives in 4 instances: 1 parity shard with tag updates; 2 uploads with all faults; a heal that removes; 2 concurrent servers | reads return what was acknowledged or is under way, nobody is told that an acknowledged object is missing, it stays reconstructible; with heals that remove and with concurrent servers, only what a read returns |
| `objects` | `XLMetaV2` (5 operations), `Transition`, `Multipart`, `Replication`, `FSObject` (3 requests), `DegradedRead` (4 drives, 2 parts), `ServerPools` (2 pools, 3 requests) | the safety of each, by the properties in the table of theorems |
| `cluster` | `LocalLocker`, `HealSequences`, `DriveHeal`, `MRF`, `EventStore`, `DynamicTimeout`, `BucketMetadata` | likewise |
| `listing` | 2 servers, 2 listings: over 2 cycles; within one with a restart or failure; the tracker alone over 4 cycles | no change falls between two turns of the scanner; a listing misses an upload only by reading one begun in the upload's cycle or later, which is less than list-after-write; half a listing goes only to who walked, who waited already, or who asked before the owner was told |
| `progress` | the same components in smaller instances | what was begun ends: transitions, uploads, replication, requests, heals, listings, the replay of events while the store is replayed; `Unlock` unless half of the nodes refuse, the heal routine unless a stopped sequence left its answer |

**Bounds.**  They are as large as a hazard needs: two quorums that do not meet (2 and 4 are the
smallest even numbers of nodes and drives, where half is not a majority), one late answer beside
a retry, one crashed operation after another, a queue of one that is full, a log of four slots
that is filled twice, three requests of which one falls between two steps of another.  Bounds
that count steps (`MaxOps`, `MaxFaults`, `NRequests`, ...) are constants in the guards.  Where a property
is proved, the theorem holds for every value of them.

Larger instances were checked beside the runs: `ServerPools` with 3 pools (1,763,468 states),
`XLMetaV2` with 6 operations (247,738), `FSObject` with 5 requests (620,484), `BucketMetadata` with
a leftover legacy file (about 1.5 million), `UpdateTracker` (16,412,842) and `Metacache` with 2 changes (6,218,311).

Two properties were corrected after larger instances or a proof attempt showed that they held only
because of a bound: `FilesSound` was true for three requests only and now excepts what a copy without
namespace lock can do (see 18 below); `ListingsSound` was true for one change only, since a listing
can be answered by servers that did not hear from the one that marked the change.  A third, the
history `lostMarks` of `UpdateTracker`, was too narrow: a restart also loses the marks of cycles
that the loaded file does not know (`Forgets`).

**Deadlock** is checked in `nslock` and `object`.  Elsewhere requests, faults and operations are finite in
number and the system really stops.  **Symmetry** is used for drives and nodes in safety runs only.

**Action coverage** of the runs with several components was read from TLC's expression coverage
(`tlc -coverage 1`), as the actions of a component count there as parts of one action.  Every action and
every disjunct is taken, except one: `OpenData` of `FSObject` when the file is gone after `fs.json`
was opened.  One server cannot get there (the namespace lock covers both steps); the branch is taken
once two servers share the file system and one of them deletes.

### Fairness

| Module | Fairness | Why the code justifies it |
|---|---|---|
| `NSLock` | weak, each goroutine's steps | goroutines are scheduled, owners unlock; a timeout may fire but need not, so that no circular wait is excused by one |
| `Dsync` | weak, each client's own steps, each node's answers | calls return, with an answer or an error; nothing is assumed about new attempts, unlocks or faults |
| `Transition` | weak for steps in progress and the scan for intents, strong for the scan that transitions, expiry and the worker | the scanner comes back, and takes a lock that others release again and again |
| `Multipart` | weak for requests, ageing and clean-up | requests run; the clean-up is a timer loop |
| `Replication` | weak for a worker at work, strong for taking a task, the lock of a status update, and the scan of a version | Go channels and the lock are not starved for ever; the scanner passes a version again and again |
| `FSObject`, `DegradedRead` | weak, each request | locks are polled, reads return |
| `HealSequences` | weak for walks, stops and the heal routine, strong for the hand-over of a task | an unbuffered channel with several senders serves each in the end |
| `DriveHeal`, `MRF` | weak for the steps of the healer | a loop with a timer, and a goroutine |
| `EventStore` | weak for the replay, a failing post, and the return of the target | the replay retries every few seconds; only finitely many outages are modelled |
| `Metacache` | weak, each request and its walk | requests have timeouts, which are among their steps |

In `MCProgress` these are combined: as `which` never changes, fairness for the k-th step of whatever
component runs is fairness for each of them.

## Findings

Runs that are expected to be violated, each against a sentence of the repository (`findings` quotes it):

- `dsync_unlock_stuck`: on two nodes, one that lost the entry makes `Unlock` repeat for ever.  The
  lock is free, the caller never returns.
- `object_heal_race`: a heal decides amid an upload, without the lock, and removes the object after
  the upload was acknowledged.
- `multipart_overlap`: a completion holds only a read lock on the upload; of two that list different
  parts, one removes what the other, acknowledged, is made of.
- `replication_marker`: a delete marker that is queued twice is removed from the target by the second
  task, and the source says COMPLETED.
- `get_degraded`: a GET ends after the first part that needed reconstruction, although all parts can
  be reconstructed.

Further configurations in this directory that are not among the runs; each is violated:

| Configuration (module) | Property | Shows |
|---|---|---|
| `Dsync_split.cfg` (`MCDsync`) | `SplitNoticed` | after one of two nodes restarted, a writer and a reader both own the lock, and every refresh confirms both (on odd numbers of nodes it cannot: `SplitNoticedHolds`) |
| `ErasureObject_odd5.cfg` (`MCErasureObject`) | `NoFalseNotFound` | `len(errs)/2` is a minority of five: two empty drives deny an acknowledged object |
| `ServerPools_NoConflict.cfg` (`ServerPools`) | `NoConflict` | two uploads that both looked before either wrote put the object in two pools |
| `FSObject_shared.cfg` (`FSObject`) | `GetMatches` | with two servers on one file system, a GET returns the ETag of one upload and the content of another |
| `FSObject_pool.cfg` (`FSObject`) | `ReadersCounted` | a reader of an object without `fs.json` closes the descriptor of others |
| `Metacache_list_after_write.cfg` (`Metacache`) | `ListAfterWrite` | a listing that was begun before an upload in the same cycle is given to a request made after it |

### Further behaviours

Met while modelling, some of them shown by properties that are not among the runs.  They are
described as the code has them; several may be intended.

*Locks and timeouts*
1. One maintenance pass of a lock node skips the entry after each one it removes
   (`ExpiryProgress`: every pass removes at least one).
2. A refresh renews only the first resource of a group lock; the others expire under their owner.
3. The slot of a dynamic timeout's log is taken before the mutex, so that the log can be evaluated
   while a slot still holds an older value (`AllFailed` of `DynamicTimeout` excepts this).
4. `connectDisks` has an early return on which a mutex stays locked.

*Erasure sets and healing*

5. A heal that gets no metadata from any drive, because all are unreachable, takes a complete
   object for dangling: `AckedDurable` with `Faults` and `HealRemove` both `TRUE`.
6. A tag update keeps the modTime, which is all that healing compares, so a drive that missed the
   update is not repaired; applied to drives that are split
   between two uploads, it makes a mixture of them readable (`ReadsLatest` with two uploads and tags).
   It rewrites `xl.meta` in place: torn on more drives than a write quorum leaves, it removes the object.
7. A failed upload leaves its version where the rename succeeded; a later read may return it.
8. `queueHealTask` returns when its context is done without reading the answer, and the heal routine
   blocks on that answer; it serves nobody any more (`TasksAlwaysServed` fails with `MaxStops = 1`).
9. `stopHealSequence` removes the map entry of its path even if another sequence was registered there
   meanwhile.
10. A resumed drive heal lists from the name in `tracker.Bucket`, so that objects before it are skipped
    (`skipped` of `DriveHeal`).
11. `maintainMRFList` lets one more entry in than its limit, although its comment says that the list
    "should not have more than 10000 entries"; it compares pointers, so that an operation is on the list
    twice; an entry is gone once it was sent, also if its heal fails; a sweep that runs when a drive
    reconnects makes the next reconnect event go unheard.
12. A stop between the writes of `saveFormatErasure` leaves a formatted drive without a tracker, which is
    never healed (`unmarked` of `DriveHeal`).  The tracker is written in place; a torn one loses the list of
    healed buckets, and what is in them is healed again.
13. `preferReaders` swaps back a pair it swapped when the preferences of the drives are mixed, which
    the callers do not produce today.

*Versions, tiers and uploads*

14. In a bucket with suspended versioning, a DELETE of an object that has a null version can leave the
    object visible: only the purge status of that version is rewritten.
15. `UpdateObjectVersion` stops at a delete marker before the version it looks for.
16. Restoring a version whose restored copy has expired leaves the old data directory; so does a stop
    between the commit of a transition and the removal of the local data.
17. `CompleteMultipartUpload` rewrites the upload's metadata before it has the object's lock, and a retry after
    a failure there is refused; `PutObjectPart` that fails between the rename of a part and the update of
    `xl.meta` leaves a part that does not agree with its entry; the clean-up of stale uploads takes no lock.

*File system backend and pools*

18. A copy of an object onto itself takes no namespace lock.  It can overwrite the `fs.json` of a newer
    upload, and it can leave the descriptor of a removed `fs.json` in the pool, which a later GET joins and
    announces the old ETag with the new content.
19. A read passes over the delete marker of one pool to the content in another, so that after two uploads
    on outdated lookups a deletion uncovers the second.  The free space of a pool is changed by `available -= -uint64(size)`, which adds the size instead of
    subtracting it.

*Replication, settings and events*

20. A version whose purge is pending can be created again on the target by a task that was queued earlier.
21. A task that finds nothing to replicate leaves the status PENDING for ever.
22. Deleting a delete marker's version is queued as if the marker were set.
23. Event rules of a server follow the settings without an order and may stay older than the cache; a
    legacy file that a deleted bucket left behind brings back its settings when the bucket is made again, and
    caches are not told; nor are they of a save that failed although it took effect; the object-lock settings are written without regard to a concurrent change.
24. `QueueStore.Open` fails when the store is full, and the target then stays without its store; when the
    target answers with an error at start-up, it has its store but no replay until the next start.
    `QueueStore.Get` removes a file that it cannot read, whatever the error.  A removal that fails after the
    post makes `sendEvents` post the event again.

*Scanner and listings*

25. The load of the update tracker keeps the file of the last drive it reads, since the time a file was
    saved is never set; marks that were not saved are lost with a crash (`lostMarks`).
26. The turn of a folder and the window of the filter drift apart when a cycle is skipped (`drifted`), and
    the cycles go back when the cycle could not be stored before a restart (`rewound`).
27. A listing cache is accepted if it was begun in the cycle of the last change or later, although that change
    came after it (`Metacache_list_after_write.cfg`); a server that lags behind marks a change under the
    older cycle.
28. `findEarliestCleanBloomFilter` asks no other server when the local filter is dirty, and may settle for
    an older cycle when a server does not answer (`deaf`).
29. A walk that fails still stores its partial block as the last one: who began it, or waits for it, is
    answered with half a listing and no error, and so is who asks later when the report of the failure to
    the owner was lost; success is also recorded before the last block is written.
30. The owner may mark a healthy listing failed in the place of another, and the cleanup beyond the maximal
    number of entries keeps those handed out longest ago.

*Start-up* (read, not modelled)

31. If fewer than half of the drives were formatted when the first server stopped, it waits for ever after
    the restart; two layouts with half of the drives each are told apart by the order of a Go map.

## Proofs

The theorems hold for every value of the constants that the named assumptions of the modules admit
(`QuorumAssumption`, `DsyncAssumption`, `FSObjectAssumption`, ...): any number of nodes, drives, requests,
versions, faults.  TLC evaluates the assumptions in the runs.  Every proof has the same shape: an
inductive invariant, one lemma per action (or group of actions that change the same state), and a last
step by `PTL`.  The invariants were first checked with TLC.  In the larger modules Zenon is the default
prover, which is fast on the many leaves that only select a conjunct or split a quantifier; leaves with
arithmetic, functions or records cite `SMT`.

| Module | Theorem | Property of a run | Assuming |
|---|---|---|---|
| `QueueProofs` | `MutualExclusionHolds`, `NoPanicHolds`, `RefCountsHold`, `WaitsOnMapEntryHolds` | `MutualExclusion`, `NoPanic`, `RefCountExact` | |
| | `ListSoundHolds` | `ListSound` | |
| | `QueueSoundHolds` | `QueueSound` | |
| | `TimeoutAdaptsHolds` | `TimeoutAdapts` | |
| `DsyncProofs` | `ExclusionHolds`, `OwnerKeepsEntriesHolds`, `NodeConsistentHolds`, `NothingLeftBehindHolds`, `NoFalseLossHolds` | `Exclusion`, `OwnerKeepsEntries`, `NothingLeftBehind`, `NoFalseLoss` | |
| | `SplitNoticedHolds` | | `N % 2 = 1` |
| `ErasureObjectProofs` | `ReadsCorrect` | `ReadsLatest` | `Tags = {0}` |
| | `Durability`, `NotFoundHonest` | `AckedDurable`, `NoFalseNotFound` | also no removal by healing; the second, `N - WriteQuorum(DataBlocks) < N \div 2` |
| `ObjectProofs` | `TierSoundHolds`, `IntentIsFinalHolds` | `TierSound` | |
| | `UploadSoundHolds` | `UploadSound` | `~Overlap` |
| | `CompletedOnTargetHolds` | `CompletedOnTarget` | |
| `StorageProofs` | `JournalSoundHolds`, `HistoryKeptHolds` | `JournalSound`, `HistoryKept` | |
| | `PoolsAsOneHolds` | `PoolsAsOne` | |
| `ReadProofs` | `ReadSoundHolds` | `ReadSound` | |
| | `FilesSoundHolds` | `FilesSound` | `OneServer`, `~PreExisting` |
| `ClusterProofs` | `TrackerSoundHolds` | `TrackerSound` | |
| | `SequencesSoundHolds` | `SequencesSound` | |
| | `SettingsSoundHolds` | `SettingsSound` | |
| `ListingProofs` | `NoChangeMissedHolds` | `NoChangeMissed` | |
| | `ListingsSoundHolds` | `ListingsSound` | |

and for most components type correctness and the inductive invariant as theorems of their own.  The
assumptions in the last column are needed: `object_heal_race`, `ErasureObject_odd5.cfg`, `multipart_overlap`,
`Dsync_split.cfg`, `FSObject_shared.cfg` and `FSObject_pool.cfg` are counterexamples without them.

The arguments:

- **Namespace lock.**  Mutual exclusion depends on each holder's mutex being the one in the map.  `IInv`
  adds what the program counter says about pointers (`PhaseOK`), that an object is in the map under one path
  (`MapInjective`), and that the mutex word counts exactly the holders (`WordsOK`).
- **Distributed lock.**  `AllBacked`: a node that dropped nothing has one entry for every grant of a client
  still in flight, and one more if the client's array names the node; so a drain of a late grant, which releases
  by UID, never takes the entry of a later attempt.  With `HeldByQuorum`, two conflicting owners share a node, and
  `NodeConsistent` says that this node cannot have both entries.  `LInv` (`AllCovered`) is the converse: an entry has a
  grant, an array or a lost message to account for it, so that nothing is left behind.  That a split is noticed
  is a count: no node knows both owners, so the nodes that know one or the other are at most all of them.
- **Erasure set.**  `ReadInv` bounds the drives with a version that is no longer possible by `N` minus the delete
  quorum (`StaleFew`), fewer than a read needs.  It needs that writers hold the lock (`LockInv`) and that drives
  counted as successes have the value written or were emptied since (`WrittenInv`).  `DurableInv` adds that few
  drives lack a complete copy (`CompleteMany`) or are empty (`AbsentFew`), that who removes does so under a lock and
  only what may be absent (`PurgeInv`), and that healing overwrites only drives that lack a copy (`CompleteInv`).
- **Tier.**  `MetaOK` and `OpOK` say at every step of an operation which upload the reference in the metadata and
  the object in the tier belong to, `NoOrphanInTier` that the metadata knows every object there.
- **Multipart.**  `Agree` and `Recorded` relate the entries of the upload's `xl.meta` to the part files at each step of
  a part request; `ListIntact` says that what a running completion lists is on the drives, or the clean-up took
  everything.  It holds as part requests write under the lock that a completion reads under (`WriterAlone`) and one
  completion runs at a time (`OneCompletion`, which the code does not enforce).
- **Replication.**  A worker that has sent a version still holds the write lock (`OneHolder`), so that the target has
  the version as it is when COMPLETED is recorded (`Sent`); and a task that deletes an object version is about one
  that a client purged (`TasksOK`).
- **Journal.**  Ids are unique, entries are older than the clock, and a data directory is there for each entry that
  needs one and for no other, but those that a failed removal is known to leave.
- **Pools.**  What a request has learned from each pool is true unless a later write made it outdated, which is
  recorded; so an object in two pools has an outdated lookup as its cause.
- **Degraded read.**  The permutation of the readers and `readerToBuf` stay in step (`InStep`), each position that
  was started and is at rest has its shard or no reader (`Fetched`), and shards, running goroutines and open triggers
  together never exceed the shards needed (`Budget`): counting arguments with finite sets.
- **File system backend.**  `RequestsKnow` says at each step what a request knows of the file and of `fs.json`,
  `PoolCurrent` that the pool's descriptor is the file the path names, `Apart` that nobody reads what another locks
  to write.
- **MRF, events, timeouts.**  A partial operation is followed from channel to list to healer (`Followed`); an event
  from store to delivery; the slots of a log from the index that was taken to the evaluation.
- **Drive heal, sequences, settings.**  The healer knows at least what is on the drive and has handled all objects
  of the buckets it lists (`HealerKnows`); the results fetched and those that wait are numbered without a gap
  (`Numbered`), and `NoOverlap` is inductive with what the map points to (`MapSound`); a cache is current or empty, or a
  request is about to make it so (`CachesFollow`).
- **Update tracker.**  `Findable`: a change that the usage cache does not reflect is marked in no clean filter, and if
  its cycle lies before the window of the next turn, its server has no filter of the window's first cycle either, in
  memory or after a restart, which makes the scanner treat the folder as dirty.  `AnswersHold`: while filters are
  collected and all answers so far are clean, what is pending on a server that answered was marked after it did.
- **Listings.**  `AsksKnow`: a request knows the cycle of every change it needs from the servers it has heard from;
  `ReadsLate`: the listing it is given was begun in that cycle or later; `WalkSees`: its own walk has met what was
  there; `CacheHonest`: the owner has no failed walk as a whole listing.

**Only model-checked:** the liveness properties (liveness under fairness is out of the prover's reach);
`LocksKept` of the lock node, whose expiry is a fold over a slice that changes under it (induction over data);
`AcknowledgedKept`, which repeats properties of `ErasureObject` in further instances, among them concurrent
heals that remove; everything with tag updates; the type invariants of the sums.

## Assumptions of the models

- *Locks.*  In the modules of objects a lock excludes and is not lost during an operation.  `Dsync` executes a
  release at the latest when its sender sees the error.
- *ErasureObject.*  One object, unversioned, not inlined; a shard is whole or missing.  `Wipe` leaves a write quorum
  of complete drives.  A torn `xl.meta` is empty: one that is cut off later is answered with an error that is
  neither an object nor its absence, and is left out.
- *XLMetaV2.*  Clocks are monotone; the drives of a set do the same steps.
- *Transition, Replication.*  A remote call takes effect, if at all, before its caller goes on.  A tier is used
  with one pool (docs/bucket/lifecycle/README.md).  Replication is one-way, with delete markers and deletions
  replicated; clients purge a version once.  Channels are taken from in any order.
- *Multipart.*  Drives answer alike.
- *FSObject.*  Finitely many requests.  *DegradedRead.*  No drive of the set is itself being healed.
- *BucketMetadata.*  What happens under the transaction lock is one step.
- *UpdateTracker.*  One folder without life cycle rules; bucket and folder fall into the same hash.
- *Metacache.*  A listing fits in one block, on one set; `extend_list_cache_life` is 0, the default; the current cycle
  and the local filter are read in one step; filters and index are saved once; in the instances with listings the
  leader of the scanner is not the owner of the bucket.
- Restarts, failures and lost calls are finite in number.

## What is not modelled

`components` has the whole list with reasons.  The larger ones: the encodings, Reed-Solomon, bitrot and HTTP (pure
data); authentication, IAM and encryption (not a question of this project); the disk cache, an object layer of its
own that is off by default; start-up with `format.json`; life cycle and retention rules, which are functions of dates
and metadata; merging of sorted listings; versions together with quorums, and a lost lock together with an
operation on the drives, whose composition is beyond what TLC enumerates.
