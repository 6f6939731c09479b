----------------------------- MODULE Metacache ------------------------------
(* The cache of bucket listings (metacache*.go).  A listing asks all servers  *)
(* for the last cycle in which the folder changed (UpdateTracker), and then   *)
(* the server that owns the bucket for a listing that was begun late enough;  *)
(* if there is none, it walks the drives itself and stores what it finds.     *)
(* The scanner, the changes and the restarts are those of UpdateTracker.      *)
(*                                                                            *)
(* Change i creates object i, the walk meets the objects in this order, and   *)
(* one block holds the listing (5000 entries in the code).                    *)
EXTENDS UpdateTracker

CONSTANTS NLists,   \* listings that are asked for
          Owner     \* the server restClientFromHash names for the bucket

ASSUME MetacacheAssumption == NLists \in Nat /\ Owner \in Peers

ListIds == 1..NLists

NoCache == [status |-> "none", started |-> 0, startedCycle |-> 0, ended |-> FALSE, endedCycle |-> 0,
            silent |-> FALSE]
NoWalk == [pc |-> "off", at |-> 1, seen |-> {}, told |-> TRUE]
NoList == [pc |-> "idle", on |-> Owner, cur |-> 0, old |-> 0, left |-> {}, need |-> {},
           use |-> 0, from |-> 0, got |-> {}, deaf |-> FALSE, half |-> FALSE]

VARIABLES lister,       \* the requests
          caches,       \* bucketMetacache.caches of the owner; silent when not updated for a minute
          savedCaches,  \* index.s2
          walker,       \* the walk of the request that created a cache; not told
                        \* when the owner did not learn that it failed (history)
          blocks,       \* stored listings
          begun,        \* caches created so far
          broken,       \* history: listings whose walk failed
          forgot        \* history: the owner restarted

listVars == <<lister, caches, savedCaches, walker, blocks, begun, broken, forgot>>
allListVars == <<trackVars, listVars>>

NoBlock == {0}

\* Type invariant: a block is stored only of a walk that is over, and a listing
\* that succeeded has its last cycle.
ListTypeOK ==
  /\ \A l \in ListIds :
       /\ lister[l].pc \in {"idle", "ask", "find", "own", "read", "done", "error"}
       /\ lister[l].on \in Peers /\ lister[l].use \in 0..NLists /\ lister[l].got \subseteq ChangeIds
       /\ caches[l].status \in {"none", "started", "success", "error"}
       /\ caches[l].status = "success" => caches[l].ended
       /\ walker[l].pc \in {"off", "walk", "flush", "done", "dead"} /\ walker[l].at \in 1..MaxChanges + 1
       /\ walker[l].told \/ walker[l].pc \in {"flush", "done", "dead"}
       /\ blocks[l] # NoBlock => walker[l].pc = "done" /\ blocks[l] \subseteq ChangeIds
  /\ begun \in 0..NLists /\ broken \subseteq ListIds /\ forgot \in BOOLEAN

ListInit ==
  /\ TrackInit
  /\ lister = [l \in ListIds |-> NoList]
  /\ caches = [l \in ListIds |-> NoCache] /\ savedCaches = caches
  /\ walker = [l \in ListIds |-> NoWalk] /\ blocks = [l \in ListIds |-> NoBlock]
  /\ begun = 0 /\ broken = {} /\ forgot = FALSE

-----------------------------------------------------------------------------
(* erasureServerPools.listPath.                                               *)

\* A server is in a later cycle.
Ahead(idx) == \E p \in Peers : filters[p].cur.idx > idx

\* CurrentCycle, and findEarliestCleanBloomFilter on the server itself: when it
\* is dirty now the others are not asked.  A request is deaf if it is not told of
\* changes in a cycle that its server has not reached.
BeginList(l, p) ==
  LET cur == filters[p].cur.idx
      old == LatestWithDir(filters[p])
  IN /\ lister[l].pc = "idle" /\ \A k \in 1..l - 1 : lister[k].pc # "idle"
     /\ lister' = [lister EXCEPT ![l] = [NoList EXCEPT !.pc = IF old = cur \/ Peers = {p} THEN "find" ELSE "ask", !.on = p,
                     !.cur = cur, !.old = old, !.left = Peers \ {p}, !.need = Marked,
                     !.deaf = old = cur /\ Ahead(cur)]]
     /\ UNCHANGED <<trackVars, caches, savedCaches, walker, blocks, begun, broken, forgot>>

\* Mutant of AskClean: the other servers do not count.
AskCleanNobody(l, q) ==
  /\ lister[l].pc = "ask" /\ q \in lister[l].left
  /\ lister' = [lister EXCEPT ![l].left = @ \ {q}, ![l].pc = IF lister[l].left = {q} THEN "find" ELSE "ask"]
  /\ UNCHANGED <<trackVars, caches, savedCaches, walker, blocks, begun, broken, forgot>>

\* A server answers, or does not: then the folder counts as dirty in the cycle
\* of the server that asks.
AskClean(l, q) ==
  LET answer == LatestWithDir(filters[q])
      r == lister[l]
      asked == [r EXCEPT !.left = @ \ {q}, !.pc = IF r.left = {q} THEN "find" ELSE "ask"]
  IN /\ r.pc = "ask" /\ q \in r.left
     /\ \/ /\ lister' = [lister EXCEPT ![l] = [asked EXCEPT !.old = IF answer > @ THEN answer ELSE @]]
           /\ UNCHANGED trackMishaps
        \/ /\ lister' = [lister EXCEPT ![l] = [asked EXCEPT !.old = r.cur, !.deaf = @ \/ Ahead(r.cur)]]
           /\ Mishap
     /\ UNCHANGED <<filters, filterFiles, leader, cycle, storedCycle, scan, folderCycle, changes, unseen,
                    lostMarks, missed, rewound, drifted, caches, savedCaches, walker, blocks, begun, broken, forgot>>

\* metacache.matches: begun no earlier than the last change, and, if it has
\* ended, ended later; a listing that is not kept up is abandoned.
Matches(c, old) ==
  /\ c.status \in {"started", "success"} /\ c.startedCycle >= old
  /\ IF c.ended THEN c.endedCycle > old ELSE ~c.silent

\* bucketMetacache.findCache: the latest that matches, 0 if none does.
BestMatch(old) ==
  LET M == {k \in ListIds : Matches(caches[k], old)}
  IN IF M = {} THEN 0 ELSE CHOOSE k \in M : \A j \in M : caches[j].started <= caches[k].started

NewCache(l) == [NoCache EXCEPT !.status = "started", !.started = begun + 1, !.startedCycle = lister[l].cur]
Walks(l) == [walker EXCEPT ![l] = [NoWalk EXCEPT !.pc = "walk"]]

\* A listing is found or created.  Half, for the properties: its owner had been
\* told that its walk failed.
FindCache(l) ==
  LET k == BestMatch(lister[l].old)
  IN /\ lister[l].pc = "find"
     /\ IF k # 0
        THEN /\ lister' = [lister EXCEPT ![l].pc = "read", ![l].use = k, ![l].from = caches[k].startedCycle,
                                         ![l].half = k \in broken /\ walker[k].told]
             /\ UNCHANGED <<caches, walker, begun>>
        ELSE /\ lister' = [lister EXCEPT ![l].pc = "own", ![l].use = l, ![l].from = lister[l].cur]
             /\ caches' = [caches EXCEPT ![l] = NewCache(l)]
             /\ walker' = Walks(l) /\ begun' = begun + 1
     /\ UNCHANGED <<trackVars, savedCaches, blocks, broken, forgot>>

\* The owner is not reached: a listing that is not shared.
ListTransient(l) ==
  /\ lister[l].pc = "find" /\ lister[l].on # Owner /\ Mishap
  /\ lister' = [lister EXCEPT ![l].pc = "own", ![l].use = l, ![l].from = lister[l].cur]
  /\ walker' = Walks(l)
  /\ UNCHANGED <<filters, filterFiles, leader, cycle, storedCycle, scan, folderCycle, changes, unseen,
                 lostMarks, missed, rewound, drifted, caches, savedCaches, blocks, begun, broken, forgot>>

-----------------------------------------------------------------------------
(* erasureObjects.listPath: the walk.                                         *)

WalkOn(l) ==
  LET w == walker[l]
  IN /\ w.pc = "walk" /\ w.at <= MaxChanges
     /\ walker' = [walker EXCEPT ![l] = [w EXCEPT !.at = @ + 1, !.seen = IF w.at \in DOMAIN changes THEN @ \cup {w.at} ELSE @]]
     /\ UNCHANGED <<trackVars, lister, caches, savedCaches, blocks, begun, broken, forgot>>

\* Mutant of UpdatedCache: the end is not noted.
UpdatedCacheOpen(c, status, endedCycle) ==
  IF c.status = "none" THEN c
  ELSE IF status = "error" THEN [c EXCEPT !.status = "error", !.ended = TRUE, !.silent = FALSE]
  ELSE IF c.status = "started" THEN [c EXCEPT !.status = status, !.silent = FALSE]
  ELSE [c EXCEPT !.silent = FALSE]

\* metacache.update: only a listing that is still started is given a new state,
\* but an error is always noted.
UpdatedCache(c, status, endedCycle) ==
  IF c.status = "none" THEN c
  ELSE IF status = "error" THEN [c EXCEPT !.status = "error", !.ended = TRUE, !.silent = FALSE]
  ELSE IF c.status = "started" THEN [c EXCEPT !.status = status, !.ended = TRUE, !.endedCycle = endedCycle, !.silent = FALSE]
  ELSE [c EXCEPT !.silent = FALSE]

\* updateMetacacheListing: the call to an owner that is another server can fail
\* and nobody looks at its error; not told means that the later report when the
\* context ends fails as well.
WalkReport(l, told, status, endedCycle) ==
  /\ told \/ lister[l].on # Owner
  /\ caches' = IF told THEN [caches EXCEPT ![l] = UpdatedCache(@, status, endedCycle)] ELSE caches

\* The walk is over: the state is reported, and the request has its answer.
WalkEnds(l) ==
  /\ walker[l].pc = "walk" /\ walker[l].at > MaxChanges
  /\ \E told \in BOOLEAN :
       /\ WalkReport(l, told, "success", filters[lister[l].on].cur.idx)
       /\ IF told THEN UNCHANGED trackMishaps ELSE Mishap
  /\ walker' = [walker EXCEPT ![l].pc = "flush"]
  /\ lister' = [lister EXCEPT ![l].pc = "done", ![l].got = walker[l].seen]
  /\ UNCHANGED <<filters, filterFiles, leader, cycle, storedCycle, scan, folderCycle, changes, unseen,
                 lostMarks, missed, rewound, drifted, savedCaches, blocks, begun, broken, forgot>>

\* Too few drives are online to ask.
WalkRefused(l) ==
  /\ walker[l].pc = "walk" /\ walker[l].at = 1 /\ Mishap
  /\ \E told \in BOOLEAN : WalkReport(l, told, "error", 0)
  /\ walker' = [walker EXCEPT ![l].pc = "done"]
  /\ lister' = [lister EXCEPT ![l].pc = "error"]
  /\ UNCHANGED <<filters, filterFiles, leader, cycle, storedCycle, scan, folderCycle, changes, unseen,
                 lostMarks, missed, rewound, drifted, savedCaches, blocks, begun, broken, forgot>>

\* Too many drives fail: the error is reported, the request is answered with
\* what was found, and so will be those that wait for the block.
WalkFails(l) ==
  /\ walker[l].pc = "walk" /\ Mishap
  /\ \E told \in BOOLEAN :
       /\ WalkReport(l, told, "error", 0)
       /\ walker' = [walker EXCEPT ![l].pc = "flush", ![l].told = told]
  /\ lister' = [lister EXCEPT ![l].pc = "done", ![l].got = walker[l].seen]
  /\ broken' = broken \cup {l}
  /\ UNCHANGED <<filters, filterFiles, leader, cycle, storedCycle, scan, folderCycle, changes, unseen,
                 lostMarks, missed, rewound, drifted, savedCaches, blocks, begun, forgot>>

\* metacacheBlockWriter stores the last block after the state was reported.
FlushBlock(l) ==
  /\ walker[l].pc = "flush"
  /\ walker' = [walker EXCEPT ![l].pc = "done"]
  /\ \/ blocks' = [blocks EXCEPT ![l] = walker[l].seen] /\ UNCHANGED <<caches, trackMishaps>>
     \/ Mishap /\ (\E told \in BOOLEAN : WalkReport(l, told, "error", 0)) /\ UNCHANGED blocks
  /\ UNCHANGED <<filters, filterFiles, leader, cycle, storedCycle, scan, folderCycle, changes, unseen,
                 lostMarks, missed, rewound, drifted, lister, savedCaches, begun, broken, forgot>>

-----------------------------------------------------------------------------
(* streamMetadataParts: a request that reads a listing of another.            *)

ReadBlock(l) ==
  /\ lister[l].pc = "read" /\ blocks[lister[l].use] # NoBlock
  /\ lister' = [lister EXCEPT ![l].pc = "done", ![l].got = blocks[lister[l].use]]
  /\ UNCHANGED <<trackVars, caches, savedCaches, walker, blocks, begun, broken, forgot>>


\* checkMetacacheState, when no block came: the listing asked about, or if it is
\* gone any that matches.
CheckState(l) ==
  LET r == lister[l]
      k == IF caches[r.use].status # "none" THEN r.use ELSE BestMatch(r.old)
  IN /\ r.pc = "read" /\ blocks[r.use] = NoBlock
     /\ k # 0 => caches[k].status = "error" \/ caches[k].silent
     /\ lister' = [lister EXCEPT ![l].pc = "error"]
     /\ caches' = IF k # 0 THEN [caches EXCEPT ![k] = UpdatedCache(@, "error", 0)] ELSE caches
     /\ UNCHANGED <<trackVars, savedCaches, walker, blocks, begun, broken, forgot>>

-----------------------------------------------------------------------------
(* The owner: time passes, cleanup, save.                                     *)

\* Nobody reports on the listing for a minute.
GoSilent(k) ==
  /\ caches[k].status # "none" /\ ~caches[k].silent /\ walker[k].pc \in {"done", "dead"}
  /\ caches' = [caches EXCEPT ![k].silent = TRUE]
  /\ UNCHANGED <<trackVars, lister, savedCaches, walker, blocks, begun, broken, forgot>>

\* Not worthKeeping, or canBeReplacedBy a later one.
Removable(k) ==
  LET c == caches[k]
      now == filters[Owner].cur.idx
  IN /\ c.status # "none"
     /\ \/ c.silent /\ (~c.ended \/ c.status = "error")
        \/ c.ended /\ (c.startedCycle > now \/ (now >= DirCycles /\ c.startedCycle < now - DirCycles))
        \/ c.silent /\ \E j \in ListIds : caches[j].status \in {"started", "success"} /\ caches[j].started > c.started

Cleanup(k) ==
  /\ Removable(k)
  /\ caches' = [caches EXCEPT ![k] = NoCache]
  /\ blocks' = [blocks EXCEPT ![k] = NoBlock]
  /\ UNCHANGED <<trackVars, lister, savedCaches, walker, begun, broken, forgot>>

\* The index is saved now and then; here once, and only restarts read it.
SaveCaches ==
  /\ MaxTrackMishaps > 0 /\ \A k \in ListIds : savedCaches[k].status = "none"
  /\ savedCaches' = caches /\ savedCaches # caches
  /\ UNCHANGED <<trackVars, lister, caches, walker, blocks, begun, broken, forgot>>

\* Walks end with the server they run on, and requests are cut off.
RestartLister(p) ==
  /\ RestartPeer(p)
  /\ caches' = IF p = Owner THEN savedCaches ELSE caches
  /\ lister' = [l \in ListIds |-> IF lister[l].on = p /\ lister[l].pc \notin {"idle", "done"}
                                  THEN [lister[l] EXCEPT !.pc = "error"] ELSE lister[l]]
  /\ walker' = [l \in ListIds |-> IF lister[l].on = p /\ walker[l].pc \in {"walk", "flush"}
                                  THEN [walker[l] EXCEPT !.pc = "dead"] ELSE walker[l]]
  /\ forgot' = (forgot \/ p = Owner)
  /\ UNCHANGED <<savedCaches, blocks, begun, broken>>

ListRequest(l) ==
  \/ \E q \in Peers : AskClean(l, q)
  \/ FindCache(l) \/ WalkOn(l) \/ WalkEnds(l) \/ FlushBlock(l) \/ ReadBlock(l) \/ CheckState(l) \/ GoSilent(l)

\* Only restarts read what is saved; here a server saves its filters once.
SaveOnce(p) ==
  /\ MaxTrackMishaps > 0 /\ \A d \in TrackDriveIds : filterFiles[p][d] = NoFile
  /\ filters[p].cur.dirty
  /\ SaveFilters(p)

TrackSteps ==
  \/ \E p \in Peers : StoreChange(p) \/ AskPeer(p) \/ SaveOnce(p)
  \/ \E i \in ChangeIds : MarkDirty(i)
  \/ BeginCycle \/ ScanFolder \/ StoreCycle

ListNext ==
  \/ TrackSteps /\ UNCHANGED listVars
  \/ \E p \in Peers : RestartLister(p) \/ \E l \in ListIds : BeginList(l, p)
  \/ \E l \in ListIds : ListRequest(l) \/ ListTransient(l) \/ WalkRefused(l) \/ WalkFails(l) \/ Cleanup(l)
  \/ SaveCaches

\* Requests and walks go on, and time passes.
ListSpec == ListInit /\ [][ListNext]_allListVars /\ \A l \in ListIds : WF_allListVars(ListRequest(l))

-----------------------------------------------------------------------------
(* Properties.                                                                *)

Answered == {l \in ListIds : lister[l].pc = "done"}
LeftOut(l) == lister[l].need \ lister[l].got

\* A listing leaves out an object whose upload was acknowledged before it was
\* asked for only if it reads a listing that another request began, and this in
\* the cycle of the upload or later: never one of an earlier cycle.  Not so for
\* marks a restart lost, for a server that was behind and did not hear from
\* another, and once the cycles went back; and a walk that fails is answered with
\* what it found.
MissesOnlyLate ==
  \A l \in Answered : l \notin broken =>
    \A i \in LeftOut(l) : \/ i \in lostMarks \/ rewound \/ lister[l].deaf
                          \/ lister[l].use # l /\ lister[l].from >= changes[i].idx

\* A request is not given a listing of whose failed walk the owner had been told
\* before it asked, unless the owner has restarted.  The request that walked, and
\* one that already waited for its block, get what there is; and so does one that
\* asks when the report was lost, for metacache-set.go ignores that error.
WholeListings == forgot \/ \A l \in Answered : ~lister[l].half

\* A listing is up to date as far as the cycles of the scanner tell, which is
\* less than list-after-write; and half a listing goes no further than to the
\* requests that were there when the walk failed, as long as its owner is told
\* of the failure and stays up (MissesOnlyLate and WholeListings).
ListingsSound == MissesOnlyLate /\ WholeListings

\* "Successful object operations follow the server's read-after-write and
\* list-after-write consistency model."
ListAfterWrite == \A l \in Answered : lister[l].need \subseteq lister[l].got

=============================================================================
