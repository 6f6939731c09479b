--------------------------- MODULE UpdateTracker ----------------------------
(* What changed lately: every server marks the paths it changes in a bloom    *)
(* filter per scanner cycle (data-update-tracker.go), the scanner moves all   *)
(* servers to the next cycle and collects their filters (updateBloomFilter in *)
(* notification.go), and a folder that is not in the merged filter is skipped *)
(* when its turn comes (runDataScanner, scanDataFolder in data-scanner.go).   *)
(*                                                                            *)
(* One folder of one bucket, so a filter is dirty or not; a filter that says  *)
(* dirty of a clean folder only costs a scan and is left out.                 *)
EXTENDS Integers, FiniteSets, Sequences

CONSTANTS Peers,             \* the servers
          NTrackDrives,      \* drives of each server
          DirCycles,         \* dataUsageUpdateDirCycles, 16 in the code
          HealInclude,       \* healFolderIncludeProb, 32 in the code
          MaxCycle, MaxChanges, MaxTrackMishaps   \* bounds

ASSUME UpdateTrackerAssumption ==
  /\ IsFiniteSet(Peers) /\ Peers # {}
  /\ {NTrackDrives, DirCycles, HealInclude} \subseteq Nat \ {0}
  /\ {MaxCycle, MaxChanges, MaxTrackMishaps} \subseteq Nat

Cycles == 0..MaxCycle + 1
ChangeIds == 1..MaxChanges
TrackDriveIds == 1..NTrackDrives

Entry(idx, dirty) == [idx |-> idx, dirty |-> dirty]
\* newDataUpdateTracker
FreshFilters == [cur |-> Entry(1, FALSE), hist |-> {}, unsaved |-> TRUE]
NoFile == [cur |-> Entry(0, FALSE), hist |-> {}]
AtRest == [pc |-> "rest", left |-> {}, bf |-> "none", due |-> {}]

VARIABLES filters,      \* dataUpdateTracker of each server: Current, History, dirty
          filterFiles,  \* .tracker.bin on the drives of each server
          leader,       \* the server that has the scanner lock
          cycle,        \* nextBloomCycle of the leader
          storedCycle,  \* .bloomcycle.bin, 0 when there is none
          scan,         \* the leader's place in the cycle
          folderCycle,  \* NextCycle in the usage cache of the bucket
          changes,      \* the changes: the server, the cycle they are marked in
          unseen,       \* changes that the usage cache does not reflect
          trackMishaps,
          lostMarks,    \* history: marks that a restart lost
          missed,       \* history: changes a scan should have found and did not
          rewound,      \* history: a new leader began with an earlier cycle
          drifted       \* history: a cycle went by without a scan of the bucket

trackVars == <<filters, filterFiles, leader, cycle, storedCycle, scan, folderCycle, changes, unseen,
               trackMishaps, lostMarks, missed, rewound, drifted>>

Marked == {i \in DOMAIN changes : changes[i].idx > 0}

\* Type invariant: no server has a filter of a cycle that has not begun.
TrackTypeOK ==
  /\ \A p \in Peers : /\ filters[p].cur.idx \in 1..IF rewound THEN MaxCycle ELSE cycle
                      /\ filters[p].hist \subseteq [idx : Cycles, dirty : BOOLEAN]
                      /\ \A d \in TrackDriveIds : filterFiles[p][d].cur.idx \in 0..MaxCycle
  /\ leader \in Peers /\ cycle \in Cycles /\ storedCycle \in Cycles /\ folderCycle \in Nat
  /\ scan.pc \in {"rest", "ask", "store"} /\ scan.left \subseteq Peers /\ scan.bf \in {"none", "clean", "dirty"}
  /\ Len(changes) <= MaxChanges /\ unseen \cup lostMarks \cup missed \cup scan.due \subseteq DOMAIN changes
  /\ trackMishaps \in 0..MaxTrackMishaps

TrackInit ==
  /\ filters = [p \in Peers |-> FreshFilters]
  /\ filterFiles = [p \in Peers |-> [d \in TrackDriveIds |-> NoFile]]
  /\ leader \in Peers /\ cycle = 2 /\ storedCycle = 0 /\ scan = AtRest /\ folderCycle = 0
  /\ changes = <<>> /\ unseen = {} /\ trackMishaps = 0
  /\ lostMarks = {} /\ missed = {} /\ rewound = FALSE /\ drifted = FALSE

Mishap == trackMishaps < MaxTrackMishaps /\ trackMishaps' = trackMishaps + 1

-----------------------------------------------------------------------------
(* Changes.  putObject and the other writers mark the path when they return,  *)
(* after the drives have the change and before the client has its answer.     *)

StoreChange(p) ==
  /\ Len(changes) < MaxChanges
  /\ changes' = Append(changes, [on |-> p, idx |-> 0])
  /\ unseen' = unseen \cup {Len(changes) + 1}
  /\ UNCHANGED <<filters, filterFiles, leader, cycle, storedCycle, scan, folderCycle,
                 trackMishaps, lostMarks, missed, rewound, drifted>>

\* ObjectPathUpdated, markDirty.
MarkDirty(i) ==
  LET p == changes[i].on
  IN /\ i \in DOMAIN changes /\ changes[i].idx = 0
     /\ filters' = [filters EXCEPT ![p].cur.dirty = TRUE, ![p].unsaved = TRUE]
     /\ changes' = [changes EXCEPT ![i].idx = filters[p].cur.idx]
     /\ UNCHANGED <<filterFiles, leader, cycle, storedCycle, scan, folderCycle, unseen,
                    trackMishaps, lostMarks, missed, rewound, drifted>>

-----------------------------------------------------------------------------
(* cycleFilter, filterFrom and latestWithDir of one server.                   *)

\* The current filter becomes history if a new cycle is asked for, and history
\* older than the oldest cycle asked for is removed.
Cycled(f, current, oldest) ==
  IF f.cur.idx = current THEN [f EXCEPT !.hist = {e \in f.hist : e.idx >= oldest}]
  ELSE [cur |-> Entry(current, FALSE),
        hist |-> {e \in f.hist \cup {f.cur} : e.idx >= oldest}, unsaved |-> TRUE]

\* The filters of a cycle; history is searched first, and when it has two
\* filters of a cycle either is found.
Find(f, idx) == LET old == {e \in f.hist : e.idx = idx}
                IN IF old = {} /\ f.cur.idx = idx THEN {f.cur} ELSE old

\* What a server can answer for the cycles from oldest to newest.
FilterFrom(f, oldest, newest) ==
  IF \E c \in oldest..newest : Find(f, c) = {} THEN {"none"}
  ELSE {"dirty" : c \in {c \in oldest..newest : \E e \in Find(f, c) : e.dirty}}
       \cup {"clean" : x \in {x \in {0} : \A c \in oldest..newest : \E e \in Find(f, c) : ~e.dirty}}

\* The latest cycle that has the folder or that nothing is known of; 0 is
\* before all cycles.
LatestWithDir(f) ==
  IF f.cur.dirty THEN f.cur.idx
  ELSE CHOOSE c \in 0..f.cur.idx - 1 :
         /\ c = 0 \/ \A e \in Find(f, c) : e.dirty
         /\ \A d \in c + 1..f.cur.idx - 1 : \E e \in Find(f, d) : ~e.dirty

-----------------------------------------------------------------------------
(* runDataScanner.                                                            *)

\* updateBloomFilter asks for the cycles from here on.
Oldest(current) == IF current < DirCycles THEN 0 ELSE current - DirCycles

\* updateBloomFilter begins with the server itself.
BeginCycle ==
  LET f == Cycled(filters[leader], cycle, Oldest(cycle))
  IN /\ scan.pc = "rest" /\ cycle <= MaxCycle
     /\ filters' = [filters EXCEPT ![leader] = f]
     /\ \E bf \in FilterFrom(f, Oldest(cycle), cycle) :
          scan' = [pc |-> "ask", left |-> Peers \ {leader}, bf |-> bf, due |-> Marked]
     /\ UNCHANGED <<filterFiles, leader, cycle, storedCycle, folderCycle, changes, unseen,
                    trackMishaps, lostMarks, missed, rewound, drifted>>

\* Mutant of Merged: a server without a complete filter is passed over.
MergedIgnoring(bf, answer) == IF answer = "none" THEN bf ELSE IF "dirty" \in {bf, answer} THEN "dirty" ELSE bf

\* One incomplete or missing filter makes the whole unusable.
Merged(bf, answer) ==
  IF "none" \in {bf, answer} THEN "none" ELSE IF "dirty" \in {bf, answer} THEN "dirty" ELSE "clean"

\* cycleServerBloomFilter of p, which may not be reached or not be heard of.
AskPeer(p) ==
  LET f == Cycled(filters[p], cycle, Oldest(cycle))
  IN /\ scan.pc = "ask" /\ p \in scan.left
     /\ \/ /\ filters' = [filters EXCEPT ![p] = f]
           /\ \E a \in FilterFrom(f, Oldest(cycle), cycle) :
                scan' = [scan EXCEPT !.left = @ \ {p}, !.bf = Merged(@, a)]
           /\ UNCHANGED trackMishaps
        \/ /\ filters' \in {filters, [filters EXCEPT ![p] = f]}
           /\ scan' = [scan EXCEPT !.left = @ \ {p}, !.bf = Merged(@, "none")]
           /\ Mishap
     /\ UNCHANGED <<filterFiles, leader, cycle, storedCycle, folderCycle, changes, unseen,
                    lostMarks, missed, rewound, drifted>>

\* The turn of the folder, by its hash; a clean bucket is gone through now and
\* then to heal what is in it.
Turn == folderCycle % DirCycles = 0
HealTurn == folderCycle % HealInclude = 0

\* scanQueuedLevels skips a bucket that is not in the filter, scanDataFolder a
\* folder whose turn it is not.
Visited == IF scan.bf = "clean" THEN HealTurn ELSE Turn

\* NSScanner goes through the bucket.
ScanFolder ==
  /\ scan.pc = "ask" /\ scan.left = {}
  /\ unseen' = IF Visited THEN {} ELSE unseen
  /\ missed' = IF ~Visited /\ Turn THEN missed \cup (unseen \cap scan.due) ELSE missed
  /\ folderCycle' = folderCycle + 1
  /\ cycle' = cycle + 1
  /\ scan' = [AtRest EXCEPT !.pc = "store"]
  /\ UNCHANGED <<filters, filterFiles, leader, storedCycle, changes, trackMishaps, lostMarks, rewound, drifted>>

\* No drive is there to scan, or the scan of the bucket or the save of its
\* usage cache fails: NSScanner reports nothing.
ScanSkipped ==
  /\ scan.pc = "ask" /\ scan.left = {} /\ Mishap
  /\ cycle' = cycle + 1 /\ drifted' = TRUE
  /\ scan' = [AtRest EXCEPT !.pc = "store"]
  /\ UNCHANGED <<filters, filterFiles, leader, storedCycle, folderCycle, changes, unseen, lostMarks, missed, rewound>>

\* NSScanner fails as a whole: the cycle is begun again.
ScanFails ==
  /\ scan.pc = "ask" /\ scan.left = {} /\ Mishap
  /\ scan' = AtRest
  /\ UNCHANGED <<filters, filterFiles, leader, cycle, storedCycle, folderCycle, changes, unseen,
                 lostMarks, missed, rewound, drifted>>

\* The next cycle is stored, if the write succeeds.
StoreCycle ==
  /\ scan.pc = "store" /\ scan' = AtRest
  /\ \/ storedCycle' = cycle /\ UNCHANGED trackMishaps
     \/ UNCHANGED storedCycle /\ Mishap
  /\ UNCHANGED <<filters, filterFiles, leader, cycle, folderCycle, changes, unseen, lostMarks, missed, rewound, drifted>>

-----------------------------------------------------------------------------
(* startSaver, load.                                                          *)

\* Writes that fail are logged.
SaveFilters(p) ==
  /\ filters[p].unsaved
  /\ filters' = [filters EXCEPT ![p].unsaved = FALSE]
  /\ \E D \in SUBSET TrackDriveIds :
       /\ filterFiles' = [filterFiles EXCEPT ![p] = [d \in TrackDriveIds |->
            IF d \in D THEN [cur |-> filters[p].cur, hist |-> filters[p].hist] ELSE @[d]]]
       /\ IF D = TrackDriveIds THEN UNCHANGED trackMishaps ELSE Mishap
  /\ UNCHANGED <<leader, cycle, storedCycle, scan, folderCycle, changes, unseen, lostMarks, missed, rewound, drifted>>

\* Every file replaces the one before it: the time it was saved is not kept.
Loaded(files) ==
  LET there == {d \in TrackDriveIds : files[d].cur.idx # 0}
      d == CHOOSE m \in there : \A x \in there : x <= m
  IN IF there = {} THEN FreshFilters
     ELSE [cur |-> files[d].cur, hist |-> files[d].hist, unsaved |-> TRUE]

Covers(f, idx) == \E e \in f.hist \cup {f.cur} : e.idx = idx /\ e.dirty

\* A mark is lost with the restart: the file that is loaded does not have it,
\* and it was there before, or the file has a filter of the cycle or gets one.
Forgets(f, before, idx) == ~Covers(f, idx) /\ (Covers(before, idx) \/ Find(f, idx) # {} \/ idx > f.cur.idx)

\* A server restarts, and another may take over the scanner; a change it was
\* about to mark stays unmarked and is not acknowledged.
RestartPeer(p) ==
  LET f == Loaded(filterFiles[p])
      next(l) == IF storedCycle # 0 THEN storedCycle ELSE filters'[l].cur.idx + 1
  IN /\ Mishap
     /\ filters' = [filters EXCEPT ![p] = f]
     /\ changes' = [i \in DOMAIN changes |->
          IF changes[i].on = p /\ changes[i].idx = 0 THEN [changes[i] EXCEPT !.idx = -1] ELSE changes[i]]
     /\ lostMarks' = lostMarks \cup {i \in Marked : changes[i].on = p /\ Forgets(f, filters[p], changes[i].idx)}
     /\ IF p # leader THEN UNCHANGED <<leader, cycle, scan, rewound, drifted>>
        ELSE /\ leader' \in Peers
             /\ cycle' = next(leader')
             /\ scan' = AtRest
             /\ rewound' = (rewound \/ \E q \in Peers : filters'[q].cur.idx > cycle')
             /\ drifted' = (drifted \/ cycle' > cycle)
     /\ UNCHANGED <<filterFiles, storedCycle, folderCycle, unseen, missed>>

TrackNext ==
  \/ \E p \in Peers : StoreChange(p) \/ AskPeer(p) \/ SaveFilters(p) \/ RestartPeer(p)
  \/ \E i \in ChangeIds : MarkDirty(i)
  \/ BeginCycle \/ ScanFolder \/ ScanSkipped \/ ScanFails \/ StoreCycle

TrackSpec == TrackInit /\ [][TrackNext]_trackVars

-----------------------------------------------------------------------------
(* Properties.                                                                *)

\* When the turn of a folder comes, a change that was acknowledged before the
\* filters were collected is either in the usage cache or in the filter: no
\* change falls between the windows of two turns.  Not so for marks that a
\* restart lost, and once the cycles of the bucket and of the filters are no
\* longer in step.
NoChangeMissed == ~rewound /\ ~drifted => missed \subseteq lostMarks
=============================================================================
