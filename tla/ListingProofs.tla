--------------------------- MODULE ListingProofs ----------------------------
(* TLAPS proofs about what changed and what a listing shows: the filters by   *)
(* which the scanner knows of changes (UpdateTracker), and the cache of       *)
(* listings that asks them (Metacache).                                       *)
EXTENDS Metacache, WellFoundedInduction, TLAPS

(* Zenon is the default prover here; the steps that need arithmetic or the    *)
(* theory of functions and records cite SMT.                                  *)
USE Zenon

-----------------------------------------------------------------------------
(* The update tracker.                                                        *)

Entries(f) == f.hist \cup {f.cur}

\* The filters of a server are of different cycles, and the current one is the latest.
Ordered(f) ==
  /\ f.cur.idx >= 1 /\ \A e \in f.hist : e.idx < f.cur.idx
  /\ \A e, g \in f.hist : e.idx = g.idx => e = g

\* The first cycle that the merged filter covers when the turn of the folder
\* comes next.
WindowStart == cycle - (IF Turn THEN DirCycles ELSE folderCycle % DirCycles)

NoneIn(f, lo, hi) == \A e \in Entries(f) : e.idx <= lo \/ e.idx > hi

\* What a server has in memory, and what it would have after a restart, has no
\* filter of the cycles from lo on to hi.
Unknown(p, lo, hi) == NoneIn(filters[p], lo, hi) /\ NoneIn(Loaded(filterFiles[p]), lo, hi)

Pending == (Marked \cap unseen) \ lostMarks

\* The server is not before the cycle in which it marked a change, and no filter
\* of this cycle is clean.
MarkThere(i) ==
  /\ changes[i].idx <= filters[changes[i].on].cur.idx
  /\ \A e \in Entries(filters[changes[i].on]) : e.idx = changes[i].idx => e.dirty

\* A change that the usage cache does not reflect will be found: no filter of
\* its cycle is clean, and if its cycle is before the window the server has no
\* filter of the first cycle of the window.
FindableOne(i) ==
  /\ MarkThere(i)
  /\ Unknown(changes[i].on, changes[i].idx, WindowStart)

Findable == \A i \in Pending : FindableOne(i)

\* If the filters collected so far are clean when it is the turn of the folder,
\* what is pending on a server that answered was marked after it did.
AnswersHold ==
  scan.pc = "ask" /\ Turn /\ scan.bf = "clean" =>
    \A i \in Pending : changes[i].on \notin scan.left =>
      i \notin scan.due /\ Unknown(changes[i].on, changes[i].idx, cycle)

FiltersOrdered ==
  \A p \in Peers : /\ Ordered(filters[p]) /\ Ordered(Loaded(filterFiles[p]))
                   /\ Loaded(filterFiles[p]).cur.idx <= filters[p].cur.idx /\ filters[p].cur.idx <= cycle

TrackEntries == [idx : Nat, dirty : BOOLEAN]
TrackFilters == [cur : TrackEntries, hist : SUBSET TrackEntries, unsaved : BOOLEAN]
TrackFiles == [TrackDriveIds -> [cur : TrackEntries, hist : SUBSET TrackEntries]]

ChangeRecords == [on : Peers, idx : Int]
ScanRecords == [pc : {"rest", "ask", "store"}, left : SUBSET Peers, bf : {"none", "dirty", "clean"}, due : SUBSET Nat]

TrackTypes ==
  /\ filters \in [Peers -> TrackFilters] /\ filterFiles \in [Peers -> TrackFiles]
  /\ leader \in Peers /\ cycle \in Nat /\ storedCycle \in Nat
  /\ changes \in Seq(ChangeRecords) /\ scan \in ScanRecords
  /\ \E q \in Nat, r \in 0..DirCycles - 1 : folderCycle = q * DirCycles + r

TrackRest == FiltersOrdered /\ scan.due \subseteq Marked /\ Findable /\ AnswersHold /\ missed \subseteq lostMarks

\* The inductive invariant.
TrackIInv == TrackTypes /\ (~rewound /\ ~drifted => TrackRest)

\* A non-empty set of numbers up to n has a largest one.
LEMMA LargestNumber ==
  ASSUME NEW n \in Nat, NEW S \in SUBSET (0..n), S # {}
  PROVE  \E m \in S : \A x \in S : x <= m
<1> DEFINE T == {k \in Nat : n - k \in S}
<1>1. T \subseteq Nat
  OBVIOUS
<1>2. T # {}
  <2>1. PICK s \in S : TRUE
    OBVIOUS
  <2>2. s \in 0..n
    BY <2>1
  <2>3. n - s \in Nat /\ n - (n - s) = s
    BY ONLY <2>2, n \in Nat, SMT
  <2>4. n - s \in T
    BY <2>1, <2>3
  <2> QED BY <2>4
<1>3. PICK k \in T : \A y \in T : <<y, k>> \notin OpToRel(<, Nat)
  <2> HIDE DEF T
  <2> QED BY <1>1, <1>2, NatLessThanWellFounded, WFMin, Zenon
<1>4. k \in Nat /\ n - k \in S
  BY <1>3
<1>5. ASSUME NEW x \in S PROVE x <= n - k
  <2>0. x \in 0..n
    OBVIOUS
  <2>1. n - x \in Nat /\ n - (n - x) = x
    BY ONLY <2>0, n \in Nat, SMT
  <2>2. n - x \in T
    BY <2>1, <1>5
  <2>3. ~(n - x < k)
    <3>1. <<n - x, k>> \notin OpToRel(<, Nat)
      BY <1>3, <2>2
    <3> HIDE DEF T
    <3> QED BY <1>4, <2>1, <3>1 DEF OpToRel
  <2> QED BY ONLY <1>4, <2>0, <2>3, n \in Nat, SMT
<1> QED BY <1>4, <1>5

LEMMA TrackConstants == DirCycles \in Nat \ {0} /\ NTrackDrives \in Nat \ {0}
BY UpdateTrackerAssumption

LEMMA RecordFields ==
  \A c, h : /\ [cur |-> c, hist |-> h].cur = c /\ [cur |-> c, hist |-> h].hist = h
           /\ [cur |-> c, hist |-> h, unsaved |-> TRUE].cur = c /\ [cur |-> c, hist |-> h, unsaved |-> TRUE].hist = h
           /\ c \in TrackEntries /\ h \in SUBSET TrackEntries => [cur |-> c, hist |-> h, unsaved |-> TRUE] \in TrackFilters
BY DEF TrackFilters

\* The file that load keeps is the one on the last drive that has one.
LEMMA LoadedIs ==
  ASSUME NEW files \in TrackFiles
  PROVE  \/ Loaded(files) = FreshFilters /\ \A x \in TrackDriveIds : files[x].cur.idx = 0
         \/ \E d \in TrackDriveIds : /\ files[d].cur.idx # 0
                                     /\ \A x \in TrackDriveIds : files[x].cur.idx # 0 => x <= d
                                     /\ Loaded(files) = [cur |-> files[d].cur, hist |-> files[d].hist, unsaved |-> TRUE]
<1> DEFINE there == {d \in TrackDriveIds : files[d].cur.idx # 0}
<1>1. CASE there = {}
  BY <1>1 DEF Loaded
<1>2. CASE there # {}
  <2>1. \E m \in there : \A x \in there : x <= m
    <3>1. NTrackDrives \in Nat
      BY TrackConstants
    <3>2. there \subseteq 0..NTrackDrives
      <4>1. TrackDriveIds \subseteq 0..NTrackDrives
        BY <3>1, SMT DEF TrackDriveIds
      <4> QED BY <4>1
    <3> HIDE DEF there
    <3> QED BY <1>2, <3>1, <3>2, LargestNumber
  <2>2. PICK d : d = CHOOSE m \in there : \A x \in there : x <= m
    OBVIOUS
  <2>3. d \in there /\ \A x \in there : x <= d
    BY <2>1, <2>2
  <2>4. Loaded(files) = [cur |-> files[d].cur, hist |-> files[d].hist, unsaved |-> TRUE]
    BY <1>2, <2>2 DEF Loaded
  <2> QED BY <2>3, <2>4
<1> QED BY <1>1, <1>2

LEMMA LoadedType ==
  ASSUME NEW files \in TrackFiles
  PROVE  Loaded(files) \in TrackFilters /\ Loaded(files).cur.idx # 0
<1>1. CASE Loaded(files) = FreshFilters
  <2>1. 1 \in Nat /\ 1 # 0
    BY SMT
  <2>2. FreshFilters \in TrackFilters /\ FreshFilters.cur.idx = 1
    BY <2>1 DEF FreshFilters, Entry, TrackFilters, TrackEntries
  <2> QED BY <1>1, <2>1, <2>2
<1>2. CASE \E d \in TrackDriveIds : /\ files[d].cur.idx # 0
                                    /\ Loaded(files) = [cur |-> files[d].cur, hist |-> files[d].hist, unsaved |-> TRUE]
  <2>1. PICK d \in TrackDriveIds : /\ files[d].cur.idx # 0
                                   /\ Loaded(files) = [cur |-> files[d].cur, hist |-> files[d].hist, unsaved |-> TRUE]
    BY <1>2
  <2>2. files[d].cur \in TrackEntries /\ files[d].hist \in SUBSET TrackEntries
    BY DEF TrackFiles
  <2>3. Loaded(files).cur = files[d].cur
    BY ONLY <2>1, SMT
  <2>4. Loaded(files) \in TrackFilters
    BY <2>1, <2>2, RecordFields
  <2> QED BY <2>1, <2>3, <2>4
<1> QED BY <1>1, <1>2, LoadedIs

\* A save either changes nothing for a restart or makes the filters in memory
\* what is loaded.
LEMMA SavedIs ==
  ASSUME NEW files \in TrackFiles, NEW saved \in TrackFiles, NEW c \in TrackEntries, NEW h \in SUBSET TrackEntries,
         NEW S \in SUBSET TrackDriveIds,
         \A d \in TrackDriveIds : saved[d] = IF d \in S THEN [cur |-> c, hist |-> h] ELSE files[d],
         c.idx # 0
  PROVE  Loaded(saved) = Loaded(files) \/ Loaded(saved) = [cur |-> c, hist |-> h, unsaved |-> TRUE]
<1>0. \A d \in TrackDriveIds : /\ d \in S => saved[d].cur = c /\ saved[d].hist = h /\ saved[d].cur.idx # 0
                               /\ d \notin S => saved[d] = files[d]
  <2> SUFFICES ASSUME NEW d \in TrackDriveIds
               PROVE  /\ d \in S => saved[d].cur = c /\ saved[d].hist = h /\ saved[d].cur.idx # 0
                      /\ d \notin S => saved[d] = files[d]
    OBVIOUS
  <2>1. ASSUME d \in S PROVE saved[d].cur = c /\ saved[d].hist = h
    <3>1. saved[d] = [cur |-> c, hist |-> h]
      BY <2>1
    <3> QED BY ONLY <3>1, SMT
  <2>2. d \notin S => saved[d] = files[d]
    OBVIOUS
  <2> QED BY <2>1, <2>2
<1>1. CASE \A x \in TrackDriveIds : saved[x].cur.idx = 0
  <2>1. \A x \in TrackDriveIds : saved[x] = files[x]
    BY <1>0, <1>1
  <2>2. Loaded(saved) = FreshFilters
    BY <1>1, LoadedIs
  <2>3. Loaded(files) = FreshFilters
    BY <1>1, <2>1, LoadedIs
  <2> QED BY <2>2, <2>3
<1>2. CASE ~\A x \in TrackDriveIds : saved[x].cur.idx = 0
  <2>1. PICK d \in TrackDriveIds :
               /\ saved[d].cur.idx # 0
               /\ \A x \in TrackDriveIds : saved[x].cur.idx # 0 => x <= d
               /\ Loaded(saved) = [cur |-> saved[d].cur, hist |-> saved[d].hist, unsaved |-> TRUE]
    BY <1>2, LoadedIs
  <2>2. CASE d \in S
    BY <1>0, <2>1, <2>2
  <2>3. CASE d \notin S
    <3>1. saved[d] = files[d] /\ files[d].cur.idx # 0
      BY <1>0, <2>1, <2>3
    <3>2. \A x \in TrackDriveIds : files[x].cur.idx # 0 => x <= d
      BY <1>0, <2>1
    <3>3. PICK b \in TrackDriveIds :
                 /\ files[b].cur.idx # 0
                 /\ \A x \in TrackDriveIds : files[x].cur.idx # 0 => x <= b
                 /\ Loaded(files) = [cur |-> files[b].cur, hist |-> files[b].hist, unsaved |-> TRUE]
      BY <3>1, LoadedIs
    <3>4. b <= d /\ d <= b
      BY <3>1, <3>2, <3>3
    <3>5. b = d
      BY ONLY <3>4, b \in TrackDriveIds, d \in TrackDriveIds, SMT DEF TrackDriveIds
    <3> QED BY <2>1, <3>1, <3>3, <3>5
  <2> QED BY <2>2, <2>3
<1> QED BY <1>1, <1>2

-----------------------------------------------------------------------------
LEMMA CycledType ==
  ASSUME NEW f \in TrackFilters, NEW current \in Nat, NEW oldest
  PROVE  Cycled(f, current, oldest) \in TrackFilters
BY DEF Cycled, Entry, TrackFilters, TrackEntries

\* cycleFilter adds a filter for the new cycle only, and may remove old ones.
LEMMA CycledFacts ==
  ASSUME NEW f \in TrackFilters, NEW current \in Nat, NEW oldest, Ordered(f), f.cur.idx <= current, NEW g,
         g = Cycled(f, current, oldest)
  PROVE  /\ Ordered(g) /\ g.cur.idx = current
         /\ \A e \in Entries(g) : e \in Entries(f) \/ (e.idx = current /\ f.cur.idx < current)
<1>0. f.cur \in TrackEntries /\ f.hist \subseteq TrackEntries /\ f.cur.idx \in Nat /\ \A e \in f.hist : e.idx \in Nat
  BY DEF TrackFilters, TrackEntries
<1>1. CASE f.cur.idx = current
  <2>1. g.cur = f.cur /\ g.hist \subseteq f.hist
    BY <1>1 DEF Cycled, TrackFilters
  <2> QED BY <1>1, <2>1 DEF Ordered, Entries
<1>2. CASE f.cur.idx # current
  <2>1. g.cur.idx = current /\ g.hist \subseteq Entries(f)
    BY <1>2 DEF Cycled, Entry, Entries
  <2>2. f.cur.idx < current /\ current >= 1
    BY <1>0, <1>2, SMT DEF Ordered
  <2>3. \A e \in Entries(f) : e.idx < current
    <3>1. \A e \in f.hist : e.idx < current
      BY <1>0, <2>2, SMT DEF Ordered
    <3> QED BY <2>2, <3>1 DEF Entries
  <2>4. \A e, d \in Entries(f) : e.idx = d.idx => e = d
    <3>1. \A e \in f.hist : e.idx # f.cur.idx
      BY <1>0, SMT DEF Ordered
    <3> QED BY <3>1 DEF Entries, Ordered
  <2> QED BY <2>1, <2>2, <2>3, <2>4 DEF Ordered, Entries
<1> QED BY <1>1, <1>2

\* A server answers that the folder is clean only if it has a clean filter of
\* every cycle asked for.
LEMMA CleanAnswer ==
  ASSUME NEW f, NEW o, NEW n, "clean" \in FilterFrom(f, o, n), NEW c \in o..n
  PROVE  \E e \in Entries(f) : e.idx = c /\ ~e.dirty
<1>1. ~\E d \in o..n : Find(f, d) = {}
  BY DEF FilterFrom
<1>2. \A d \in o..n : \E e \in Find(f, d) : ~e.dirty
  BY <1>1 DEF FilterFrom
<1> QED BY <1>2 DEF Find, Entries

LEMMA AnswerType ==
  ASSUME NEW f, NEW o, NEW n, NEW a \in FilterFrom(f, o, n)
  PROVE  a \in {"none", "dirty", "clean"}
BY DEF FilterFrom

LEMMA MergedClean ==
  ASSUME NEW bf \in {"none", "dirty", "clean"}, NEW a \in {"none", "dirty", "clean"}
  PROVE  /\ Merged(bf, a) \in {"none", "dirty", "clean"}
         /\ Merged(bf, a) = "clean" => bf = "clean" /\ a = "clean"
         /\ Merged(bf, "none") = "none"
BY DEF Merged

-----------------------------------------------------------------------------
(* The window of cycles.                                                      *)

LEMMA ModIs ==
  ASSUME NEW d \in Nat \ {0}, NEW q \in Nat, NEW r \in 0..d - 1
  PROVE  q * d + r \in Nat /\ (q * d + r) % d = r
BY SMT

LEMMA WindowFacts ==
  ASSUME TrackTypes
  PROVE  /\ WindowStart \in Int /\ WindowStart < cycle /\ cycle \in Nat
         /\ Turn => WindowStart = cycle - DirCycles
<1>1. PICK q \in Nat, r \in 0..DirCycles - 1 : folderCycle = q * DirCycles + r
  BY DEF TrackTypes
<1>2. folderCycle % DirCycles = r
  BY <1>1, TrackConstants, ModIs
<1>3. cycle \in Nat
  BY DEF TrackTypes
<1>4. WindowStart = cycle - (IF r = 0 THEN DirCycles ELSE r) /\ (Turn <=> r = 0)
  BY <1>2 DEF WindowStart, Turn
<1> QED BY <1>3, <1>4, TrackConstants, SMT

\* A cycle later the window is the same, or it was the turn and the next window
\* begins with the cycle that is over.
LEMMA WindowMoves ==
  ASSUME TrackTypes, folderCycle' = folderCycle + 1, cycle' = cycle + 1
  PROVE  /\ \E q \in Nat, r \in 0..DirCycles - 1 : folderCycle' = q * DirCycles + r
         /\ Turn => WindowStart' = cycle
         /\ ~Turn => WindowStart' = WindowStart
<1>1. PICK q \in Nat, r \in 0..DirCycles - 1 : folderCycle = q * DirCycles + r
  BY DEF TrackTypes
<1>2. folderCycle % DirCycles = r
  BY <1>1, TrackConstants, ModIs
<1>3. PICK p \in Nat, s \in 0..DirCycles - 1 :
             folderCycle' = p * DirCycles + s /\ s = IF r = DirCycles - 1 THEN 0 ELSE r + 1
  <2>0. DirCycles \in Nat \ {0}
    BY TrackConstants
  <2>1. CASE r = DirCycles - 1
    <3>1. folderCycle' = (q + 1) * DirCycles + 0 /\ q + 1 \in Nat /\ 0 \in 0..DirCycles - 1
      BY <1>1, <2>0, <2>1, SMT
    <3> QED BY <2>1, <3>1
  <2>2. CASE r # DirCycles - 1
    <3>1. folderCycle' = q * DirCycles + (r + 1) /\ r + 1 \in 0..DirCycles - 1
      BY <1>1, <2>0, <2>2, SMT
    <3> QED BY <2>2, <3>1
  <2> QED BY <2>1, <2>2
<1>4. folderCycle' % DirCycles = s
  <2>1. (p * DirCycles + s) % DirCycles = s
    BY TrackConstants, ModIs
  <2> QED BY <1>3, <2>1
<1>5. cycle \in Nat
  BY DEF TrackTypes
<1>6. WindowStart = cycle - (IF r = 0 THEN DirCycles ELSE r) /\ (Turn <=> r = 0)
  BY <1>2 DEF WindowStart, Turn
<1>7. WindowStart' = (cycle + 1) - (IF s = 0 THEN DirCycles ELSE s)
  BY <1>4 DEF WindowStart, Turn
<1>8. (r = 0 => WindowStart' = cycle) /\ (r # 0 => WindowStart' = WindowStart)
  BY ONLY <1>3, <1>5, <1>6, <1>7, TrackConstants, SMT
<1> QED BY <1>3, <1>6, <1>8

\* The first cycle asked for.
LEMMA OldestFacts ==
  ASSUME TrackTypes
  PROVE  Oldest(cycle) \in Nat /\ (Oldest(cycle) = 0 \/ Oldest(cycle) = cycle - DirCycles) /\ Oldest(cycle) <= cycle
<1>1. cycle \in Nat
  BY DEF TrackTypes
<1> QED BY <1>1, TrackConstants, SMT DEF Oldest

\* A server with a pending change does not answer that the folder is clean when
\* it is its turn.
LEMMA PendingNotClean ==
  ASSUME TrackTypes, Turn, NEW g \in TrackFilters, NEW m \in Nat, m # 0, m <= cycle,
         \A e \in Entries(g) : e.idx = m => e.dirty, NoneIn(g, m, WindowStart)
  PROVE  "clean" \notin FilterFrom(g, Oldest(cycle), cycle)
<1> SUFFICES ASSUME "clean" \in FilterFrom(g, Oldest(cycle), cycle) PROVE FALSE
  OBVIOUS
<1>0. /\ WindowStart = cycle - DirCycles /\ cycle \in Nat /\ Oldest(cycle) \in Nat
      /\ (Oldest(cycle) = 0 \/ Oldest(cycle) = cycle - DirCycles) /\ Oldest(cycle) <= cycle
  BY WindowFacts, OldestFacts
<1>1. CASE Oldest(cycle) <= m
  <2>1. m \in Oldest(cycle)..cycle
    BY <1>0, <1>1, SMT
  <2>2. \E e \in Entries(g) : e.idx = m /\ ~e.dirty
    BY ONLY <2>1, CleanAnswer, "clean" \in FilterFrom(g, Oldest(cycle), cycle)
  <2> QED BY <2>2
<1>2. CASE ~(Oldest(cycle) <= m)
  <2>1. /\ Oldest(cycle) \in Oldest(cycle)..cycle /\ Oldest(cycle) = WindowStart /\ ~(WindowStart <= m)
        /\ ~(WindowStart > WindowStart)
    BY <1>0, <1>2, SMT
  <2>2. PICK e \in Entries(g) : e.idx = Oldest(cycle) /\ ~e.dirty
    BY ONLY <2>1, CleanAnswer, "clean" \in FilterFrom(g, Oldest(cycle), cycle)
  <2> QED BY <2>1, <2>2 DEF NoneIn
<1> QED BY <1>1, <1>2

-----------------------------------------------------------------------------
(* Types.                                                                     *)

LEMMA ScanAtRest == AtRest \in ScanRecords /\ [AtRest EXCEPT !.pc = "store"] \in ScanRecords
                    /\ AtRest.pc = "rest" /\ AtRest.due = {}
                    /\ [AtRest EXCEPT !.pc = "store"].pc = "store" /\ [AtRest EXCEPT !.pc = "store"].due = {}
BY DEF AtRest, ScanRecords

LEMMA ChangeFacts ==
  ASSUME TrackTypes
  PROVE  /\ \A i \in DOMAIN changes : changes[i] \in ChangeRecords /\ changes[i].on \in Peers /\ changes[i].idx \in Int
         /\ DOMAIN changes = 1..Len(changes) /\ Len(changes) \in Nat /\ DOMAIN changes \subseteq Nat
         /\ \A i \in Marked : i \in DOMAIN changes /\ changes[i].idx > 0
<1>1. changes \in Seq(ChangeRecords)
  BY DEF TrackTypes
<1>2. DOMAIN changes = 1..Len(changes) /\ Len(changes) \in Nat /\ \A i \in 1..Len(changes) : changes[i] \in ChangeRecords
  BY ONLY <1>1, SMT
<1>3. 1..Len(changes) \subseteq Nat
  BY <1>2, SMT
<1> QED BY <1>2, <1>3 DEF Marked, ChangeRecords

LEMMA FilterFacts ==
  ASSUME TrackTypes, NEW p \in Peers
  PROVE  /\ filters[p] \in TrackFilters /\ filterFiles[p] \in TrackFiles /\ Loaded(filterFiles[p]) \in TrackFilters
         /\ filters[p].cur.idx \in Nat /\ Loaded(filterFiles[p]).cur.idx \in Nat
         /\ \A e \in Entries(filters[p]) : e \in TrackEntries /\ e.idx \in Nat
         /\ \A e \in Entries(Loaded(filterFiles[p])) : e \in TrackEntries /\ e.idx \in Nat
<1>1. filters[p] \in TrackFilters /\ filterFiles[p] \in TrackFiles
  BY DEF TrackTypes
<1>2. Loaded(filterFiles[p]) \in TrackFilters
  BY <1>1, LoadedType
<1>3. \A f \in TrackFilters : f.cur.idx \in Nat /\ \A e \in Entries(f) : e \in TrackEntries /\ e.idx \in Nat
  BY DEF TrackFilters, TrackEntries, Entries
<1> QED BY <1>1, <1>2, <1>3

LEMMA StoreChangeTypes ==
  ASSUME TrackTypes, NEW p \in Peers, StoreChange(p)
  PROVE  TrackTypes'
<1>1. PICK c : c = [on |-> p, idx |-> 0]
  OBVIOUS
<1>2. changes' = Append(changes, c) /\ c \in ChangeRecords
  <2>1. 0 \in Int
    BY SMT
  <2> QED BY <1>1, <2>1 DEF StoreChange, ChangeRecords
<1>3. changes' \in Seq(ChangeRecords)
  <2>1. changes \in Seq(ChangeRecords)
    BY DEF TrackTypes
  <2> QED BY ONLY <1>2, <2>1, SMT
<1> QED BY <1>3 DEF TrackTypes, StoreChange

LEMMA MarkDirtyTypes ==
  ASSUME TrackTypes, NEW i, MarkDirty(i)
  PROVE  TrackTypes'
<1>0. i \in DOMAIN changes
  BY DEF MarkDirty
<1>p. PICK p : p = changes[i].on
  OBVIOUS
<1>c. PICK c : c = [changes[i] EXCEPT !.idx = filters[p].cur.idx]
  OBVIOUS
<1>1. p \in Peers /\ filters[p] \in TrackFilters /\ filters[p].cur.idx \in Nat
  BY <1>0, <1>p, ChangeFacts, FilterFacts
<1>2. filters' = [filters EXCEPT ![p].cur.dirty = TRUE, ![p].unsaved = TRUE] /\ changes' = [changes EXCEPT ![i] = c]
  BY <1>p, <1>c DEF MarkDirty
<1>3. c \in ChangeRecords
  <2>1. filters[p].cur.idx \in Int
    BY <1>1, SMT
  <2>2. changes[i] \in ChangeRecords
    BY <1>0, ChangeFacts
  <2> QED BY <1>c, <1>1, <2>1, <2>2 DEF ChangeRecords
<1>4. changes' \in Seq(ChangeRecords)
  <2>1. changes \in Seq(ChangeRecords)
    BY DEF TrackTypes
  <2>2. changes' = [changes EXCEPT ![i] = c]
    BY <1>2
  <2>3. i \in 1..Len(changes)
    BY <1>0, ChangeFacts
  <2>4. [changes EXCEPT ![i] = c] \in Seq(ChangeRecords)
    BY ONLY <1>3, <2>1, <2>3, SMT
  <2> QED BY <2>2, <2>4
<1>5. filters' \in [Peers -> TrackFilters]
  <2>1. filters \in [Peers -> TrackFilters] /\ filters' = [filters EXCEPT ![p].cur.dirty = TRUE, ![p].unsaved = TRUE]
    BY <1>2 DEF TrackTypes
  <2> QED BY <1>1, <2>1 DEF TrackFilters, TrackEntries
<1> QED BY <1>4, <1>5 DEF TrackTypes, MarkDirty

LEMMA BeginCycleTypes ==
  ASSUME TrackTypes, BeginCycle
  PROVE  TrackTypes'
<1>f. PICK f : f = Cycled(filters[leader], cycle, Oldest(cycle))
  OBVIOUS
<1>1. leader \in Peers /\ cycle \in Nat /\ filters[leader] \in TrackFilters
  BY DEF TrackTypes
<1>2. filters' = [filters EXCEPT ![leader] = f]
  BY <1>f DEF BeginCycle
<1>3. PICK bf \in FilterFrom(f, Oldest(cycle), cycle) : scan' = [pc |-> "ask", left |-> Peers \ {leader}, bf |-> bf, due |-> Marked]
  BY <1>f DEF BeginCycle
<1>4. f \in TrackFilters
  BY <1>f, <1>1, CycledType
<1>5. filters' \in [Peers -> TrackFilters]
  BY <1>2, <1>4 DEF TrackTypes
<1>6. scan' \in ScanRecords
  <2>1. bf \in {"none", "dirty", "clean"}
    BY AnswerType
  <2>2. Marked \subseteq Nat
    BY ChangeFacts DEF Marked
  <2> QED BY <1>3, <2>1, <2>2 DEF ScanRecords
<1> QED BY <1>5, <1>6 DEF TrackTypes, BeginCycle

\* What asking a server changes.
LEMMA AskPeerFacts ==
  ASSUME TrackTypes, NEW p \in Peers, AskPeer(p), NEW f, f = Cycled(filters[p], cycle, Oldest(cycle))
  PROVE  /\ scan.pc = "ask" /\ p \in scan.left /\ f \in TrackFilters
         /\ filters' = filters \/ filters' = [filters EXCEPT ![p] = f]
         /\ scan' \in ScanRecords /\ scan'.pc = "ask" /\ scan'.left = scan.left \ {p} /\ scan'.due = scan.due
         /\ scan'.bf = "clean" => /\ scan.bf = "clean" /\ "clean" \in FilterFrom(f, Oldest(cycle), cycle)
                                  /\ filters' = [filters EXCEPT ![p] = f]
<1>1. filters[p] \in TrackFilters /\ cycle \in Nat /\ scan \in ScanRecords
  BY DEF TrackTypes
<1>2. f \in TrackFilters
  BY <1>1, CycledType
<1>3. scan.pc = "ask" /\ p \in scan.left /\ scan.bf \in {"none", "dirty", "clean"}
  BY <1>1 DEF AskPeer, ScanRecords
<1>4. CASE filters' = [filters EXCEPT ![p] = f] /\ \E a \in FilterFrom(f, Oldest(cycle), cycle) :
             scan' = [scan EXCEPT !.left = @ \ {p}, !.bf = Merged(@, a)]
  <2>1. PICK a \in FilterFrom(f, Oldest(cycle), cycle) : scan' = [scan EXCEPT !.left = @ \ {p}, !.bf = Merged(@, a)]
    BY <1>4
  <2>2. a \in {"none", "dirty", "clean"}
    BY <2>1, AnswerType
  <2>3. PICK b : b = Merged(scan.bf, a)
    OBVIOUS
  <2>4. b \in {"none", "dirty", "clean"} /\ (b = "clean" => scan.bf = "clean" /\ a = "clean")
    BY <1>3, <2>2, <2>3, MergedClean
  <2>5. scan' = [scan EXCEPT !.left = @ \ {p}, !.bf = b]
    BY <2>1, <2>3
  <2>6. scan' \in ScanRecords /\ scan'.pc = scan.pc /\ scan'.left = scan.left \ {p} /\ scan'.due = scan.due /\ scan'.bf = b
    BY <1>1, <2>4, <2>5 DEF ScanRecords
  <2> QED BY <1>2, <1>3, <1>4, <2>1, <2>4, <2>6
<1>5. CASE (filters' = filters \/ filters' = [filters EXCEPT ![p] = f])
           /\ scan' = [scan EXCEPT !.left = @ \ {p}, !.bf = Merged(@, "none")]
  <2>1. Merged(scan.bf, "none") = "none"
    BY <1>3, MergedClean
  <2>2. scan' = [scan EXCEPT !.left = @ \ {p}, !.bf = "none"]
    BY <1>5, <2>1
  <2>3. scan' \in ScanRecords /\ scan'.pc = scan.pc /\ scan'.left = scan.left \ {p} /\ scan'.due = scan.due /\ scan'.bf = "none"
    BY <1>1, <2>2 DEF ScanRecords
  <2> QED BY <1>2, <1>3, <1>5, <2>3
<1> QED BY <1>4, <1>5 DEF AskPeer

LEMMA AskPeerTypes ==
  ASSUME TrackTypes, NEW p \in Peers, AskPeer(p)
  PROVE  TrackTypes'
<1>f. PICK f : f = Cycled(filters[p], cycle, Oldest(cycle))
  OBVIOUS
<1>1. f \in TrackFilters /\ (filters' = filters \/ filters' = [filters EXCEPT ![p] = f]) /\ scan' \in ScanRecords
  BY <1>f, AskPeerFacts
<1>2. filters' \in [Peers -> TrackFilters]
  BY <1>1 DEF TrackTypes
<1> QED BY <1>1, <1>2 DEF TrackTypes, AskPeer

LEMMA ScanTypes ==
  ASSUME TrackTypes, ScanFolder \/ ScanSkipped \/ ScanFails \/ StoreCycle
  PROVE  TrackTypes'
<1>0. cycle \in Nat /\ storedCycle \in Nat /\ cycle + 1 \in Nat
  <2>1. cycle \in Nat
    BY DEF TrackTypes
  <2>2. cycle + 1 \in Nat
    BY <2>1, SMT
  <2> QED BY <2>1, <2>2 DEF TrackTypes
<1>1. CASE ScanFolder
  <2>1. \E q \in Nat, r \in 0..DirCycles - 1 : folderCycle' = q * DirCycles + r
    BY <1>1, WindowMoves DEF ScanFolder
  <2> QED BY <1>0, <1>1, <2>1, ScanAtRest DEF ScanFolder, TrackTypes
<1>2. CASE ScanSkipped
  BY <1>0, <1>2, ScanAtRest DEF ScanSkipped, TrackTypes
<1>3. CASE ScanFails
  BY <1>3, ScanAtRest DEF ScanFails, TrackTypes
<1>4. CASE StoreCycle
  BY <1>0, <1>4, ScanAtRest DEF StoreCycle, TrackTypes
<1> QED BY <1>1, <1>2, <1>3, <1>4

\* What a save changes.
LEMMA SaveFacts ==
  ASSUME TrackTypes, NEW p \in Peers, SaveFilters(p)
  PROVE  /\ filters' \in [Peers -> TrackFilters] /\ filterFiles' \in [Peers -> TrackFiles]
         /\ filters'[p].cur = filters[p].cur /\ filters'[p].hist = filters[p].hist
         /\ \A q \in Peers : q # p => filters'[q] = filters[q] /\ filterFiles'[q] = filterFiles[q]
         /\ filters[p].cur.idx # 0 =>
              \/ Loaded(filterFiles'[p]) = Loaded(filterFiles[p])
              \/ Loaded(filterFiles'[p]).cur = filters[p].cur /\ Loaded(filterFiles'[p]).hist = filters[p].hist
<1>0. /\ filters \in [Peers -> TrackFilters] /\ filterFiles \in [Peers -> TrackFiles] /\ filters[p] \in TrackFilters
      /\ filterFiles[p] \in TrackFiles /\ filters' = [filters EXCEPT ![p].unsaved = FALSE]
  BY DEF TrackTypes, SaveFilters
<1>1. PICK D \in SUBSET TrackDriveIds :
        filterFiles' = [filterFiles EXCEPT ![p] = [d \in TrackDriveIds |->
            IF d \in D THEN [cur |-> filters[p].cur, hist |-> filters[p].hist] ELSE @[d]]]
  BY DEF SaveFilters
<1>g. PICK g : g = [d \in TrackDriveIds |->
                      IF d \in D THEN [cur |-> filters[p].cur, hist |-> filters[p].hist] ELSE filterFiles[p][d]]
  OBVIOUS
<1>2. filterFiles' = [filterFiles EXCEPT ![p] = g]
  BY <1>1, <1>g
<1>3. g \in TrackFiles
  <2>1. [cur |-> filters[p].cur, hist |-> filters[p].hist] \in [cur : TrackEntries, hist : SUBSET TrackEntries]
    BY <1>0 DEF TrackFilters
  <2>2. \A d \in TrackDriveIds : filterFiles[p][d] \in [cur : TrackEntries, hist : SUBSET TrackEntries]
    BY <1>0 DEF TrackFiles
  <2> QED BY <1>g, <2>1, <2>2 DEF TrackFiles
<1>4. filters' \in [Peers -> TrackFilters] /\ filters'[p].cur = filters[p].cur /\ filters'[p].hist = filters[p].hist
      /\ \A q \in Peers : q # p => filters'[q] = filters[q]
  BY <1>0 DEF TrackFilters
<1>5. filterFiles' \in [Peers -> TrackFiles] /\ filterFiles'[p] = g /\ \A q \in Peers : q # p => filterFiles'[q] = filterFiles[q]
  BY <1>0, <1>2, <1>3
<1>6. ASSUME filters[p].cur.idx # 0
      PROVE  \/ Loaded(g) = Loaded(filterFiles[p])
             \/ Loaded(g).cur = filters[p].cur /\ Loaded(g).hist = filters[p].hist
  <2>1. \A d \in TrackDriveIds : g[d] = IF d \in D THEN [cur |-> filters[p].cur, hist |-> filters[p].hist] ELSE filterFiles[p][d]
    BY <1>g
  <2>2. \/ Loaded(g) = Loaded(filterFiles[p])
        \/ Loaded(g) = [cur |-> filters[p].cur, hist |-> filters[p].hist, unsaved |-> TRUE]
    <3>1. filters[p].cur \in TrackEntries /\ filters[p].hist \in SUBSET TrackEntries /\ filterFiles[p] \in TrackFiles
      BY <1>0 DEF TrackFilters
    <3> QED BY ONLY <1>3, <1>6, <2>1, <3>1, SavedIs, D \in SUBSET TrackDriveIds
  <2>3. Loaded(g) = [cur |-> filters[p].cur, hist |-> filters[p].hist, unsaved |-> TRUE]
          => Loaded(g).cur = filters[p].cur /\ Loaded(g).hist = filters[p].hist
    BY SMT
  <2> QED BY <2>2, <2>3
<1> QED BY <1>4, <1>5, <1>6

LEMMA SaveTypes ==
  ASSUME TrackTypes, NEW p \in Peers, SaveFilters(p)
  PROVE  TrackTypes'
<1>1. filters' \in [Peers -> TrackFilters] /\ filterFiles' \in [Peers -> TrackFiles]
  BY SaveFacts
<1> QED BY <1>1 DEF TrackTypes, SaveFilters

\* What a restart changes.
LEMMA RestartFacts ==
  ASSUME TrackTypes, NEW p \in Peers, RestartPeer(p)
  PROVE  /\ filters' \in [Peers -> TrackFilters] /\ filters'[p] = Loaded(filterFiles[p])
         /\ \A q \in Peers : q # p => filters'[q] = filters[q]
         /\ changes' \in Seq(ChangeRecords) /\ DOMAIN changes' = DOMAIN changes
         /\ \A i \in DOMAIN changes : changes'[i].on = changes[i].on /\ (changes[i].idx # 0 => changes'[i].idx = changes[i].idx)
         /\ Marked' = Marked
         /\ leader' \in Peers /\ cycle' \in Nat /\ scan' \in ScanRecords
<1>1. /\ filters' = [filters EXCEPT ![p] = Loaded(filterFiles[p])] /\ filters \in [Peers -> TrackFilters]
      /\ Loaded(filterFiles[p]) \in TrackFilters
  BY FilterFacts DEF RestartPeer, TrackTypes
<1>2. filters' \in [Peers -> TrackFilters] /\ filters'[p] = Loaded(filterFiles[p])
      /\ \A q \in Peers : q # p => filters'[q] = filters[q]
  BY <1>1
<1>3. changes' = [i \in DOMAIN changes |->
          IF changes[i].on = p /\ changes[i].idx = 0 THEN [changes[i] EXCEPT !.idx = -1] ELSE changes[i]]
  BY DEF RestartPeer
<1>4. DOMAIN changes' = DOMAIN changes /\ changes' = [i \in DOMAIN changes |-> changes'[i]]
  BY <1>3
<1>5. ASSUME NEW i \in DOMAIN changes
      PROVE  /\ changes'[i] \in ChangeRecords /\ changes'[i].on = changes[i].on
             /\ changes[i].idx # 0 => changes'[i].idx = changes[i].idx
             /\ changes[i].idx = 0 => changes'[i].idx = 0 \/ changes'[i].idx = -1
  <2>0. changes[i] \in ChangeRecords /\ -1 \in Int
    BY ChangeFacts, SMT
  <2>1. CASE changes[i].on = p /\ changes[i].idx = 0
    <3>1. changes'[i] = [changes[i] EXCEPT !.idx = -1]
      BY <1>3, <2>1
    <3> QED BY <2>0, <2>1, <3>1 DEF ChangeRecords
  <2>2. CASE ~(changes[i].on = p /\ changes[i].idx = 0)
    <3>1. changes'[i] = changes[i]
      BY <1>3, <2>2
    <3> QED BY <2>0, <3>1
  <2> QED BY <2>1, <2>2
<1>6. changes' \in Seq(ChangeRecords)
  <2>1. DOMAIN changes = 1..Len(changes) /\ Len(changes) \in Nat
    BY ChangeFacts
  <2>2. changes' \in [1..Len(changes) -> ChangeRecords]
    BY <1>4, <1>5, <2>1
  <2>3. Len(changes) \in Nat
    BY <2>1
  <2> QED BY ONLY <2>2, <2>3, SMT
<1>7. Marked' = Marked
  <2>1. ASSUME NEW i \in DOMAIN changes PROVE changes'[i].idx > 0 <=> changes[i].idx > 0
    <3>1. ~(0 > 0) /\ ~(-1 > 0)
      BY SMT
    <3> QED BY <1>5, <3>1
  <2> QED BY <1>4, <2>1 DEF Marked
<1>8. leader' \in Peers /\ cycle' \in Nat /\ scan' \in ScanRecords
  <2>1. CASE p # leader
    BY <2>1 DEF RestartPeer, TrackTypes
  <2>2. CASE p = leader
    <3>1. leader' \in Peers /\ scan' = AtRest /\ cycle' = IF storedCycle # 0 THEN storedCycle ELSE filters'[leader'].cur.idx + 1
      BY <2>2 DEF RestartPeer
    <3>2. storedCycle \in Nat
      BY DEF TrackTypes
    <3>3. filters'[leader'].cur.idx \in Nat
      BY <1>2, <3>1 DEF TrackFilters, TrackEntries
    <3>4. filters'[leader'].cur.idx + 1 \in Nat
      BY ONLY <3>3, SMT
    <3> QED BY <3>1, <3>2, <3>4, ScanAtRest
  <2> QED BY <2>1, <2>2
<1> QED BY <1>2, <1>4, <1>5, <1>6, <1>7, <1>8

LEMMA TypesStep ==
  ASSUME TrackTypes, [TrackNext]_trackVars
  PROVE  TrackTypes'
<1>1. ASSUME NEW p \in Peers, RestartPeer(p) PROVE TrackTypes'
  <2>1. /\ filters' \in [Peers -> TrackFilters] /\ changes' \in Seq(ChangeRecords)
        /\ leader' \in Peers /\ cycle' \in Nat /\ scan' \in ScanRecords
    BY <1>1, RestartFacts
  <2> QED BY <1>1, <2>1 DEF TrackTypes, RestartPeer
<1>2. CASE UNCHANGED trackVars
  BY <1>2 DEF trackVars, TrackTypes
<1> QED BY <1>1, <1>2, StoreChangeTypes, MarkDirtyTypes, BeginCycleTypes, AskPeerTypes, ScanTypes, SaveTypes DEF TrackNext

-----------------------------------------------------------------------------
(* Steps of the filters.                                                      *)

\* A server has no filters of new cycles.
Shrinks(p) ==
  /\ filters[p].cur.idx <= filters'[p].cur.idx
  /\ \A e \in Entries(filters'[p]) : \E g \in Entries(filters[p]) : g.idx = e.idx /\ (g.dirty => e.dirty)
  /\ \A e \in Entries(Loaded(filterFiles'[p])) :
       \E g \in Entries(Loaded(filterFiles[p])) \cup Entries(filters[p]) : g.idx = e.idx

\* Or one of the current cycle.
Evolves(p) ==
  /\ filters[p].cur.idx <= filters'[p].cur.idx
  /\ \A e \in Entries(filters'[p]) : \/ \E g \in Entries(filters[p]) : g.idx = e.idx /\ (g.dirty => e.dirty)
                                     \/ e.idx > filters[p].cur.idx /\ e.idx = cycle
  /\ \A e \in Entries(Loaded(filterFiles'[p])) :
       \E g \in Entries(Loaded(filterFiles[p])) \cup Entries(filters[p]) : g.idx = e.idx

LEMMA ShrinksEvolves == \A p : Shrinks(p) => Evolves(p)
BY DEF Shrinks, Evolves

LEMMA SameShrinks ==
  ASSUME TrackTypes, NEW p \in Peers, filters'[p] = filters[p], filterFiles'[p] = filterFiles[p]
  PROVE  Shrinks(p)
<1>1. filters[p].cur.idx <= filters[p].cur.idx
  <2>1. filters[p].cur.idx \in Nat
    BY FilterFacts
  <2> QED BY <2>1, SMT
<1> QED BY <1>1 DEF Shrinks

LEMMA UnknownKept ==
  ASSUME NEW p \in Peers, Shrinks(p), NEW m, NEW h, Unknown(p, m, h)
  PROVE  Unknown(p, m, h)'
<1>1. NoneIn(filters'[p], m, h)
  BY DEF Unknown, NoneIn, Shrinks
<1>2. NoneIn(Loaded(filterFiles'[p]), m, h)
  BY DEF Unknown, NoneIn, Shrinks
<1> QED BY <1>1, <1>2 DEF Unknown

LEMMA PendingFacts ==
  ASSUME TrackTypes, NEW i \in Pending
  PROVE  /\ i \in Marked /\ i \in DOMAIN changes /\ changes[i].on \in Peers /\ changes[i].idx \in Nat /\ changes[i].idx # 0
         /\ i \in unseen /\ i \notin lostMarks
<1>1. i \in Marked /\ i \in unseen /\ i \notin lostMarks
  BY DEF Pending
<1>2. i \in DOMAIN changes /\ changes[i].on \in Peers /\ changes[i].idx \in Int /\ changes[i].idx > 0
  BY <1>1, ChangeFacts
<1>3. changes[i].idx \in Nat /\ changes[i].idx # 0
  BY ONLY <1>2, SMT
<1> QED BY <1>1, <1>2, <1>3

LEMMA MarkKept ==
  ASSUME TrackTypes, TrackTypes', NEW i \in Marked, MarkThere(i), Evolves(changes[i].on),
         changes'[i].on = changes[i].on, changes'[i].idx = changes[i].idx
  PROVE  MarkThere(i)'
<1> PICK p, m : p = changes[i].on /\ m = changes[i].idx
  OBVIOUS
<1>0. p \in Peers /\ m \in Int /\ changes'[i].on = p /\ changes'[i].idx = m
  BY ChangeFacts
<1>1. filters[p].cur.idx \in Nat /\ filters'[p].cur.idx \in Nat
  <2>1. filters'[p] \in TrackFilters
    BY <1>0 DEF TrackTypes
  <2> QED BY <1>0, <2>1, FilterFacts DEF TrackFilters, TrackEntries
<1>2. m <= filters[p].cur.idx /\ filters[p].cur.idx <= filters'[p].cur.idx
  BY DEF MarkThere, Evolves
<1>3. m <= filters'[p].cur.idx
  BY ONLY <1>0, <1>1, <1>2, SMT
<1>4. ASSUME NEW e \in Entries(filters'[p]), e.idx = m PROVE e.dirty
  <2>1. CASE \E g \in Entries(filters[p]) : g.idx = e.idx /\ (g.dirty => e.dirty)
    BY <1>4, <2>1 DEF MarkThere
  <2>2. CASE e.idx > filters[p].cur.idx /\ e.idx = cycle
    BY ONLY <1>0, <1>1, <1>2, <1>4, <2>2, SMT
  <2> QED BY <2>1, <2>2 DEF Evolves
<1> QED BY <1>0, <1>3, <1>4 DEF MarkThere

LEMMA OneKept ==
  ASSUME TrackTypes, TrackTypes', NEW i \in Pending, FindableOne(i), Evolves(changes[i].on),
         changes'[i].on = changes[i].on, changes'[i].idx = changes[i].idx,
         WindowStart' \in Int, WindowStart' <= WindowStart
  PROVE  FindableOne(i)'
<1> PICK p, m, v : p = changes[i].on /\ m = changes[i].idx /\ v = WindowStart'
  OBVIOUS
<1>0. /\ p \in Peers /\ m \in Nat /\ changes'[i].on = p /\ changes'[i].idx = m /\ i \in Marked
      /\ WindowStart \in Int /\ v \in Int /\ WindowStart < cycle /\ cycle \in Nat /\ v <= WindowStart
  BY PendingFacts, WindowFacts
<1>1. MarkThere(i)'
  BY <1>0, MarkKept DEF FindableOne
<1>4. ASSUME NEW e \in Entries(filters'[p]) PROVE e.idx <= m \/ e.idx > v
  <2>1. CASE \E g \in Entries(filters[p]) : g.idx = e.idx
    <3>1. PICK g \in Entries(filters[p]) : g.idx = e.idx
      BY <2>1
    <3>2. g.idx <= m \/ g.idx > WindowStart
      BY DEF FindableOne, Unknown, NoneIn
    <3>3. g.idx \in Nat
      BY <1>0, FilterFacts
    <3>4. g.idx > WindowStart => g.idx > v
      BY ONLY <1>0, <3>3, SMT
    <3> QED BY <3>1, <3>2, <3>4
  <2>2. CASE e.idx = cycle
    <3>1. e.idx > v
      BY ONLY <1>0, <2>2, SMT
    <3> QED BY <3>1
  <2> QED BY <2>1, <2>2 DEF Evolves
<1>5. ASSUME NEW e \in Entries(Loaded(filterFiles'[p])) PROVE e.idx <= m \/ e.idx > v
  <2>1. PICK g \in Entries(Loaded(filterFiles[p])) \cup Entries(filters[p]) : g.idx = e.idx
    BY <1>5 DEF Evolves
  <2>2. g.idx <= m \/ g.idx > WindowStart
    BY <2>1 DEF FindableOne, Unknown, NoneIn
  <2>3. g.idx \in Nat
    BY <1>0, <2>1, FilterFacts
  <2>4. g.idx > WindowStart => g.idx > v
    BY ONLY <1>0, <2>3, SMT
  <2> QED BY <2>1, <2>2, <2>4
<1> QED BY <1>0, <1>1, <1>4, <1>5 DEF FindableOne, Unknown, NoneIn

LEMMA SameWindow ==
  ASSUME TrackTypes, cycle' = cycle, folderCycle' = folderCycle
  PROVE  WindowStart' = WindowStart /\ WindowStart' \in Int /\ WindowStart' <= WindowStart /\ (Turn' <=> Turn)
<1>1. WindowStart' = WindowStart /\ (Turn' <=> Turn)
  BY DEF WindowStart, Turn
<1>2. WindowStart \in Int /\ WindowStart <= WindowStart
  BY WindowFacts, SMT
<1> QED BY <1>1, <1>2

\* A step that changes no cycle and adds no filter of a new cycle.
LEMMA ShrinkingStep ==
  ASSUME TrackTypes, TrackTypes', TrackRest, cycle' = cycle, folderCycle' = folderCycle, scan' = scan,
         FiltersOrdered', \A p \in Peers : Shrinks(p), missed' = missed, lostMarks \subseteq lostMarks',
         Marked \subseteq Marked', Pending' \subseteq Pending,
         \A i \in Pending' : changes'[i].on = changes[i].on /\ changes'[i].idx = changes[i].idx
  PROVE  TrackRest'
<1>0. Findable /\ AnswersHold /\ scan.due \subseteq Marked /\ missed \subseteq lostMarks
  BY DEF TrackRest
<1>1. Findable'
  <2> SUFFICES ASSUME NEW i \in Pending' PROVE FindableOne(i)'
    BY DEF Findable
  <2>1. i \in Pending /\ FindableOne(i) /\ changes[i].on \in Peers
    BY <1>0, PendingFacts DEF Findable
  <2> QED BY <2>1, OneKept, ShrinksEvolves, SameWindow
<1>2. AnswersHold'
  <2> SUFFICES ASSUME scan.pc = "ask", Turn, scan.bf = "clean", NEW i \in Pending', changes[i].on \notin scan.left
               PROVE  i \notin scan.due /\ Unknown(changes[i].on, changes[i].idx, cycle)'
    <3>1. Turn' <=> Turn
      BY SameWindow
    <3> QED BY <3>1 DEF AnswersHold
  <2> PICK p, m, h : p = changes[i].on /\ m = changes[i].idx /\ h = cycle
    OBVIOUS
  <2>1. i \notin scan.due /\ Unknown(p, m, h) /\ p \in Peers
    BY <1>0, PendingFacts DEF AnswersHold
  <2>2. Unknown(p, m, h)'
    BY <2>1, UnknownKept
  <2>3. changes'[i].on = p /\ changes'[i].idx = m /\ cycle' = h
    OBVIOUS
  <2> QED BY <2>1, <2>2, <2>3 DEF Unknown
<1> QED BY <1>0, <1>1, <1>2 DEF TrackRest

LEMMA StoreChangeOK ==
  ASSUME TrackTypes, TrackTypes', TrackRest, NEW p \in Peers, StoreChange(p)
  PROVE  TrackRest'
<1>0. /\ filters' = filters /\ filterFiles' = filterFiles /\ cycle' = cycle /\ folderCycle' = folderCycle /\ scan' = scan
      /\ missed' = missed /\ lostMarks' = lostMarks /\ unseen' = unseen \cup {Len(changes) + 1}
  BY DEF StoreChange
<1>c. PICK c : c = [on |-> p, idx |-> 0]
  OBVIOUS
<1>1. changes' = Append(changes, c) /\ c \in ChangeRecords /\ c.idx = 0
  <2>1. 0 \in Int
    BY SMT
  <2> QED BY <1>c, <2>1 DEF StoreChange, ChangeRecords
<1>2. /\ DOMAIN changes' = DOMAIN changes \cup {Len(changes) + 1} /\ Len(changes) + 1 \notin DOMAIN changes
      /\ \A i \in DOMAIN changes : changes'[i] = changes[i]
      /\ changes'[Len(changes) + 1] = c
  <2>1. changes \in Seq(ChangeRecords)
    BY DEF TrackTypes
  <2> QED BY ONLY <1>1, <2>1, SMT
<1>3. Marked' = Marked
  <2>1. ~(0 > 0)
    BY SMT
  <2> QED BY <1>1, <1>2, <2>1 DEF Marked
<1>4. Pending' = Pending /\ \A i \in Pending' : changes'[i].on = changes[i].on /\ changes'[i].idx = changes[i].idx
  <2>1. Len(changes) + 1 \notin Marked
    BY <1>2 DEF Marked
  <2>2. Pending' = Pending
    BY <1>0, <1>3, <2>1 DEF Pending
  <2> QED BY <1>2, <2>2, PendingFacts
<1>5. \A q \in Peers : Shrinks(q)
  BY <1>0, SameShrinks
<1>6. FiltersOrdered'
  BY <1>0 DEF FiltersOrdered, TrackRest
<1> QED BY <1>0, <1>3, <1>4, <1>5, <1>6, ShrinkingStep

LEMMA SaveOrdered ==
  ASSUME TrackTypes, FiltersOrdered, NEW p \in Peers, SaveFilters(p)
  PROVE  FiltersOrdered' /\ \A q \in Peers : Shrinks(q)
<1>0. cycle' = cycle
  BY DEF SaveFilters
<1>1. filters[p].cur.idx >= 1 /\ filters[p].cur.idx \in Nat
  BY FilterFacts DEF FiltersOrdered, Ordered
<1>2. filters[p].cur.idx # 0 /\ filters[p].cur.idx <= filters[p].cur.idx
  BY <1>1, SMT
<1>3. /\ filters'[p].cur = filters[p].cur /\ filters'[p].hist = filters[p].hist
      /\ \A q \in Peers : q # p => filters'[q] = filters[q] /\ filterFiles'[q] = filterFiles[q]
      /\ \/ Loaded(filterFiles'[p]) = Loaded(filterFiles[p])
         \/ Loaded(filterFiles'[p]).cur = filters[p].cur /\ Loaded(filterFiles'[p]).hist = filters[p].hist
  BY <1>2, SaveFacts
<1>4. ASSUME NEW q \in Peers PROVE Shrinks(q)
  <2>1. CASE q # p
    BY <1>3, <2>1, SameShrinks
  <2>2. CASE q = p
    BY <1>2, <1>3, <2>2 DEF Shrinks, Entries
  <2> QED BY <2>1, <2>2
<1>5. FiltersOrdered'
  <2> SUFFICES ASSUME NEW q \in Peers
               PROVE  /\ Ordered(filters'[q]) /\ Ordered(Loaded(filterFiles'[q]))
                      /\ Loaded(filterFiles'[q]).cur.idx <= filters'[q].cur.idx /\ filters'[q].cur.idx <= cycle
    BY <1>0 DEF FiltersOrdered
  <2>1. CASE q # p
    BY <1>3, <2>1 DEF FiltersOrdered
  <2>2. CASE q = p
    <3>1. /\ Ordered(filters[p]) /\ Ordered(Loaded(filterFiles[p]))
          /\ Loaded(filterFiles[p]).cur.idx <= filters[p].cur.idx /\ filters[p].cur.idx <= cycle
      BY DEF FiltersOrdered
    <3>2. Ordered(filters'[p]) /\ filters'[p].cur.idx <= cycle
      BY ONLY <1>3, <3>1, Zenon DEF Ordered
    <3>3. Ordered(Loaded(filterFiles'[p])) /\ Loaded(filterFiles'[p]).cur.idx <= filters'[p].cur.idx
      BY ONLY <1>2, <1>3, <3>1, Zenon DEF Ordered
    <3> QED BY <2>2, <3>2, <3>3
  <2> QED BY <2>1, <2>2
<1> QED BY <1>4, <1>5

LEMMA SaveOK ==
  ASSUME TrackTypes, TrackTypes', TrackRest, NEW p \in Peers, SaveFilters(p)
  PROVE  TrackRest'
<1>0. /\ cycle' = cycle /\ folderCycle' = folderCycle /\ scan' = scan /\ changes' = changes
      /\ missed' = missed /\ lostMarks' = lostMarks /\ unseen' = unseen
  BY DEF SaveFilters
<1>1. FiltersOrdered' /\ \A q \in Peers : Shrinks(q)
  BY SaveOrdered DEF TrackRest
<1>2. Pending' = Pending /\ Marked' = Marked
  BY <1>0 DEF Pending, Marked
<1> QED BY <1>0, <1>1, <1>2, ShrinkingStep

\* Nothing of a server is of a later cycle than its current filter.
LEMMA NothingLater ==
  ASSUME TrackTypes, FiltersOrdered, NEW p \in Peers, NEW h
  PROVE  Unknown(p, filters[p].cur.idx, h)
<1>1. /\ Ordered(filters[p]) /\ Ordered(Loaded(filterFiles[p])) /\ Loaded(filterFiles[p]).cur.idx <= filters[p].cur.idx
  BY DEF FiltersOrdered
<1>2. ASSUME NEW e \in Entries(filters[p]) PROVE e.idx <= filters[p].cur.idx
  <2>1. e.idx \in Nat /\ filters[p].cur.idx \in Nat
    BY FilterFacts
  <2>2. e.idx = filters[p].cur.idx \/ e.idx < filters[p].cur.idx
    BY <1>1 DEF Entries, Ordered
  <2> QED BY ONLY <2>1, <2>2, SMT
<1>3. ASSUME NEW e \in Entries(Loaded(filterFiles[p])) PROVE e.idx <= filters[p].cur.idx
  <2>1. e.idx \in Nat /\ filters[p].cur.idx \in Nat /\ Loaded(filterFiles[p]).cur.idx \in Nat
    BY FilterFacts
  <2>2. e.idx = Loaded(filterFiles[p]).cur.idx \/ e.idx < Loaded(filterFiles[p]).cur.idx
    BY <1>1 DEF Entries, Ordered
  <2>3. Loaded(filterFiles[p]).cur.idx <= filters[p].cur.idx
    BY <1>1
  <2> QED BY ONLY <2>1, <2>2, <2>3, SMT
<1> QED BY <1>2, <1>3 DEF Unknown, NoneIn

LEMMA MarkDirtyFacts ==
  ASSUME TrackTypes, NEW i, MarkDirty(i)
  PROVE  \E p \in Peers :
           /\ i \in DOMAIN changes /\ changes[i].idx = 0
           /\ filters'[p].cur.idx = filters[p].cur.idx /\ filters'[p].cur.dirty = TRUE /\ filters'[p].hist = filters[p].hist
           /\ \A q \in Peers : q # p => filters'[q] = filters[q]
           /\ DOMAIN changes' = DOMAIN changes /\ \A j \in DOMAIN changes : j # i => changes'[j] = changes[j]
           /\ changes'[i].on = p /\ changes'[i].idx = filters[p].cur.idx
<1>0. PICK p : p = changes[i].on
  OBVIOUS
<1>1. i \in DOMAIN changes /\ changes[i].idx = 0 /\ p \in Peers
  BY <1>0, ChangeFacts DEF MarkDirty
<1>2. filters' = [filters EXCEPT ![p].cur.dirty = TRUE, ![p].unsaved = TRUE]
  BY <1>0 DEF MarkDirty
<1>3. filters \in [Peers -> TrackFilters] /\ changes \in Seq(ChangeRecords)
  BY DEF TrackTypes
<1>4. PICK c : c = [changes[i] EXCEPT !.idx = filters[p].cur.idx]
  OBVIOUS
<1>5. changes' = [changes EXCEPT ![i] = c]
  BY <1>0, <1>4 DEF MarkDirty
<1>6. c.on = p /\ c.idx = filters[p].cur.idx
  <2>1. changes[i] \in ChangeRecords
    BY <1>1, ChangeFacts
  <2> QED BY <1>0, <1>4, <2>1 DEF ChangeRecords
<1>7. /\ filters'[p].cur.idx = filters[p].cur.idx /\ filters'[p].cur.dirty = TRUE /\ filters'[p].hist = filters[p].hist
      /\ \A q \in Peers : q # p => filters'[q] = filters[q]
  BY ONLY <1>1, <1>2, <1>3, SMT DEF TrackFilters, TrackEntries
<1>8. DOMAIN changes' = DOMAIN changes /\ changes'[i] = c /\ \A j \in DOMAIN changes : j # i => changes'[j] = changes[j]
  BY ONLY <1>1, <1>3, <1>5, Zenon
<1> QED BY <1>1, <1>6, <1>7, <1>8

LEMMA MarkDirtyOrdered ==
  ASSUME TrackTypes, FiltersOrdered, NEW i, MarkDirty(i)
  PROVE  FiltersOrdered' /\ \A q \in Peers : Shrinks(q)
<1>1. PICK p \in Peers :
        /\ i \in DOMAIN changes /\ changes[i].idx = 0
        /\ filters'[p].cur.idx = filters[p].cur.idx /\ filters'[p].cur.dirty = TRUE /\ filters'[p].hist = filters[p].hist
        /\ \A q \in Peers : q # p => filters'[q] = filters[q]
        /\ DOMAIN changes' = DOMAIN changes /\ \A j \in DOMAIN changes : j # i => changes'[j] = changes[j]
        /\ changes'[i].on = p /\ changes'[i].idx = filters[p].cur.idx
  BY MarkDirtyFacts
<1>2. filterFiles' = filterFiles /\ cycle' = cycle
  BY DEF MarkDirty
<1>6. ASSUME NEW q \in Peers PROVE Shrinks(q)
  <2>1. CASE q # p
    BY <1>1, <1>2, <2>1, SameShrinks
  <2>2. CASE q = p
    <3>1. filters[p].cur.idx <= filters'[p].cur.idx
      <4>1. filters[p].cur.idx \in Nat
        BY <1>1, FilterFacts
      <4> QED BY ONLY <1>1, <4>1, SMT
    <3>2. ASSUME NEW e \in Entries(filters'[p]) PROVE \E g \in Entries(filters[p]) : g.idx = e.idx /\ (g.dirty => e.dirty)
      BY <1>1 DEF Entries
    <3>3. Loaded(filterFiles'[p]) = Loaded(filterFiles[p])
      BY <1>2
    <3> QED BY <2>2, <3>1, <3>2, <3>3 DEF Shrinks
  <2> QED BY <2>1, <2>2
<1>7. FiltersOrdered'
  <2> SUFFICES ASSUME NEW q \in Peers
               PROVE  /\ Ordered(filters'[q]) /\ Ordered(Loaded(filterFiles[q]))
                      /\ Loaded(filterFiles[q]).cur.idx <= filters'[q].cur.idx /\ filters'[q].cur.idx <= cycle
    BY <1>2 DEF FiltersOrdered
  <2>1. /\ Ordered(filters[q]) /\ Ordered(Loaded(filterFiles[q]))
        /\ Loaded(filterFiles[q]).cur.idx <= filters[q].cur.idx /\ filters[q].cur.idx <= cycle
    BY DEF FiltersOrdered
  <2>2. filters'[q].cur.idx = filters[q].cur.idx /\ filters'[q].hist = filters[q].hist
    BY <1>1
  <2> QED BY ONLY <2>1, <2>2, Zenon DEF Ordered
<1> QED BY <1>6, <1>7

LEMMA MarkDirtyOK ==
  ASSUME TrackTypes, TrackTypes', TrackRest, NEW i, MarkDirty(i)
  PROVE  TrackRest'
<1>1. PICK p \in Peers :
        /\ i \in DOMAIN changes /\ changes[i].idx = 0
        /\ filters'[p].cur.idx = filters[p].cur.idx /\ filters'[p].cur.dirty = TRUE /\ filters'[p].hist = filters[p].hist
        /\ \A q \in Peers : q # p => filters'[q] = filters[q]
        /\ DOMAIN changes' = DOMAIN changes /\ \A j \in DOMAIN changes : j # i => changes'[j] = changes[j]
        /\ changes'[i].on = p /\ changes'[i].idx = filters[p].cur.idx
  BY MarkDirtyFacts
<1>2. /\ filterFiles' = filterFiles /\ cycle' = cycle /\ folderCycle' = folderCycle /\ scan' = scan
      /\ unseen' = unseen /\ missed' = missed /\ lostMarks' = lostMarks
  BY DEF MarkDirty
<1>3. FiltersOrdered /\ Findable /\ AnswersHold /\ scan.due \subseteq Marked /\ missed \subseteq lostMarks
  BY DEF TrackRest
<1>4. i \notin Marked /\ Marked \subseteq Marked' /\ Marked' \subseteq Marked \cup {i}
  <2>1. ~(0 > 0)
    BY SMT
  <2>2. i \notin Marked
    BY <1>1, <2>1 DEF Marked
  <2> QED BY <1>1, <2>2 DEF Marked
<1>5. Pending' \subseteq Pending \cup {i} /\ i \notin Pending
  BY <1>2, <1>4 DEF Pending
<1>6. \A q \in Peers : Shrinks(q)
  BY <1>3, MarkDirtyOrdered
<1>7. FiltersOrdered'
  BY <1>3, MarkDirtyOrdered
<1>9. Findable'
  <2> SUFFICES ASSUME NEW j \in Pending' PROVE FindableOne(j)'
    BY DEF Findable
  <2>1. CASE j # i
    <3>1. j \in Pending /\ FindableOne(j) /\ changes[j].on \in Peers /\ changes'[j] = changes[j]
      BY <1>1, <1>3, <1>5, <2>1, PendingFacts DEF Findable
    <3> QED BY <1>2, <1>6, <3>1, OneKept, ShrinksEvolves, SameWindow
  <2>2. CASE j = i
    <3>1. ASSUME NEW e \in Entries(filters'[p]), e.idx = filters[p].cur.idx PROVE e.dirty
      <4>1. CASE e \in filters[p].hist
        <5>1. e.idx < filters[p].cur.idx
          BY <1>1, <1>3, <4>1 DEF FiltersOrdered, Ordered
        <5>2. filters[p].cur.idx \in Nat
          BY <1>1, FilterFacts
        <5> QED BY ONLY <3>1, <5>1, <5>2, SMT
      <4>2. CASE e = filters'[p].cur
        BY <1>1, <4>2
      <4> QED BY <1>1, <4>1, <4>2 DEF Entries
    <3>2. filters[p].cur.idx <= filters'[p].cur.idx
      BY <1>1, <1>6 DEF Shrinks
    <3>3. NoneIn(filters'[p], filters[p].cur.idx, WindowStart') /\ NoneIn(Loaded(filterFiles'[p]), filters[p].cur.idx, WindowStart')
      <4> PICK w : w = WindowStart'
        OBVIOUS
      <4>1. NoneIn(filters[p], filters[p].cur.idx, w) /\ NoneIn(Loaded(filterFiles[p]), filters[p].cur.idx, w)
        BY <1>1, <1>3, NothingLater DEF Unknown
      <4>2. Shrinks(p)
        BY <1>1, <1>6
      <4>3. NoneIn(filters'[p], filters[p].cur.idx, w) /\ NoneIn(Loaded(filterFiles'[p]), filters[p].cur.idx, w)
        BY <4>1, <4>2 DEF NoneIn, Shrinks
      <4> QED BY <4>3
    <3> QED BY <1>1, <2>2, <3>1, <3>2, <3>3 DEF FindableOne, MarkThere, Unknown
  <2> QED BY <2>1, <2>2
<1>10. AnswersHold'
  <2>0. Turn' <=> Turn
    BY <1>2, SameWindow
  <2> SUFFICES ASSUME scan.pc = "ask", Turn, scan.bf = "clean", NEW j \in Pending', changes'[j].on \notin scan.left
               PROVE  j \notin scan.due /\ Unknown(changes[j].on, changes[j].idx, cycle)'
    BY <1>2, <2>0 DEF AnswersHold
  <2>1. CASE j # i
    <3> PICK q, m, h : q = changes[j].on /\ m = changes[j].idx /\ h = cycle
      OBVIOUS
    <3>0. j \in Pending /\ changes'[j] = changes[j]
      BY <1>1, <1>5, <2>1, PendingFacts
    <3>1. j \notin scan.due /\ Unknown(q, m, h) /\ q \in Peers
      BY <1>3, <3>0, PendingFacts DEF AnswersHold
    <3>2. Unknown(q, m, h)'
      BY <1>6, <3>1, UnknownKept
    <3>3. changes'[j].on = q /\ changes'[j].idx = m /\ cycle' = h
      BY <1>2, <3>0
    <3> QED BY <3>1, <3>2, <3>3 DEF Unknown
  <2>2. CASE j = i
    <3>1. i \notin scan.due
      BY <1>3, <1>4
    <3> PICK m, h : m = filters[p].cur.idx /\ h = cycle
      OBVIOUS
    <3>2. Unknown(p, m, h)
      BY <1>1, <1>3, NothingLater
    <3>3. Unknown(p, m, h)'
      BY <1>1, <1>6, <3>2, UnknownKept
    <3>4. changes'[i].on = p /\ changes'[i].idx = m /\ cycle' = h
      BY <1>1, <1>2
    <3> QED BY <2>2, <3>1, <3>3, <3>4 DEF Unknown
  <2> QED BY <2>1, <2>2
<1>11. scan'.due \subseteq Marked' /\ missed' \subseteq lostMarks'
  BY <1>2, <1>3, <1>4
<1> QED BY <1>7, <1>9, <1>10, <1>11 DEF TrackRest

LEMMA CycleEvolves ==
  ASSUME TrackTypes, FiltersOrdered, NEW p \in Peers, NEW f, f = Cycled(filters[p], cycle, Oldest(cycle)),
         filters' = filters \/ filters' = [filters EXCEPT ![p] = f], filterFiles' = filterFiles, cycle' = cycle
  PROVE  /\ FiltersOrdered' /\ \A q \in Peers : Evolves(q) /\ (q # p => filters'[q] = filters[q])
<1>1. \A q \in Peers : (q # p => filters'[q] = filters[q]) /\ (filters'[q] = filters[q] \/ (q = p /\ filters'[q] = f))
  <2>1. filters \in [Peers -> TrackFilters]
    BY DEF TrackTypes
  <2>2. CASE filters' = filters
    BY ONLY <2>2, Zenon
  <2>3. CASE filters' = [filters EXCEPT ![p] = f]
    BY ONLY <2>1, <2>3, Zenon
  <2> QED BY <2>2, <2>3
<1>2. /\ Ordered(f) /\ f.cur.idx = cycle
      /\ \A e \in Entries(f) : e \in Entries(filters[p]) \/ (e.idx = cycle /\ filters[p].cur.idx < cycle)
  <2>1. filters[p] \in TrackFilters /\ cycle \in Nat
    BY DEF TrackTypes
  <2>2. Ordered(filters[p]) /\ filters[p].cur.idx <= cycle
    BY DEF FiltersOrdered
  <2>3. \A g : g = Cycled(filters[p], cycle, Oldest(cycle)) =>
                /\ Ordered(g) /\ g.cur.idx = cycle
                /\ \A e \in Entries(g) : e \in Entries(filters[p]) \/ (e.idx = cycle /\ filters[p].cur.idx < cycle)
    BY ONLY <2>1, <2>2, CycledFacts, Zenon
  <2> QED BY ONLY f = Cycled(filters[p], cycle, Oldest(cycle)), <2>3, Zenon
<1>3. ASSUME NEW q \in Peers PROVE Evolves(q)
  <2>1. CASE filters'[q] = filters[q]
    BY <2>1, SameShrinks, ShrinksEvolves
  <2>2. CASE q = p /\ filters'[q] = f
    <3>1. filters[p].cur.idx <= filters'[p].cur.idx
      BY <1>2, <2>2 DEF FiltersOrdered
    <3>2. ASSUME NEW e \in Entries(filters'[p]), e \notin Entries(filters[p])
          PROVE  e.idx > filters[p].cur.idx /\ e.idx = cycle
      <4>1. e.idx = cycle /\ filters[p].cur.idx < cycle
        BY <1>2, <2>2, <3>2
      <4>2. filters[p].cur.idx \in Nat /\ cycle \in Nat
        BY FilterFacts DEF TrackTypes
      <4> QED BY ONLY <4>1, <4>2, SMT
    <3> QED BY <2>2, <3>1, <3>2 DEF Evolves
  <2> QED BY <1>1, <2>1, <2>2
<1>4. FiltersOrdered'
  <2> SUFFICES ASSUME NEW q \in Peers
               PROVE  /\ Ordered(filters'[q]) /\ Ordered(Loaded(filterFiles[q]))
                      /\ Loaded(filterFiles[q]).cur.idx <= filters'[q].cur.idx /\ filters'[q].cur.idx <= cycle
    BY DEF FiltersOrdered
  <2>1. /\ Ordered(filters[q]) /\ Ordered(Loaded(filterFiles[q]))
        /\ Loaded(filterFiles[q]).cur.idx <= filters[q].cur.idx /\ filters[q].cur.idx <= cycle
    BY DEF FiltersOrdered
  <2>2. CASE filters'[q] = filters[q]
    BY <2>1, <2>2
  <2>3. CASE q = p /\ filters'[q] = f
    <3>1. Loaded(filterFiles[q]).cur.idx \in Nat /\ filters[q].cur.idx \in Nat /\ cycle \in Nat
      BY FilterFacts DEF TrackTypes
    <3>2. Loaded(filterFiles[q]).cur.idx <= cycle /\ cycle <= cycle
      BY ONLY <2>1, <3>1, SMT
    <3> QED BY <1>2, <2>1, <2>3, <3>2
  <2> QED BY <1>1, <2>2, <2>3
<1> QED BY <1>1, <1>3, <1>4

\* A server with a pending change does not answer that nothing changed.
LEMMA NoCleanAnswer ==
  ASSUME TrackTypes, TrackTypes', Turn, cycle' = cycle, folderCycle' = folderCycle, changes' = changes,
         NEW i \in Pending, FindableOne(i)', FiltersOrdered, filters[changes[i].on].cur.idx <= cycle, FindableOne(i)
  PROVE  "clean" \notin FilterFrom(filters'[changes[i].on], Oldest(cycle), cycle)
<1>1. PICK g, m : g = filters'[changes[i].on] /\ m = changes[i].idx
  OBVIOUS
<1>2. changes[i].on \in Peers /\ m \in Nat /\ m # 0
  BY <1>1, PendingFacts
<1>3. g \in TrackFilters
  BY <1>1, <1>2 DEF TrackTypes
<1>4. m <= cycle
  <2>1. m <= filters[changes[i].on].cur.idx /\ filters[changes[i].on].cur.idx <= cycle
    BY <1>1 DEF FindableOne, MarkThere
  <2>2. filters[changes[i].on].cur.idx \in Nat /\ cycle \in Nat
    BY <1>2, FilterFacts DEF TrackTypes
  <2> QED BY ONLY <1>2, <2>1, <2>2, SMT
<1>5. (\A e \in Entries(g) : e.idx = m => e.dirty) /\ NoneIn(g, m, WindowStart)
  <2>1. WindowStart' = WindowStart
    BY SameWindow
  <2> QED BY <1>1, <2>1 DEF FindableOne, MarkThere, Unknown
<1> QED BY <1>1, <1>2, <1>3, <1>4, <1>5, PendingNotClean

LEMMA BeginCycleFacts ==
  ASSUME TrackTypes, BeginCycle, NEW f, f = Cycled(filters[leader], cycle, Oldest(cycle))
  PROVE  /\ filters' = [filters EXCEPT ![leader] = f] /\ filters'[leader] = f
         /\ scan'.left = Peers \ {leader} /\ scan'.due = Marked
         /\ scan'.bf \in FilterFrom(f, Oldest(cycle), cycle)
<1>1. filters' = [filters EXCEPT ![leader] = f]
  BY DEF BeginCycle
<1>2. PICK bf \in FilterFrom(f, Oldest(cycle), cycle) :
        scan' = [pc |-> "ask", left |-> Peers \ {leader}, bf |-> bf, due |-> Marked]
  BY DEF BeginCycle
<1>3. scan'.left = Peers \ {leader} /\ scan'.due = Marked /\ scan'.bf = bf
  BY ONLY <1>2, SMT
<1>4. leader \in DOMAIN filters
  BY DEF TrackTypes
<1>5. filters'[leader] = f
  BY ONLY <1>1, <1>4, Zenon
<1> QED BY <1>1, <1>2, <1>3, <1>5

LEMMA CycleFindable ==
  ASSUME TrackTypes, TrackTypes', TrackRest, NEW p \in Peers, NEW f, f = Cycled(filters[p], cycle, Oldest(cycle)),
         filters' = filters \/ filters' = [filters EXCEPT ![p] = f],
         UNCHANGED <<filterFiles, cycle, folderCycle, changes, unseen, lostMarks>>
  PROVE  /\ FiltersOrdered' /\ Pending' = Pending /\ Marked' = Marked
         /\ \A i \in Pending : FindableOne(i)'
         /\ Findable'
<1>1. FiltersOrdered /\ Findable
  BY DEF TrackRest
<1>2. FiltersOrdered' /\ \A q \in Peers : Evolves(q)
  BY <1>1, CycleEvolves
<1>3. Pending' = Pending /\ Marked' = Marked
  BY DEF Pending, Marked
<1>4. ASSUME NEW i \in Pending PROVE FindableOne(i)'
  <2>1. FindableOne(i) /\ changes[i].on \in Peers
    BY <1>1, PendingFacts DEF Findable
  <2> QED BY <1>2, <2>1, OneKept, SameWindow
<1> QED BY <1>2, <1>3, <1>4 DEF Findable

LEMMA BeginCycleOK ==
  ASSUME TrackTypes, TrackTypes', TrackRest, BeginCycle
  PROVE  TrackRest'
<1>0. PICK f : f = Cycled(filters[leader], cycle, Oldest(cycle))
  OBVIOUS
<1>1. /\ UNCHANGED <<filterFiles, cycle, folderCycle, changes, unseen, lostMarks>> /\ missed' = missed
      /\ leader \in Peers
  BY DEF BeginCycle, TrackTypes
<1>2. /\ filters' = [filters EXCEPT ![leader] = f] /\ filters'[leader] = f
      /\ scan'.left = Peers \ {leader} /\ scan'.due = Marked
      /\ scan'.bf \in FilterFrom(f, Oldest(cycle), cycle)
  BY <1>0, BeginCycleFacts
<1>3. /\ FiltersOrdered' /\ Pending' = Pending /\ Marked' = Marked
      /\ \A i \in Pending : FindableOne(i)'
      /\ Findable'
  BY <1>0, <1>1, <1>2, CycleFindable
<1>4. AnswersHold'
  <2> SUFFICES ASSUME Turn, scan'.bf = "clean", NEW i \in Pending, changes[i].on \notin scan'.left PROVE FALSE
    <3>1. Turn' <=> Turn
      BY <1>1, SameWindow
    <3> QED BY <1>1, <1>3, <3>1 DEF AnswersHold
  <2>1. changes[i].on = leader /\ FindableOne(i) /\ FindableOne(i)'
    BY <1>2, <1>3, PendingFacts DEF TrackRest, Findable
  <2>2. FiltersOrdered /\ filters[leader].cur.idx <= cycle
    BY <1>1 DEF TrackRest, FiltersOrdered
  <2>3. "clean" \notin FilterFrom(filters'[changes[i].on], Oldest(cycle), cycle)
    BY <1>1, <2>1, <2>2, NoCleanAnswer
  <2> QED BY <1>2, <2>1, <2>3
<1>5. missed \subseteq lostMarks
  BY DEF TrackRest
<1> QED BY <1>1, <1>2, <1>3, <1>4, <1>5 DEF TrackRest

LEMMA AskPeerOK ==
  ASSUME TrackTypes, TrackTypes', TrackRest, NEW p \in Peers, AskPeer(p)
  PROVE  TrackRest'
<1>0. PICK f : f = Cycled(filters[p], cycle, Oldest(cycle))
  OBVIOUS
<1>1. UNCHANGED <<filterFiles, cycle, folderCycle, changes, unseen, lostMarks>> /\ missed' = missed
  BY DEF AskPeer
<1>2. /\ scan.pc = "ask" /\ p \in scan.left
      /\ filters' = filters \/ filters' = [filters EXCEPT ![p] = f]
      /\ scan'.pc = "ask" /\ scan'.left = scan.left \ {p} /\ scan'.due = scan.due
      /\ scan'.bf = "clean" => /\ scan.bf = "clean" /\ "clean" \in FilterFrom(f, Oldest(cycle), cycle)
                               /\ filters' = [filters EXCEPT ![p] = f]
  BY <1>0, AskPeerFacts
<1>3. /\ FiltersOrdered' /\ Pending' = Pending /\ Marked' = Marked
      /\ \A i \in Pending : FindableOne(i)'
      /\ Findable'
  BY <1>0, <1>1, <1>2, CycleFindable
<1>4. AnswersHold'
  <2> SUFFICES ASSUME Turn, scan'.bf = "clean", NEW i \in Pending, changes[i].on \notin scan'.left
               PROVE  i \notin scan.due /\ Unknown(changes[i].on, changes[i].idx, cycle)'
    <3>1. Turn' <=> Turn
      BY <1>1, SameWindow
    <3> QED BY <1>1, <1>2, <1>3, <3>1 DEF AnswersHold
  <2>1. FiltersOrdered /\ Findable /\ AnswersHold /\ changes[i].on \in Peers
    BY PendingFacts DEF TrackRest
  <2>2. CASE changes[i].on = p
    <3>1. FindableOne(i) /\ FindableOne(i)' /\ filters[p].cur.idx <= cycle
      BY <1>3, <2>1 DEF Findable, FiltersOrdered
    <3>2. "clean" \notin FilterFrom(filters'[changes[i].on], Oldest(cycle), cycle)
      BY <1>1, <2>1, <2>2, <3>1, NoCleanAnswer
    <3>3. filters'[p] = f
      <4>1. p \in DOMAIN filters /\ filters' = [filters EXCEPT ![p] = f]
        BY <1>2 DEF TrackTypes
      <4> QED BY ONLY <4>1, Zenon
    <3> QED BY <1>2, <2>2, <3>2, <3>3
  <2>3. CASE changes[i].on # p
    <3> PICK q, m, h : q = changes[i].on /\ m = changes[i].idx /\ h = cycle
      OBVIOUS
    <3>1. q \notin scan.left /\ scan.bf = "clean" /\ q \in Peers /\ q # p
      BY <1>2, <2>1, <2>3
    <3>2. i \notin scan.due /\ Unknown(q, m, h)
      BY <1>2, <2>1, <3>1 DEF AnswersHold
    <3>3. filters'[q] = filters[q]
      BY <1>0, <1>1, <1>2, <2>1, <3>1, CycleEvolves
    <3>4. Unknown(q, m, h)'
      BY <1>1, <3>1, <3>2, <3>3, UnknownKept, SameShrinks
    <3>5. changes'[i].on = q /\ changes'[i].idx = m /\ cycle' = h
      BY <1>1
    <3> QED BY <3>2, <3>4, <3>5 DEF Unknown
  <2> QED BY <2>2, <2>3
<1>5. missed \subseteq lostMarks /\ scan.due \subseteq Marked
  BY DEF TrackRest
<1> QED BY <1>1, <1>2, <1>3, <1>4, <1>5 DEF TrackRest

LEMMA ScanFolderOK ==
  ASSUME TrackTypes, TrackTypes', TrackRest, ScanFolder
  PROVE  TrackRest'
<1>1. /\ filters' = filters /\ filterFiles' = filterFiles /\ changes' = changes /\ lostMarks' = lostMarks
      /\ cycle' = cycle + 1 /\ folderCycle' = folderCycle + 1 /\ scan.pc = "ask" /\ scan.left = {}
      /\ scan'.pc = "store" /\ scan'.due = {}
  BY ScanAtRest DEF ScanFolder
<1>2. FiltersOrdered /\ Findable /\ AnswersHold /\ scan.due \subseteq Marked /\ missed \subseteq lostMarks
  BY DEF TrackRest
<1>3. FiltersOrdered'
  <2> SUFFICES ASSUME NEW q \in Peers PROVE filters[q].cur.idx <= cycle + 1
    BY <1>1, <1>2 DEF FiltersOrdered
  <2>1. filters[q].cur.idx \in Nat /\ cycle \in Nat
    BY FilterFacts DEF TrackTypes
  <2>2. filters[q].cur.idx <= cycle
    BY <1>2 DEF FiltersOrdered
  <2> QED BY ONLY <2>1, <2>2, SMT
<1>4. AnswersHold'
  BY <1>1 DEF AnswersHold
<1>5. \A q \in Peers : Evolves(q)
  BY <1>1, SameShrinks, ShrinksEvolves
<1>6. Findable' /\ missed' \subseteq lostMarks'
  <2>1. CASE Visited
    BY <1>1, <1>2, <2>1 DEF ScanFolder, Findable, Pending
  <2>2. CASE ~Visited /\ ~Turn
    <3>1. unseen' = unseen /\ missed' = missed
      BY <2>2 DEF ScanFolder
    <3>2. Pending' = Pending
      BY <1>1, <3>1 DEF Pending, Marked
    <3>3. WindowStart' = WindowStart /\ WindowStart \in Int /\ WindowStart <= WindowStart
      BY <1>1, <2>2, WindowFacts, WindowMoves, SMT
    <3>4. ASSUME NEW i \in Pending PROVE FindableOne(i)'
      <4>1. FindableOne(i) /\ changes[i].on \in Peers
        BY <1>2, PendingFacts DEF Findable
      <4> QED BY <1>1, <1>5, <3>3, <4>1, OneKept
    <3> QED BY <1>1, <1>2, <3>1, <3>2, <3>4 DEF Findable
  <2>3. CASE ~Visited /\ Turn
    <3>1. unseen' = unseen /\ missed' = missed \cup (unseen \cap scan.due) /\ scan.bf = "clean"
      BY <2>3 DEF ScanFolder, Visited
    <3>2. Pending' = Pending
      BY <1>1, <3>1 DEF Pending, Marked
    <3>3. WindowStart' = cycle
      BY <1>1, <2>3, WindowMoves
    <3>4. ASSUME NEW i \in Pending PROVE i \notin scan.due /\ Unknown(changes[i].on, changes[i].idx, cycle)
      BY <1>1, <1>2, <2>3, <3>1 DEF AnswersHold
    <3>5. ASSUME NEW i \in Pending PROVE FindableOne(i)'
      <4>1. FindableOne(i) /\ Unknown(changes[i].on, changes[i].idx, cycle)
        BY <1>2, <3>4 DEF Findable
      <4> QED BY <1>1, <3>3, <4>1 DEF FindableOne, MarkThere, Unknown
    <3>6. unseen \cap scan.due \subseteq lostMarks
      BY <1>2, <3>4 DEF Pending
    <3> QED BY <1>1, <1>2, <3>1, <3>2, <3>5, <3>6 DEF Findable
  <2> QED BY <2>1, <2>2, <2>3
<1> QED BY <1>1, <1>3, <1>4, <1>6 DEF TrackRest

LEMMA RestStepOK ==
  ASSUME TrackTypes, TrackTypes', TrackRest, ScanFails \/ StoreCycle
  PROVE  TrackRest'
<1>1. /\ filters' = filters /\ filterFiles' = filterFiles /\ changes' = changes /\ lostMarks' = lostMarks
      /\ cycle' = cycle /\ folderCycle' = folderCycle /\ unseen' = unseen /\ missed' = missed
      /\ scan'.pc = "rest" /\ scan'.due = {}
  BY ScanAtRest DEF ScanFails, StoreCycle
<1>2. FiltersOrdered /\ Findable /\ missed \subseteq lostMarks
  BY DEF TrackRest
<1>3. FiltersOrdered' /\ AnswersHold'
  BY <1>1, <1>2 DEF FiltersOrdered, AnswersHold
<1>4. Findable'
  <2>1. WindowStart' = WindowStart /\ Pending' = Pending
    BY <1>1, SameWindow DEF Pending, Marked
  <2> QED BY <1>1, <1>2, <2>1 DEF Findable, FindableOne, MarkThere, Unknown
<1> QED BY <1>1, <1>2, <1>3, <1>4 DEF TrackRest

-----------------------------------------------------------------------------
(* Restarts.                                                                  *)

LEMMA WindowLower ==
  ASSUME TrackTypes, cycle' \in Nat, cycle' <= cycle, folderCycle' = folderCycle
  PROVE  WindowStart' \in Int /\ WindowStart' <= WindowStart /\ (Turn' <=> Turn)
<1>1. PICK q \in Nat, r \in 0..DirCycles - 1 : folderCycle = q * DirCycles + r
  BY DEF TrackTypes
<1>2. folderCycle % DirCycles = r
  BY <1>1, TrackConstants, ModIs
<1>3. cycle \in Nat
  BY DEF TrackTypes
<1>4. PICK k \in Int : k = IF r = 0 THEN DirCycles ELSE r
  BY TrackConstants, SMT
<1>5. WindowStart = cycle - k /\ WindowStart' = cycle' - k /\ (Turn' <=> Turn)
  BY <1>2, <1>4 DEF WindowStart, Turn
<1>6. cycle' \in Nat /\ cycle' <= cycle
  OBVIOUS
<1>7. WindowStart' \in Int /\ WindowStart' <= WindowStart
  <2>1. PICK v, w, d : v = WindowStart /\ w = WindowStart' /\ d = cycle'
    OBVIOUS
  <2>2. v = cycle - k /\ w = d - k /\ k \in Int /\ d \in Nat /\ d <= cycle
    BY <1>4, <1>5, <1>6, <2>1
  <2>3. w \in Int /\ w <= v
    BY ONLY <1>3, <2>2, SMT
  <2> QED BY <2>1, <2>3
<1> QED BY <1>5, <1>7

\* A mark that is not forgotten with a restart is in the file, or the file has
\* no filter of its cycle and gets none.
LEMMA Remembered ==
  ASSUME NEW f \in TrackFilters, Ordered(f), NEW before, NEW m \in Nat, ~Forgets(f, before, m)
  PROVE  m <= f.cur.idx /\ \A e \in Entries(f) : e.idx = m => e.dirty
<1>1. f.cur \in TrackEntries /\ f.hist \subseteq TrackEntries /\ f.cur.idx \in Nat
  BY DEF TrackFilters, TrackEntries
<1>2. CASE Covers(f, m)
  <2>1. PICK e \in Entries(f) : e.idx = m /\ e.dirty
    BY <1>2 DEF Covers, Entries
  <2>2. \A g \in Entries(f) : g.idx < f.cur.idx \/ g = f.cur
    BY DEF Entries, Ordered
  <2>3. m <= f.cur.idx
    <3>1. m < f.cur.idx \/ m = f.cur.idx
      BY <2>1, <2>2
    <3> QED BY ONLY <1>1, <3>1, m \in Nat, SMT
  <2>4. ASSUME NEW g \in Entries(f), g.idx = m PROVE g.dirty
    <3>1. ~(f.cur.idx < f.cur.idx)
      BY ONLY <1>1, SMT
    <3>2. \A a \in f.hist : a.idx # f.cur.idx
      BY <3>1 DEF Ordered
    <3>3. g = e
      BY <2>1, <2>4, <3>2 DEF Entries, Ordered
    <3> QED BY <2>1, <3>3
  <2> QED BY <2>3, <2>4
<1>3. CASE ~Covers(f, m)
  <2>1. Find(f, m) = {} /\ ~(m > f.cur.idx)
    BY <1>3 DEF Forgets
  <2>2. m <= f.cur.idx
    BY ONLY <1>1, <2>1, m \in Nat, SMT
  <2>3. \A e \in Entries(f) : e.idx # m
    BY <2>1 DEF Find, Entries
  <2> QED BY <2>2, <2>3
<1> QED BY <1>2, <1>3

LEMMA RestartKeeps ==
  ASSUME TrackTypes, TrackTypes', TrackRest, NEW p \in Peers, RestartPeer(p), NEW i \in Pending',
         WindowStart' \in Int, WindowStart' <= WindowStart
  PROVE  FindableOne(i)'
<1>1. /\ filters'[p] = Loaded(filterFiles[p]) /\ \A q \in Peers : q # p => filters'[q] = filters[q]
      /\ \A j \in DOMAIN changes : changes'[j].on = changes[j].on /\ (changes[j].idx # 0 => changes'[j].idx = changes[j].idx)
      /\ Marked' = Marked
  BY RestartFacts
<1>2. filterFiles' = filterFiles /\ unseen' = unseen /\ lostMarks \subseteq lostMarks'
  BY DEF RestartPeer
<1>3. i \in Pending /\ i \notin lostMarks'
  BY <1>1, <1>2 DEF Pending
<1>4. /\ i \in Marked /\ i \in DOMAIN changes /\ changes[i].on \in Peers /\ changes[i].idx \in Nat /\ changes[i].idx # 0
  BY <1>3, PendingFacts
<1>5. changes'[i].on = changes[i].on /\ changes'[i].idx = changes[i].idx
  BY <1>1, <1>4
<1>6. FindableOne(i) /\ FiltersOrdered
  BY <1>3 DEF TrackRest, Findable
<1>7. CASE changes[i].on # p
  <2>1. Evolves(changes[i].on)
    BY <1>1, <1>2, <1>4, <1>7, SameShrinks, ShrinksEvolves
  <2> QED BY <1>3, <1>5, <1>6, <2>1, OneKept
<1>8. CASE changes[i].on = p
  <2>1. PICK f, m, w : f = Loaded(filterFiles[p]) /\ m = changes[i].idx /\ w = WindowStart'
    OBVIOUS
  <2>2. f \in TrackFilters /\ Ordered(f)
    BY <1>6, <2>1, FilterFacts DEF FiltersOrdered
  <2>3. ~Forgets(f, filters[p], m)
    BY <1>3, <1>4, <1>8, <2>1 DEF RestartPeer
  <2>4. m <= f.cur.idx /\ \A e \in Entries(f) : e.idx = m => e.dirty
    BY <1>4, <2>1, <2>2, <2>3, Remembered
  <2>5. NoneIn(f, m, w)
    <3>1. NoneIn(f, m, WindowStart) /\ WindowStart \in Int
      BY <1>6, <1>8, <2>1, WindowFacts DEF FindableOne, MarkThere, Unknown
    <3>2. ASSUME NEW e \in Entries(f) PROVE e.idx <= m \/ e.idx > w
      <4>1. e.idx \in Nat
        BY <2>1, FilterFacts
      <4>2. e.idx <= m \/ e.idx > WindowStart
        BY <3>1 DEF NoneIn
      <4>3. w \in Int /\ w <= WindowStart
        BY <2>1
      <4> QED BY ONLY <3>1, <4>1, <4>2, <4>3, SMT
    <3> QED BY <3>2 DEF NoneIn
  <2>6. filters'[p] = f /\ Loaded(filterFiles'[p]) = f /\ changes'[i].on = p /\ changes'[i].idx = m
    BY <1>1, <1>2, <1>5, <1>8, <2>1
  <2>7. NoneIn(f, m, WindowStart')
    BY <2>1, <2>5
  <2> QED BY ONLY <2>4, <2>6, <2>7, Zenon DEF FindableOne, MarkThere, Unknown
<1> QED BY <1>7, <1>8

LEMMA RestartOrdered ==
  ASSUME TrackTypes, TrackTypes', FiltersOrdered, NEW p \in Peers, RestartPeer(p), ~rewound'
  PROVE  FiltersOrdered'
<1>1. /\ filters'[p] = Loaded(filterFiles[p]) /\ \A q \in Peers : q # p => filters'[q] = filters[q]
      /\ cycle' \in Nat /\ cycle \in Nat
  BY RestartFacts DEF TrackTypes
<1>2. filterFiles' = filterFiles
  BY DEF RestartPeer
<1>3. ASSUME NEW q \in Peers, p # leader PROVE filters'[q].cur.idx <= cycle'
  <2>1. cycle' = cycle
    BY <1>3 DEF RestartPeer
  <2>2. Loaded(filterFiles[p]).cur.idx \in Nat /\ filters[p].cur.idx \in Nat
    BY FilterFacts
  <2>3. Loaded(filterFiles[p]).cur.idx <= filters[p].cur.idx /\ filters[p].cur.idx <= cycle /\ filters[q].cur.idx <= cycle
    BY DEF FiltersOrdered
  <2>4. Loaded(filterFiles[p]).cur.idx <= cycle
    BY ONLY <1>1, <2>2, <2>3, SMT
  <2> QED BY <1>1, <2>1, <2>3, <2>4
<1>4. ASSUME NEW q \in Peers, p = leader PROVE filters'[q].cur.idx <= cycle'
  <2>1. filters'[q].cur.idx \in Nat
    <3>1. filters'[q] \in TrackFilters
      BY DEF TrackTypes
    <3> QED BY <3>1 DEF TrackFilters, TrackEntries
  <2>2. ~(filters'[q].cur.idx > cycle')
    BY <1>4 DEF RestartPeer
  <2> QED BY ONLY <1>1, <2>1, <2>2, SMT
<1> SUFFICES ASSUME NEW q \in Peers
             PROVE  /\ Ordered(filters'[q]) /\ Ordered(Loaded(filterFiles[q]))
                    /\ Loaded(filterFiles[q]).cur.idx <= filters'[q].cur.idx
  BY <1>2, <1>3, <1>4 DEF FiltersOrdered
<1>5. /\ Ordered(filters[q]) /\ Ordered(Loaded(filterFiles[q])) /\ Loaded(filterFiles[q]).cur.idx <= filters[q].cur.idx
  BY DEF FiltersOrdered
<1>6. Loaded(filterFiles[q]).cur.idx <= Loaded(filterFiles[q]).cur.idx
  <2>1. Loaded(filterFiles[q]).cur.idx \in Nat
    BY FilterFacts
  <2> QED BY ONLY <2>1, SMT
<1>7. filters'[q] = filters[q] \/ filters'[q] = Loaded(filterFiles[q])
  BY <1>1
<1> QED BY ONLY <1>5, <1>6, <1>7, Zenon

LEMMA RestartOK ==
  ASSUME TrackTypes, TrackTypes', TrackRest, NEW p \in Peers, RestartPeer(p), ~rewound', ~drifted'
  PROVE  TrackRest'
<1>1. /\ filters'[p] = Loaded(filterFiles[p]) /\ \A q \in Peers : q # p => filters'[q] = filters[q]
      /\ \A j \in DOMAIN changes : changes'[j].on = changes[j].on /\ (changes[j].idx # 0 => changes'[j].idx = changes[j].idx)
      /\ Marked' = Marked /\ cycle' \in Nat /\ cycle \in Nat
  BY RestartFacts DEF TrackTypes
<1>2. /\ filterFiles' = filterFiles /\ unseen' = unseen /\ lostMarks \subseteq lostMarks' /\ folderCycle' = folderCycle
      /\ missed' = missed
  BY DEF RestartPeer
<1>3. FiltersOrdered /\ AnswersHold /\ scan.due \subseteq Marked /\ missed \subseteq lostMarks
  BY DEF TrackRest
<1>4. ASSUME p # leader PROVE AnswersHold' /\ scan'.due \subseteq Marked' /\ cycle' <= cycle
  <2>1. cycle' = cycle /\ scan' = scan
    BY <1>4 DEF RestartPeer
  <2>3. AnswersHold'
    <3>0. Turn' <=> Turn
      BY <1>2, <2>1, SameWindow
    <3> SUFFICES ASSUME scan.pc = "ask", Turn, scan.bf = "clean", NEW i \in Pending', changes'[i].on \notin scan.left
                 PROVE  i \notin scan.due /\ Unknown(changes[i].on, changes[i].idx, cycle)'
      BY <2>1, <3>0 DEF AnswersHold
    <3>1. i \in Pending
      BY <1>1, <1>2 DEF Pending
    <3>2. changes'[i].on = changes[i].on /\ changes'[i].idx = changes[i].idx /\ changes[i].on \in Peers
      BY <1>1, <3>1, PendingFacts
    <3>3. i \notin scan.due /\ Unknown(changes[i].on, changes[i].idx, cycle)
      BY <1>3, <3>1, <3>2 DEF AnswersHold
    <3>4. NoneIn(filters'[changes[i].on], changes[i].idx, cycle)
      BY <1>1, <3>2, <3>3 DEF Unknown
    <3> QED BY <1>2, <2>1, <3>2, <3>3, <3>4 DEF Unknown
  <2>4. scan'.due \subseteq Marked'
    BY <1>1, <1>3, <2>1
  <2>5. cycle' <= cycle
    BY ONLY <1>1, <2>1, SMT
  <2> QED BY <2>3, <2>4, <2>5
<1>5. ASSUME p = leader PROVE AnswersHold' /\ scan'.due \subseteq Marked' /\ cycle' <= cycle
  <2>1. scan' = AtRest /\ ~(cycle' > cycle)
    BY <1>5 DEF RestartPeer
  <2>2. cycle' <= cycle
    BY ONLY <1>1, <2>1, SMT
  <2>4. AnswersHold' /\ scan'.due = {}
    BY <2>1, ScanAtRest DEF AnswersHold
  <2> QED BY <2>2, <2>4
<1>6. AnswersHold' /\ scan'.due \subseteq Marked' /\ cycle' <= cycle
  BY <1>4, <1>5
<1>7. FiltersOrdered'
  BY <1>3, RestartOrdered
<1>8. Findable'
  <2>1. WindowStart' \in Int /\ WindowStart' <= WindowStart
    BY <1>1, <1>2, <1>6, WindowLower
  <2> QED BY <2>1, RestartKeeps DEF Findable
<1> QED BY <1>2, <1>3, <1>6, <1>7, <1>8 DEF TrackRest

-----------------------------------------------------------------------------
(* The theorems.                                                              *)

LEMMA TrackStart ==
  ASSUME TrackInit
  PROVE  TrackIInv
<1>1. /\ filters = [p \in Peers |-> FreshFilters] /\ filterFiles = [p \in Peers |-> [d \in TrackDriveIds |-> NoFile]]
      /\ leader \in Peers /\ cycle = 2 /\ storedCycle = 0 /\ scan = AtRest /\ folderCycle = 0
      /\ changes = <<>> /\ missed = {}
  BY DEF TrackInit
<1>2. FreshFilters \in TrackFilters /\ FreshFilters.cur.idx = 1 /\ FreshFilters.hist = {}
  <2>1. 1 \in Nat
    BY SMT
  <2> QED BY <2>1 DEF FreshFilters, Entry, TrackFilters, TrackEntries
<1>3. NoFile \in [cur : TrackEntries, hist : SUBSET TrackEntries] /\ NoFile.cur.idx = 0
  <2>1. 0 \in Nat
    BY SMT
  <2> QED BY <2>1 DEF NoFile, Entry, TrackEntries
<1>4. \E q \in Nat, r \in 0..DirCycles - 1 : folderCycle = q * DirCycles + r
  <2>1. 0 \in Nat /\ 0 \in 0..DirCycles - 1 /\ 0 = 0 * DirCycles + 0
    BY TrackConstants, SMT
  <2> QED BY <1>1, <2>1
<1>5. changes \in Seq(ChangeRecords) /\ DOMAIN changes = {} /\ cycle \in Nat /\ storedCycle \in Nat
  BY ONLY <1>1, SMT
<1>6. TrackTypes
  BY <1>1, <1>2, <1>3, <1>4, <1>5, ScanAtRest DEF TrackTypes, TrackFiles
<1>7. Marked = {} /\ Pending = {}
  BY <1>5 DEF Marked, Pending
<1>8. FiltersOrdered
  <2> SUFFICES ASSUME NEW p \in Peers
               PROVE  /\ Ordered(filters[p]) /\ Ordered(Loaded(filterFiles[p]))
                      /\ Loaded(filterFiles[p]).cur.idx <= filters[p].cur.idx /\ filters[p].cur.idx <= cycle
    BY DEF FiltersOrdered
  <2>1. filters[p] = FreshFilters
    BY <1>1
  <2>2. Loaded(filterFiles[p]) = FreshFilters
    BY <1>1, <1>3 DEF Loaded
  <2>3. 1 >= 1 /\ 1 <= 1 /\ 1 <= 2
    BY SMT
  <2>4. Ordered(FreshFilters)
    BY <1>2, <2>3 DEF Ordered
  <2> QED BY <1>1, <1>2, <2>1, <2>2, <2>3, <2>4
<1> QED BY <1>1, <1>6, <1>7, <1>8, ScanAtRest DEF TrackIInv, TrackRest, Findable, AnswersHold

LEMMA TrackStep ==
  ASSUME TrackIInv, [TrackNext]_trackVars
  PROVE  TrackIInv'
<1>1. TrackTypes /\ TrackTypes'
  BY TypesStep DEF TrackIInv
<1> SUFFICES ASSUME ~rewound', ~drifted' PROVE TrackRest'
  BY <1>1 DEF TrackIInv
<1>2. ASSUME NEW p \in Peers, RestartPeer(p) PROVE ~rewound /\ ~drifted
  BY <1>2 DEF RestartPeer
<1>3. CASE UNCHANGED trackVars
  BY <1>1, <1>3 DEF TrackIInv, trackVars, TrackRest, FiltersOrdered, Findable, FindableOne, MarkThere, Unknown, AnswersHold, Pending,
                    Marked, WindowStart, Turn
<1>4. ASSUME TrackNext PROVE TrackRest'
  <2>1. TrackRest
    <3>1. ASSUME NEW p \in Peers, StoreChange(p) \/ AskPeer(p) \/ SaveFilters(p) PROVE ~rewound /\ ~drifted
      <4>1. StoreChange(p) => rewound' = rewound /\ drifted' = drifted
        BY DEF StoreChange
      <4>2. AskPeer(p) => rewound' = rewound /\ drifted' = drifted
        BY DEF AskPeer
      <4>3. SaveFilters(p) => rewound' = rewound /\ drifted' = drifted
        BY DEF SaveFilters
      <4> QED BY ONLY ~rewound', ~drifted', <3>1, <4>1, <4>2, <4>3, SMT
    <3>2. ASSUME NEW i, MarkDirty(i) PROVE ~rewound /\ ~drifted
      BY <3>2 DEF MarkDirty
    <3>3. ASSUME BeginCycle \/ ScanFolder \/ ScanFails \/ StoreCycle PROVE ~rewound /\ ~drifted
      <4>1. BeginCycle => rewound' = rewound /\ drifted' = drifted
        BY DEF BeginCycle
      <4>2. ScanFolder => rewound' = rewound /\ drifted' = drifted
        BY DEF ScanFolder
      <4>3. ScanFails \/ StoreCycle => rewound' = rewound /\ drifted' = drifted
        BY DEF ScanFails, StoreCycle
      <4> QED BY ONLY ~rewound', ~drifted', <3>3, <4>1, <4>2, <4>3, SMT
    <3>4. ~ScanSkipped
      BY DEF ScanSkipped
    <3>5. ~rewound /\ ~drifted
      BY <1>2, <1>4, <3>1, <3>2, <3>3, <3>4 DEF TrackNext
    <3> QED BY <3>5 DEF TrackIInv
  <2>2. ~ScanSkipped
    BY DEF ScanSkipped
  <2> QED BY <1>1, <1>4, <2>1, <2>2, StoreChangeOK, MarkDirtyOK, BeginCycleOK, AskPeerOK, ScanFolderOK, RestStepOK, SaveOK,
             RestartOK DEF TrackNext
<1> QED BY <1>3, <1>4

\* The inductive invariant of the update tracker holds for any number of servers,
\* drives, changes, cycles, window lengths and mishaps: a change that the usage
\* cache does not reflect is in a filter that the next turn of the folder reads
\* (dataUpdateTracker, scanDataFolder).
THEOREM TrackInvariantHolds == TrackSpec => []TrackIInv
<1>1. TrackInit => TrackIInv
  BY TrackStart
<1>2. TrackIInv /\ [TrackNext]_trackVars => TrackIInv'
  BY TrackStep
<1> QED BY <1>1, <1>2, PTL DEF TrackSpec

\* No acknowledged change falls between the windows of two turns of its folder,
\* whichever filters the servers cycle, save and load (dataUpdateTracker.cycleFilter
\* and filterFrom).
THEOREM NoChangeMissedHolds == TrackSpec => []NoChangeMissed
<1>1. TrackIInv => NoChangeMissed
  BY DEF TrackIInv, TrackRest, NoChangeMissed
<1> QED BY <1>1, TrackInvariantHolds, PTL

-----------------------------------------------------------------------------
(* Listings.  What a request was told of the cycles of the changes, and what  *)
(* its walk has met, hold until it is answered.                               *)

\* Every mark that no restart lost is there.
TrackMarks == FiltersOrdered /\ \A i \in Marked \ lostMarks : MarkThere(i)

ListRecords ==
  [pc : {"idle", "ask", "find", "own", "read", "done", "error"}, on : Peers, cur : Nat, old : Nat, left : SUBSET Peers,
   need : SUBSET Nat, use : Nat, from : Nat, got : SUBSET Nat, deaf : BOOLEAN, half : BOOLEAN]
CacheRecords ==
  [status : {"none", "started", "success", "error"}, started : Nat, startedCycle : Nat, ended : BOOLEAN,
   endedCycle : Nat, silent : BOOLEAN]
WalkRecords == [pc : {"off", "walk", "flush", "done", "dead"}, at : Nat, seen : SUBSET Nat, told : BOOLEAN]

ListTypes ==
  /\ lister \in [ListIds -> ListRecords] /\ walker \in [ListIds -> WalkRecords] /\ blocks \in [ListIds -> SUBSET Nat]
  /\ caches \in [ListIds -> CacheRecords] /\ savedCaches \in [ListIds -> CacheRecords] /\ begun \in Nat
  /\ \A k \in ListIds : caches[k].started <= begun /\ savedCaches[k].started <= begun
  /\ cycle # 0 /\ \A p \in Peers : filters[p].cur.idx # 0
  /\ Len(changes) <= MaxChanges

\* Of the changes on the servers a request has heard from it knows the cycle.
AsksKnow(l) ==
  lister[l].pc \in {"ask", "find"} /\ ~rewound /\ ~lister[l].deaf =>
    \A i \in lister[l].need \ lostMarks :
      lister[l].pc = "find" \/ changes[i].on \notin lister[l].left => changes[i].idx <= lister[l].old

\* A listing of another request is of the cycle of the changes or later.
ReadsLate(l) ==
  /\ lister[l].pc = "read" => lister[l].use # l /\ lister[l].use \in ListIds
  /\ lister[l].pc \in {"read", "done"} /\ lister[l].use # l /\ ~rewound /\ ~lister[l].deaf =>
       \A i \in lister[l].need \ lostMarks : changes[i].idx <= lister[l].from

\* A walk has met what was there when it was asked for.
WalkSees(l) ==
  /\ walker[l].pc = "walk" => /\ lister[l].pc = "own" /\ lister[l].use = l
                              /\ \A i \in lister[l].need : i < walker[l].at => i \in walker[l].seen
  /\ lister[l].pc = "done" /\ lister[l].use = l /\ l \notin broken => lister[l].need \subseteq lister[l].got

\* A cache is there once its request has asked for it, and never as if it were
\* whole when the owner was told that the walk failed.
CacheHonest(l) ==
  /\ lister[l].pc \in {"idle", "ask", "find"} => caches[l].status = "none" /\ savedCaches[l].status = "none"
  /\ l \in broken => lister[l].pc = "done" /\ (~forgot /\ walker[l].told => caches[l].status \in {"none", "error"})
  /\ lister[l].half => forgot

ListingOne(l) ==
  lister[l].need \subseteq Marked /\ AsksKnow(l) /\ ReadsLate(l) /\ WalkSees(l) /\ CacheHonest(l)

\* The inductive invariant of the listings.
ListIInv ==
  TrackTypes /\ ListTypes /\ (~rewound => TrackMarks) /\ \A l \in ListIds : ListingOne(l)

-----------------------------------------------------------------------------
(* Marks.                                                                     *)

\* Marks stay as they are, but for those that a restart loses.
LEMMA MarksFixed ==
  ASSUME TrackTypes, [TrackNext]_trackVars
  PROVE  /\ Marked \subseteq Marked' /\ lostMarks \subseteq lostMarks'
         /\ \A i \in Marked : changes'[i].on = changes[i].on /\ changes'[i].idx = changes[i].idx
<1>0. \A i \in Marked : i \in DOMAIN changes /\ changes[i].idx # 0
  <2>1. ~(0 > 0)
    BY SMT
  <2> QED BY <2>1 DEF Marked
<1>1. ASSUME changes' = changes, lostMarks' = lostMarks
      PROVE  /\ Marked \subseteq Marked' /\ lostMarks \subseteq lostMarks'
             /\ \A i \in Marked : changes'[i].on = changes[i].on /\ changes'[i].idx = changes[i].idx
  BY <1>1 DEF Marked
<1>2. ASSUME NEW p \in Peers, StoreChange(p)
      PROVE  /\ Marked \subseteq Marked' /\ lostMarks \subseteq lostMarks'
             /\ \A i \in Marked : changes'[i].on = changes[i].on /\ changes'[i].idx = changes[i].idx
  <2>1. PICK c : changes' = Append(changes, c)
    BY <1>2 DEF StoreChange
  <2>2. changes \in Seq(ChangeRecords) /\ lostMarks' = lostMarks
    BY <1>2 DEF TrackTypes, StoreChange
  <2>3. \A i \in DOMAIN changes : i \in DOMAIN changes' /\ changes'[i] = changes[i]
    BY ONLY <2>1, <2>2, SMT
  <2> QED BY <1>0, <2>2, <2>3 DEF Marked
<1>3. ASSUME NEW j, MarkDirty(j)
      PROVE  /\ Marked \subseteq Marked' /\ lostMarks \subseteq lostMarks'
             /\ \A i \in Marked : changes'[i].on = changes[i].on /\ changes'[i].idx = changes[i].idx
  <2>1. /\ changes[j].idx = 0 /\ DOMAIN changes' = DOMAIN changes /\ lostMarks' = lostMarks
        /\ \A i \in DOMAIN changes : i # j => changes'[i] = changes[i]
    BY <1>3, MarkDirtyFacts DEF MarkDirty
  <2>2. \A i \in Marked : i \in DOMAIN changes' /\ changes'[i] = changes[i]
    BY <1>0, <2>1
  <2> QED BY <2>1, <2>2 DEF Marked
<1>4. ASSUME NEW p \in Peers, RestartPeer(p)
      PROVE  /\ Marked \subseteq Marked' /\ lostMarks \subseteq lostMarks'
             /\ \A i \in Marked : changes'[i].on = changes[i].on /\ changes'[i].idx = changes[i].idx
  BY <1>0, <1>4, RestartFacts DEF RestartPeer
<1>5. ASSUME \/ \E p \in Peers : AskPeer(p) \/ SaveFilters(p)
             \/ BeginCycle \/ ScanFolder \/ ScanSkipped \/ ScanFails \/ StoreCycle
             \/ UNCHANGED trackVars
      PROVE  changes' = changes /\ lostMarks' = lostMarks
  <2>1. ASSUME NEW p \in Peers, AskPeer(p) \/ SaveFilters(p) PROVE changes' = changes /\ lostMarks' = lostMarks
    BY <2>1 DEF AskPeer, SaveFilters
  <2>2. ASSUME BeginCycle \/ ScanFolder \/ ScanSkipped PROVE changes' = changes /\ lostMarks' = lostMarks
    BY <2>2 DEF BeginCycle, ScanFolder, ScanSkipped
  <2>3. ASSUME ScanFails \/ StoreCycle \/ UNCHANGED trackVars PROVE changes' = changes /\ lostMarks' = lostMarks
    BY <2>3 DEF ScanFails, StoreCycle, trackVars
  <2> QED BY <1>5, <2>1, <2>2, <2>3
<1> QED BY <1>1, <1>2, <1>3, <1>4, <1>5 DEF TrackNext

\* Once the cycles went back they have done so for ever.
LEMMA RewoundStays ==
  ASSUME [TrackNext]_trackVars, ~rewound'
  PROVE  ~rewound
<1>1. ASSUME NEW p \in Peers, StoreChange(p) \/ AskPeer(p) \/ SaveFilters(p) PROVE rewound' = rewound
  BY <1>1 DEF StoreChange, AskPeer, SaveFilters
<1>2. ASSUME NEW p \in Peers, RestartPeer(p) PROVE ~rewound
  BY <1>2 DEF RestartPeer
<1>3. ASSUME NEW i, MarkDirty(i) PROVE rewound' = rewound
  BY <1>3 DEF MarkDirty
<1>4. ASSUME BeginCycle \/ ScanFolder \/ ScanSkipped PROVE rewound' = rewound
  BY <1>4 DEF BeginCycle, ScanFolder, ScanSkipped
<1>5. ASSUME ScanFails \/ StoreCycle \/ UNCHANGED trackVars PROVE rewound' = rewound
  BY <1>5 DEF ScanFails, StoreCycle, trackVars
<1>6. rewound' = rewound \/ ~rewound
  BY <1>1, <1>2, <1>3, <1>4, <1>5 DEF TrackNext
<1> QED BY ONLY <1>6, ~rewound', SMT

\* A step other than a restart takes no filter away and adds only one of the
\* current cycle.
LEMMA StepEvolves ==
  ASSUME TrackTypes, FiltersOrdered, [TrackNext]_trackVars, \A p \in Peers : ~RestartPeer(p)
  PROVE  FiltersOrdered' /\ \A q \in Peers : Evolves(q)
<1>0. cycle \in Nat /\ leader \in Peers /\ \A q \in Peers : filters[q].cur.idx \in Nat /\ filters[q].cur.idx <= cycle
  BY FilterFacts DEF TrackTypes, FiltersOrdered
<1>1. ASSUME filters' = filters, filterFiles' = filterFiles, cycle' = cycle \/ cycle' = cycle + 1
      PROVE  FiltersOrdered' /\ \A q \in Peers : Evolves(q)
  <2>1. \A q \in Peers : filters[q].cur.idx <= cycle'
    <3>1. PICK d : d = cycle'
      OBVIOUS
    <3>2. \A n \in Nat : n <= cycle => n <= d
      BY ONLY <1>0, <1>1, <3>1, SMT
    <3> QED BY <1>0, <3>1, <3>2
  <2> QED BY <1>1, <2>1, SameShrinks, ShrinksEvolves DEF FiltersOrdered
<1>2. ASSUME NEW p \in Peers, NEW f, f = Cycled(filters[p], cycle, Oldest(cycle)),
             filters' = filters \/ filters' = [filters EXCEPT ![p] = f], filterFiles' = filterFiles, cycle' = cycle
      PROVE  FiltersOrdered' /\ \A q \in Peers : Evolves(q)
  BY <1>2, CycleEvolves
<1>3. ASSUME NEW p \in Peers, StoreChange(p) PROVE FiltersOrdered' /\ \A q \in Peers : Evolves(q)
  BY <1>1, <1>3 DEF StoreChange
<1>4. ASSUME NEW p \in Peers, AskPeer(p) PROVE FiltersOrdered' /\ \A q \in Peers : Evolves(q)
  <2>1. PICK f : f = Cycled(filters[p], cycle, Oldest(cycle))
    OBVIOUS
  <2>2. filters' = filters \/ filters' = [filters EXCEPT ![p] = f]
    BY <1>4, <2>1, AskPeerFacts
  <2> QED BY <1>2, <1>4, <2>1, <2>2 DEF AskPeer
<1>5. ASSUME BeginCycle PROVE FiltersOrdered' /\ \A q \in Peers : Evolves(q)
  <2>1. PICK f : f = Cycled(filters[leader], cycle, Oldest(cycle))
    OBVIOUS
  <2>2. filters' = [filters EXCEPT ![leader] = f] /\ filterFiles' = filterFiles /\ cycle' = cycle
    BY <1>5, <2>1, BeginCycleFacts DEF BeginCycle
  <2> QED BY <1>0, <1>2, <2>1, <2>2
<1>6. ASSUME ScanFolder \/ ScanSkipped \/ ScanFails \/ StoreCycle PROVE FiltersOrdered' /\ \A q \in Peers : Evolves(q)
  <2>1. ASSUME ScanFolder \/ ScanSkipped PROVE filters' = filters /\ filterFiles' = filterFiles /\ cycle' = cycle + 1
    BY <2>1 DEF ScanFolder, ScanSkipped
  <2>2. ASSUME ScanFails \/ StoreCycle PROVE filters' = filters /\ filterFiles' = filterFiles /\ cycle' = cycle
    BY <2>2 DEF ScanFails, StoreCycle
  <2> QED BY <1>1, <1>6, <2>1, <2>2
<1>7. ASSUME UNCHANGED trackVars PROVE FiltersOrdered' /\ \A q \in Peers : Evolves(q)
  BY <1>1, <1>7 DEF trackVars
<1> QED BY <1>3, <1>4, <1>5, <1>6, <1>7, SaveOrdered, MarkDirtyOrdered, ShrinksEvolves DEF TrackNext

LEMMA NewMark ==
  ASSUME TrackTypes, FiltersOrdered, NEW i, MarkDirty(i)
  PROVE  MarkThere(i)' /\ Marked' \subseteq Marked \cup {i}
<1>1. PICK p \in Peers :
        /\ i \in DOMAIN changes /\ changes[i].idx = 0
        /\ filters'[p].cur.idx = filters[p].cur.idx /\ filters'[p].cur.dirty = TRUE /\ filters'[p].hist = filters[p].hist
        /\ \A q \in Peers : q # p => filters'[q] = filters[q]
        /\ DOMAIN changes' = DOMAIN changes /\ \A j \in DOMAIN changes : j # i => changes'[j] = changes[j]
        /\ changes'[i].on = p /\ changes'[i].idx = filters[p].cur.idx
  BY MarkDirtyFacts
<1>2. Marked' \subseteq Marked \cup {i}
  BY <1>1 DEF Marked
<1>3. filters[p].cur.idx <= filters'[p].cur.idx
  <2>1. filters[p].cur.idx \in Nat
    BY <1>1, FilterFacts
  <2> QED BY ONLY <1>1, <2>1, SMT
<1>4. ASSUME NEW e \in Entries(filters'[p]), e.idx = filters[p].cur.idx PROVE e.dirty
  <2>1. CASE e \in filters[p].hist
    <3>1. e.idx < filters[p].cur.idx
      BY <1>1, <2>1 DEF FiltersOrdered, Ordered
    <3>2. filters[p].cur.idx \in Nat
      BY <1>1, FilterFacts
    <3> QED BY ONLY <1>4, <3>1, <3>2, SMT
  <2>2. CASE e = filters'[p].cur
    BY <1>1, <2>2
  <2> QED BY <1>1, <2>1, <2>2 DEF Entries
<1> QED BY <1>1, <1>2, <1>3, <1>4 DEF MarkThere

LEMMA MarksStep ==
  ASSUME TrackTypes, TrackTypes', TrackMarks, [TrackNext]_trackVars, ~rewound'
  PROVE  TrackMarks'
<1>0. FiltersOrdered /\ \A i \in Marked \ lostMarks : MarkThere(i)
  BY DEF TrackMarks
<1>1. /\ lostMarks \subseteq lostMarks'
      /\ \A i \in Marked : /\ changes'[i].on = changes[i].on /\ changes'[i].idx = changes[i].idx
                           /\ changes[i].on \in Peers /\ changes[i].idx \in Nat
  <2>1. \A m \in Int : m > 0 => m \in Nat
    BY SMT
  <2> QED BY <2>1, MarksFixed, ChangeFacts
<1>2. ASSUME \A p \in Peers : ~RestartPeer(p) PROVE TrackMarks'
  <2>1. FiltersOrdered' /\ \A q \in Peers : Evolves(q)
    BY <1>0, <1>2, StepEvolves
  <2>2. ASSUME NEW i \in Marked' \ lostMarks' PROVE MarkThere(i)'
    <3>1. CASE i \in Marked
      BY <1>0, <1>1, <2>1, <2>2, <3>1, MarkKept
    <3>2. CASE i \notin Marked
      <4>1. MarkDirty(i)
        <5>1. ASSUME NEW p \in Peers, StoreChange(p) PROVE Marked' = Marked
          <6>1. PICK c : c = [on |-> p, idx |-> 0]
            OBVIOUS
          <6>2. changes' = Append(changes, c) /\ c.idx = 0 /\ changes \in Seq(ChangeRecords)
            BY <5>1, <6>1 DEF StoreChange, TrackTypes
          <6>3. \A j \in DOMAIN changes' : (j \in DOMAIN changes /\ changes'[j] = changes[j]) \/ changes'[j] = c
            BY ONLY <6>2, SMT
          <6>4. Marked \subseteq Marked' /\ ~(0 > 0)
            BY MarksFixed, SMT
          <6> QED BY <6>2, <6>3, <6>4 DEF Marked
        <5>2. ASSUME \/ \E p \in Peers : AskPeer(p) \/ SaveFilters(p)
                     \/ BeginCycle \/ ScanFolder \/ ScanSkipped \/ ScanFails \/ StoreCycle
                     \/ UNCHANGED trackVars
              PROVE  Marked' = Marked
          <6>1. ASSUME NEW p \in Peers, AskPeer(p) \/ SaveFilters(p) PROVE changes' = changes
            BY <6>1 DEF AskPeer, SaveFilters
          <6>2. ASSUME BeginCycle \/ ScanFolder \/ ScanSkipped PROVE changes' = changes
            BY <6>2 DEF BeginCycle, ScanFolder, ScanSkipped
          <6>3. ASSUME ScanFails \/ StoreCycle \/ UNCHANGED trackVars PROVE changes' = changes
            BY <6>3 DEF ScanFails, StoreCycle, trackVars
          <6> QED BY <5>2, <6>1, <6>2, <6>3 DEF Marked
        <5>3. PICK j : MarkDirty(j)
          BY <1>2, <2>2, <3>2, <5>1, <5>2 DEF TrackNext
        <5>4. i = j
          BY <1>0, <2>2, <3>2, <5>3, NewMark
        <5> QED BY <5>3, <5>4
      <4> QED BY <1>0, <4>1, NewMark
    <3> QED BY <3>1, <3>2
  <2> QED BY <2>1, <2>2 DEF TrackMarks
<1>3. ASSUME NEW p \in Peers, RestartPeer(p) PROVE TrackMarks'
  <2>1. FiltersOrdered'
    BY <1>0, <1>3, RestartOrdered
  <2>2. /\ filters'[p] = Loaded(filterFiles[p]) /\ \A q \in Peers : q # p => filters'[q] = filters[q]
        /\ filterFiles' = filterFiles /\ Marked' = Marked
    BY <1>3, RestartFacts DEF RestartPeer
  <2>3. ASSUME NEW i \in Marked' \ lostMarks' PROVE MarkThere(i)'
    <3>0. i \in Marked /\ i \notin lostMarks /\ MarkThere(i)
      BY <1>0, <1>1, <2>2, <2>3
    <3>1. CASE changes[i].on # p
      BY <1>1, <2>2, <3>0, <3>1 DEF MarkThere
    <3>2. CASE changes[i].on = p
      <4>1. PICK f, m : f = Loaded(filterFiles[p]) /\ m = changes[i].idx
        OBVIOUS
      <4>2. f \in TrackFilters /\ Ordered(f) /\ m \in Nat
        BY <1>0, <1>1, <3>0, <4>1, FilterFacts DEF FiltersOrdered
      <4>3. ~Forgets(f, filters[p], m)
        BY <1>3, <2>3, <3>0, <3>2, <4>1 DEF RestartPeer
      <4>4. m <= f.cur.idx /\ \A e \in Entries(f) : e.idx = m => e.dirty
        BY <4>2, <4>3, Remembered
      <4>5. filters'[p] = f /\ changes'[i].on = p /\ changes'[i].idx = m
        BY <1>1, <2>2, <3>0, <3>2, <4>1
      <4> QED BY ONLY <4>4, <4>5, Zenon DEF MarkThere
    <3> QED BY <3>1, <3>2
  <2> QED BY <2>1, <2>3 DEF TrackMarks
<1> QED BY <1>2, <1>3

\* Cycles are numbered from 1, and the changes are as many as there may be.
LEMMA CyclesStep ==
  ASSUME TrackTypes, TrackTypes', [TrackNext]_trackVars, cycle # 0, \A p \in Peers : filters[p].cur.idx # 0,
         Len(changes) <= MaxChanges
  PROVE  cycle' # 0 /\ (\A p \in Peers : filters'[p].cur.idx # 0) /\ Len(changes') <= MaxChanges
<1>0. /\ cycle \in Nat /\ leader \in Peers /\ filters \in [Peers -> TrackFilters] /\ \A q \in Peers : filters[q].cur.idx \in Nat
      /\ storedCycle \in Nat /\ changes \in Seq(ChangeRecords) /\ MaxChanges \in Nat
  BY FilterFacts, UpdateTrackerAssumption DEF TrackTypes
<1>1. ASSUME NEW p \in Peers, filters' = filters \/ filters' = [filters EXCEPT ![p] = Cycled(filters[p], cycle, Oldest(cycle))],
             changes' = changes, cycle' = cycle
      PROVE  cycle' # 0 /\ (\A q \in Peers : filters'[q].cur.idx # 0) /\ Len(changes') <= MaxChanges
  <2>1. \A g : g = Cycled(filters[p], cycle, Oldest(cycle)) => g.cur.idx # 0
    <3>1. ASSUME NEW g, g = Cycled(filters[p], cycle, Oldest(cycle)) PROVE g.cur.idx # 0
      <4>1. CASE filters[p].cur.idx = cycle
        BY <1>0, <3>1, <4>1 DEF Cycled, TrackFilters
      <4>2. CASE filters[p].cur.idx # cycle
        BY <3>1, <4>2 DEF Cycled, Entry
      <4> QED BY <4>1, <4>2
    <3> QED BY <3>1
  <2>2. PICK g : g = Cycled(filters[p], cycle, Oldest(cycle))
    OBVIOUS
  <2>3. g.cur.idx # 0
    BY <2>1, <2>2
  <2>4. filters' = filters \/ filters' = [filters EXCEPT ![p] = g]
    BY <1>1, <2>2
  <2>5. \A q \in Peers : filters'[q] = filters[q] \/ filters'[q] = g
    BY ONLY <1>0, <2>4, Zenon
  <2> QED BY <1>1, <2>3, <2>5
<1>2. ASSUME NEW p \in Peers, StoreChange(p) PROVE cycle' = cycle /\ filters' = filters /\ Len(changes') <= MaxChanges
  <2>1. PICK c : changes' = Append(changes, c)
    BY <1>2 DEF StoreChange
  <2>2. cycle' = cycle /\ filters' = filters /\ Len(changes) < MaxChanges
    BY <1>2 DEF StoreChange
  <2>3. Len(changes') <= MaxChanges
    BY ONLY <1>0, <2>1, <2>2, SMT
  <2> QED BY <2>2, <2>3
<1>3. ASSUME NEW i, MarkDirty(i) PROVE cycle' = cycle /\ (\A q \in Peers : filters'[q].cur.idx = filters[q].cur.idx) /\ Len(changes') = Len(changes)
  <2>1. DOMAIN changes' = DOMAIN changes /\ \A q \in Peers : filters'[q].cur.idx = filters[q].cur.idx
    BY <1>3, MarkDirtyFacts
  <2>2. DOMAIN changes = 1..Len(changes) /\ Len(changes) \in Nat /\ DOMAIN changes' = 1..Len(changes') /\ Len(changes') \in Nat
    BY ChangeFacts, SMT DEF TrackTypes
  <2>3. Len(changes') = Len(changes)
    BY ONLY <2>1, <2>2, SMT
  <2> QED BY <1>3, <2>1, <2>3 DEF MarkDirty
<1>4. ASSUME NEW p \in Peers, AskPeer(p)
      PROVE  cycle' # 0 /\ (\A q \in Peers : filters'[q].cur.idx # 0) /\ Len(changes') <= MaxChanges
  BY <1>1, <1>4, AskPeerFacts DEF AskPeer
<1>5. ASSUME BeginCycle
      PROVE  cycle' # 0 /\ (\A q \in Peers : filters'[q].cur.idx # 0) /\ Len(changes') <= MaxChanges
  BY <1>0, <1>1, <1>5, BeginCycleFacts DEF BeginCycle
<1>6. ASSUME ScanFolder \/ ScanSkipped \/ ScanFails \/ StoreCycle \/ UNCHANGED trackVars
      PROVE  cycle' # 0 /\ (\A q \in Peers : filters'[q].cur.idx # 0) /\ Len(changes') <= MaxChanges
  <2>1. cycle + 1 # 0
    BY ONLY <1>0, SMT
  <2>2. ASSUME ScanFolder \/ ScanSkipped PROVE cycle' = cycle + 1 /\ filters' = filters /\ changes' = changes
    BY <2>2 DEF ScanFolder, ScanSkipped
  <2>3. ASSUME ScanFails \/ StoreCycle \/ UNCHANGED trackVars PROVE cycle' = cycle /\ filters' = filters /\ changes' = changes
    BY <2>3 DEF ScanFails, StoreCycle, trackVars
  <2> QED BY <1>6, <2>1, <2>2, <2>3
<1>7. ASSUME NEW p \in Peers, SaveFilters(p) PROVE cycle' = cycle /\ (\A q \in Peers : filters'[q].cur = filters[q].cur) /\ changes' = changes
  BY <1>7, SaveFacts DEF SaveFilters
<1>8. ASSUME NEW p \in Peers, RestartPeer(p)
      PROVE  cycle' # 0 /\ (\A q \in Peers : filters'[q].cur.idx # 0) /\ Len(changes') <= MaxChanges
  <2>1. \A q \in Peers : filters'[q].cur.idx # 0
    BY <1>8, RestartFacts, LoadedType DEF TrackTypes
  <2>2. Len(changes') = Len(changes)
    <3>1. DOMAIN changes' = DOMAIN changes
      BY <1>8, RestartFacts
    <3>2. DOMAIN changes = 1..Len(changes) /\ Len(changes) \in Nat /\ DOMAIN changes' = 1..Len(changes') /\ Len(changes') \in Nat
      BY ChangeFacts, SMT DEF TrackTypes
    <3> QED BY ONLY <3>1, <3>2, SMT
  <2>3. cycle' # 0
    <3>1. CASE p # leader
      BY <1>8, <3>1 DEF RestartPeer
    <3>2. CASE p = leader
      <4>1. leader' \in Peers /\ cycle' = IF storedCycle # 0 THEN storedCycle ELSE filters'[leader'].cur.idx + 1
        BY <1>8, <3>2 DEF RestartPeer
      <4>2. filters'[leader'].cur.idx \in Nat
        <5>1. filters'[leader'] \in TrackFilters
          BY <4>1 DEF TrackTypes
        <5> QED BY <5>1 DEF TrackFilters, TrackEntries
      <4>3. filters'[leader'].cur.idx + 1 # 0
        BY ONLY <4>2, SMT
      <4> QED BY <4>1, <4>3
    <3> QED BY <3>1, <3>2
  <2> QED BY <2>1, <2>2, <2>3
<1> QED BY <1>2, <1>3, <1>4, <1>5, <1>6, <1>7, <1>8 DEF TrackNext

\* latestWithDir answers a cycle, and none before one that the server knows to
\* have a change.
LEMMA LatestFacts ==
  ASSUME NEW f \in TrackFilters, f.cur.idx # 0
  PROVE  /\ LatestWithDir(f) \in Nat
         /\ \A m \in Nat : m <= f.cur.idx /\ (\A e \in Entries(f) : e.idx = m => e.dirty) => m <= LatestWithDir(f)
<1>0. f.cur.idx \in Nat /\ f.cur.idx # 0
  BY DEF TrackFilters, TrackEntries
<1>1. CASE f.cur.dirty
  BY <1>0, <1>1 DEF LatestWithDir
<1>2. CASE ~f.cur.dirty
  <2> DEFINE n == f.cur.idx - 1
             known(c) == c = 0 \/ \A e \in Find(f, c) : e.dirty
             last(c) == known(c) /\ \A d \in c + 1..n : \E e \in Find(f, d) : ~e.dirty
             S == {c \in 0..n : known(c)}
  <2>1. n \in Nat /\ 0 \in 0..n
    BY ONLY <1>0, SMT
  <2>2. PICK c \in S : \A x \in S : x <= c
    <3>1. 0 \in S /\ S \in SUBSET (0..n)
      BY <2>1
    <3> HIDE DEF S, n
    <3> QED BY <2>1, <3>1, LargestNumber
  <2>3. c \in 0..n /\ last(c)
    <3>1. c \in 0..n /\ known(c)
      BY <2>2
    <3>2. ASSUME NEW d \in c + 1..n PROVE \E e \in Find(f, d) : ~e.dirty
      <4>1. d \in 0..n /\ ~(d <= c) /\ d # 0
        BY ONLY <2>1, <3>1, d \in c + 1..n, SMT
      <4>2. d \notin S
        BY <2>2, <4>1
      <4> QED BY <4>1, <4>2
    <3> QED BY <3>1, <3>2
  <2>4. LatestWithDir(f) = CHOOSE x \in 0..n : last(x)
    BY <1>2 DEF LatestWithDir
  <2>5. LatestWithDir(f) \in 0..n /\ last(LatestWithDir(f))
    <3> HIDE DEF last, n
    <3> QED BY <2>3, <2>4
  <2>6. LatestWithDir(f) \in Nat
    BY ONLY <2>1, <2>5, SMT
  <2>7. ASSUME NEW m \in Nat, m <= f.cur.idx, \A e \in Entries(f) : e.idx = m => e.dirty PROVE m <= LatestWithDir(f)
    <3>1. m # f.cur.idx
      BY <1>2, <2>7 DEF Entries
    <3>2. \A e \in Find(f, m) : e.dirty
      BY <2>7 DEF Find, Entries
    <3>3. m \notin LatestWithDir(f) + 1..n
      BY <2>5, <3>2
    <3> QED BY ONLY <1>0, <2>6, <2>7, <3>1, <3>3, SMT
  <2> QED BY <2>6, <2>7
<1> QED BY <1>1, <1>2

-----------------------------------------------------------------------------
(* Steps that leave a request alone.                                          *)

\* Marks that a request knows of stay.
KeepsMarks ==
  /\ Marked \subseteq Marked' /\ lostMarks \subseteq lostMarks' /\ (~rewound' => ~rewound)
  /\ \A i \in Marked : changes'[i].on = changes[i].on /\ changes'[i].idx = changes[i].idx

\* No listing appears for a request that does not have one, and none of a walk
\* that failed becomes whole.
KeepsCache(l) ==
  /\ caches[l].status = "none" /\ savedCaches[l].status = "none" =>
       caches'[l].status = "none" /\ savedCaches'[l].status = "none"
  /\ l \in broken' => l \in broken
  /\ ~forgot' => ~forgot /\ (caches[l].status \in {"none", "error"} => caches'[l].status \in {"none", "error"})

LEMMA RequestKept ==
  ASSUME KeepsMarks, NEW l \in ListIds, ListingOne(l), KeepsCache(l), broken \subseteq broken',
         lister'[l] = lister[l], walker'[l] = walker[l] \/ (walker'[l].pc # "walk" /\ walker'[l].told = walker[l].told)
  PROVE  ListingOne(l)'
<1>0. lister[l].need \subseteq Marked /\ AsksKnow(l) /\ ReadsLate(l) /\ WalkSees(l) /\ CacheHonest(l)
  BY DEF ListingOne
<1>1. lister'[l].need \subseteq Marked'
  BY <1>0 DEF KeepsMarks
<1>2. \A i \in lister[l].need \ lostMarks' :
        /\ i \in lister[l].need \ lostMarks /\ changes'[i].on = changes[i].on /\ changes'[i].idx = changes[i].idx
  BY <1>0 DEF KeepsMarks
<1>3. AsksKnow(l)'
  BY <1>0, <1>2 DEF AsksKnow, KeepsMarks
<1>4. ReadsLate(l)'
  BY <1>0, <1>2 DEF ReadsLate, KeepsMarks
<1>5. WalkSees(l)'
  BY <1>0 DEF WalkSees
<1>6. CacheHonest(l)'
  BY <1>0 DEF CacheHonest, KeepsCache
<1> QED BY <1>1, <1>3, <1>4, <1>5, <1>6 DEF ListingOne

\* A request that fails.
LEMMA RequestFails ==
  ASSUME KeepsMarks, NEW l \in ListIds, ListingOne(l), KeepsCache(l), lister \in [ListIds -> ListRecords],
         lister'[l] = [lister[l] EXCEPT !.pc = "error"], lister[l].pc # "done", walker'[l].pc # "walk"
  PROVE  ListingOne(l)'
<1>0. lister[l].need \subseteq Marked /\ CacheHonest(l) /\ lister[l] \in ListRecords
  BY DEF ListingOne
<1>1. lister'[l].pc = "error" /\ lister'[l].need = lister[l].need /\ lister'[l].half = lister[l].half
  BY <1>0 DEF ListRecords
<1>2. lister'[l].need \subseteq Marked'
  BY <1>0, <1>1 DEF KeepsMarks
<1>3. AsksKnow(l)' /\ ReadsLate(l)' /\ WalkSees(l)'
  BY <1>1 DEF AsksKnow, ReadsLate, WalkSees
<1>4. CacheHonest(l)'
  <2>1. l \notin broken'
    BY <1>0 DEF CacheHonest, KeepsCache
  <2>2. lister'[l].half => forgot'
    <3>1. lister[l].half => forgot
      BY <1>0 DEF CacheHonest
    <3> QED BY <1>1, <3>1 DEF KeepsCache
  <2> QED BY <1>1, <2>1, <2>2 DEF CacheHonest
<1> QED BY <1>2, <1>3, <1>4 DEF ListingOne

LEMMA TrackerAlone ==
  ASSUME UNCHANGED <<filters, filterFiles, leader, cycle, storedCycle, scan, folderCycle, changes, lostMarks, rewound>>
  PROVE  /\ KeepsMarks /\ (TrackTypes => TrackTypes') /\ (TrackMarks => TrackMarks')
         /\ (~rewound => TrackMarks) => (~rewound' => TrackMarks')
<1>1. KeepsMarks
  BY DEF KeepsMarks, Marked
<1>2. TrackTypes => TrackTypes'
  BY DEF TrackTypes
<1>3. TrackMarks => TrackMarks'
  BY DEF TrackMarks, FiltersOrdered, MarkThere, Marked
<1> QED BY <1>1, <1>2, <1>3

LEMMA UpdatedFacts ==
  ASSUME NEW c \in CacheRecords, NEW s \in {"success", "error"}, NEW e \in Nat
  PROVE  /\ UpdatedCache(c, s, e) \in CacheRecords /\ UpdatedCache(c, s, e).started = c.started
         /\ c.status = "none" => UpdatedCache(c, s, e).status = "none"
         /\ s = "error" => UpdatedCache(c, s, e).status \in {"none", "error"}
<1>1. CASE c.status = "none"
  BY <1>1 DEF UpdatedCache
<1>2. CASE c.status # "none" /\ s = "error"
  BY <1>2 DEF UpdatedCache, CacheRecords
<1>3. CASE c.status = "started" /\ s # "error"
  BY <1>3 DEF UpdatedCache, CacheRecords
<1>4. CASE c.status \notin {"none", "started"} /\ s # "error"
  BY <1>4 DEF UpdatedCache, CacheRecords
<1> QED BY <1>1, <1>2, <1>3, <1>4

LEMMA ListFacts ==
  ASSUME ListTypes, NEW l \in ListIds
  PROVE  /\ lister[l] \in ListRecords /\ walker[l] \in WalkRecords /\ caches[l] \in CacheRecords
         /\ savedCaches[l] \in CacheRecords /\ blocks[l] \in SUBSET Nat
         /\ l \in Nat /\ l # 0 /\ ListIds \subseteq Nat
<1>1. NLists \in Nat
  BY MetacacheAssumption
<1>2. ListIds \subseteq Nat /\ 0 \notin ListIds
  BY ONLY <1>1, SMT DEF ListIds
<1> QED BY <1>2 DEF ListTypes

\* An error noted for one listing.
LEMMA ErrorNoted ==
  ASSUME ListTypes, NEW k \in ListIds, caches' = [caches EXCEPT ![k] = UpdatedCache(@, "error", 0)]
  PROVE  /\ caches' \in [ListIds -> CacheRecords]
         /\ \A j \in ListIds : /\ caches'[j].started = caches[j].started
                               /\ caches[j].status = "none" => caches'[j].status = "none"
                               /\ caches[j].status \in {"none", "error"} => caches'[j].status \in {"none", "error"}
         /\ caches'[k].status \in {"none", "error"}
<1>1. PICK c : c = UpdatedCache(caches[k], "error", 0)
  OBVIOUS
<1>2. 0 \in Nat /\ caches[k] \in CacheRecords /\ caches \in [ListIds -> CacheRecords]
  BY ListFacts, SMT DEF ListTypes
<1>3. c \in CacheRecords /\ c.started = caches[k].started /\ c.status \in {"none", "error"}
      /\ (caches[k].status = "none" => c.status = "none")
  BY <1>1, <1>2, UpdatedFacts
<1>4. caches' = [caches EXCEPT ![k] = c]
  BY <1>1
<1>5. caches'[k] = c /\ (\A j \in ListIds : j # k => caches'[j] = caches[j]) /\ caches' \in [ListIds -> CacheRecords]
  BY ONLY <1>2, <1>3, <1>4, Zenon
<1> QED BY <1>3, <1>5

-----------------------------------------------------------------------------
(* The steps of the owner and of the tracker.                                 *)

LEMMA TrackerMoves ==
  ASSUME ListIInv, [TrackNext]_trackVars
  PROVE  /\ TrackTypes' /\ (~rewound' => TrackMarks') /\ KeepsMarks
         /\ cycle' # 0 /\ (\A p \in Peers : filters'[p].cur.idx # 0) /\ Len(changes') <= MaxChanges
<1>1. TrackTypes /\ TrackTypes' /\ ListTypes
  BY TypesStep DEF ListIInv
<1>2. ASSUME ~rewound' PROVE TrackMarks'
  <2>1. ~rewound
    BY <1>2, RewoundStays
  <2> QED BY <1>1, <1>2, <2>1, MarksStep DEF ListIInv
<1>3. KeepsMarks
  BY <1>1, MarksFixed, RewoundStays DEF KeepsMarks
<1>4. cycle' # 0 /\ (\A p \in Peers : filters'[p].cur.idx # 0) /\ Len(changes') <= MaxChanges
  BY <1>1, CyclesStep DEF ListTypes
<1> QED BY <1>1, <1>2, <1>3, <1>4

LEMMA TrackStepsOK ==
  ASSUME ListIInv, [TrackNext]_trackVars, UNCHANGED listVars
  PROVE  ListIInv'
<1>1. /\ TrackTypes' /\ (~rewound' => TrackMarks') /\ KeepsMarks
      /\ cycle' # 0 /\ (\A p \in Peers : filters'[p].cur.idx # 0) /\ Len(changes') <= MaxChanges
  BY TrackerMoves
<1>2. /\ lister' = lister /\ caches' = caches /\ savedCaches' = savedCaches /\ walker' = walker /\ blocks' = blocks
      /\ begun' = begun /\ broken' = broken /\ forgot' = forgot
  BY DEF listVars
<1>3. ListTypes'
  BY <1>1, <1>2 DEF ListIInv, ListTypes
<1>4. ASSUME NEW l \in ListIds PROVE ListingOne(l)'
  <2>1. KeepsCache(l) /\ ListingOne(l)
    BY <1>2 DEF KeepsCache, ListIInv
  <2> QED BY <1>1, <1>2, <2>1, RequestKept
<1> QED BY <1>1, <1>3, <1>4 DEF ListIInv

\* A step that leaves the tracker and the requests alone.
LEMMA OwnerStep ==
  ASSUME ListIInv, lister' = lister, broken' = broken, forgot' = forgot, begun' = begun,
         UNCHANGED <<filters, filterFiles, leader, cycle, storedCycle, scan, folderCycle, changes, lostMarks, rewound>>,
         caches' \in [ListIds -> CacheRecords], savedCaches' \in [ListIds -> CacheRecords],
         blocks' \in [ListIds -> SUBSET Nat], walker' \in [ListIds -> WalkRecords],
         \A k \in ListIds : /\ caches'[k].started <= begun /\ savedCaches'[k].started <= begun
                            /\ KeepsCache(k)
                            /\ (walker'[k] = walker[k] \/ (walker'[k].pc # "walk" /\ walker'[k].told = walker[k].told))
  PROVE  ListIInv'
<1>1. TrackTypes' /\ (~rewound' => TrackMarks') /\ KeepsMarks
  BY TrackerAlone DEF ListIInv
<1>2. ListTypes'
  BY DEF ListIInv, ListTypes
<1>3. ASSUME NEW l \in ListIds PROVE ListingOne(l)'
  BY <1>1, RequestKept DEF ListIInv
<1> QED BY <1>1, <1>2, <1>3 DEF ListIInv

LEMMA GoSilentOK ==
  ASSUME ListIInv, NEW k \in ListIds, GoSilent(k)
  PROVE  ListIInv'
<1>0. ListTypes /\ caches \in [ListIds -> CacheRecords] /\ caches[k] \in CacheRecords
  BY DEF ListIInv, ListTypes
<1>1. caches' = [caches EXCEPT ![k].silent = TRUE]
  BY DEF GoSilent
<1>2. /\ caches' \in [ListIds -> CacheRecords]
      /\ \A j \in ListIds : caches'[j].status = caches[j].status /\ caches'[j].started = caches[j].started
  BY ONLY <1>0, <1>1, Zenon DEF CacheRecords
<1>3. \A j \in ListIds : KeepsCache(j)
  BY <1>2 DEF KeepsCache, GoSilent
<1> QED BY <1>0, <1>2, <1>3, OwnerStep DEF GoSilent, trackVars, ListTypes

LEMMA CleanupOK ==
  ASSUME ListIInv, NEW k \in ListIds, Cleanup(k)
  PROVE  ListIInv'
<1>0. ListTypes /\ caches \in [ListIds -> CacheRecords] /\ blocks \in [ListIds -> SUBSET Nat] /\ begun \in Nat
  BY DEF ListIInv, ListTypes
<1>1. caches' = [caches EXCEPT ![k] = NoCache] /\ blocks' = [blocks EXCEPT ![k] = NoBlock]
  BY DEF Cleanup
<1>2. 0 \in Nat /\ 0 <= begun
  BY <1>0, SMT
<1>3. NoCache \in CacheRecords /\ NoCache.status = "none" /\ NoCache.started = 0 /\ NoBlock \in SUBSET Nat
  BY <1>2 DEF NoCache, CacheRecords, NoBlock
<1>4. /\ caches' \in [ListIds -> CacheRecords] /\ blocks' \in [ListIds -> SUBSET Nat]
      /\ \A j \in ListIds : caches'[j] = caches[j] \/ caches'[j] = NoCache
  BY ONLY <1>0, <1>1, <1>3, Zenon
<1>5. \A j \in ListIds : KeepsCache(j) /\ caches'[j].started <= begun
  BY <1>0, <1>2, <1>3, <1>4 DEF KeepsCache, Cleanup, ListTypes
<1> QED BY <1>0, <1>4, <1>5, OwnerStep DEF Cleanup, trackVars, ListTypes

LEMMA SaveCachesOK ==
  ASSUME ListIInv, SaveCaches
  PROVE  ListIInv'
<1>0. ListTypes /\ savedCaches' = caches /\ caches' = caches
  BY DEF ListIInv, SaveCaches
<1>1. \A j \in ListIds : KeepsCache(j)
  BY <1>0 DEF KeepsCache, SaveCaches
<1> QED BY <1>0, <1>1, OwnerStep DEF SaveCaches, trackVars, ListTypes

LEMMA FlushBlockOK ==
  ASSUME ListIInv, NEW l \in ListIds, FlushBlock(l)
  PROVE  ListIInv'
<1>0. /\ ListTypes /\ caches \in [ListIds -> CacheRecords] /\ blocks \in [ListIds -> SUBSET Nat] /\ walker[l] \in WalkRecords
      /\ walker \in [ListIds -> WalkRecords] /\ walker[l].seen \in SUBSET Nat
  BY DEF ListIInv, ListTypes, WalkRecords
<1>1. walker' = [walker EXCEPT ![l].pc = "done"]
  BY DEF FlushBlock
<1>2. /\ walker' \in [ListIds -> WalkRecords]
      /\ \A j \in ListIds : walker'[j] = walker[j] \/ (walker'[j].pc # "walk" /\ walker'[j].told = walker[j].told)
  <2>1. PICK w : w = [walker[l] EXCEPT !.pc = "done"]
    OBVIOUS
  <2>2. w \in WalkRecords /\ w.pc # "walk" /\ w.told = walker[l].told
    BY <1>0, <2>1 DEF WalkRecords
  <2>3. walker' = [walker EXCEPT ![l] = w]
    BY <1>1, <2>1
  <2> QED BY ONLY <1>0, <2>2, <2>3, Zenon
<1>3. CASE (blocks' = [blocks EXCEPT ![l] = walker[l].seen] \/ blocks' = blocks) /\ caches' = caches
  <2>1. blocks' \in [ListIds -> SUBSET Nat]
    BY ONLY <1>0, <1>3, Zenon
  <2>2. \A j \in ListIds : KeepsCache(j)
    BY <1>3 DEF KeepsCache, FlushBlock
  <2> QED BY <1>0, <1>2, <1>3, <2>1, <2>2, OwnerStep DEF FlushBlock, ListTypes
<1>4. CASE caches' = [caches EXCEPT ![l] = UpdatedCache(@, "error", 0)] /\ blocks' = blocks
  <2>1. /\ caches' \in [ListIds -> CacheRecords]
        /\ \A j \in ListIds : /\ caches'[j].started = caches[j].started
                              /\ caches[j].status = "none" => caches'[j].status = "none"
                              /\ caches[j].status \in {"none", "error"} => caches'[j].status \in {"none", "error"}
    BY <1>0, <1>4, ErrorNoted
  <2>2. \A j \in ListIds : KeepsCache(j)
    BY <2>1 DEF KeepsCache, FlushBlock
  <2> QED BY <1>0, <1>2, <1>4, <2>1, <2>2, OwnerStep DEF FlushBlock, ListTypes
<1> QED BY <1>3, <1>4 DEF FlushBlock, WalkReport

LEMMA RestartListerOK ==
  ASSUME ListIInv, NEW p \in Peers, RestartLister(p)
  PROVE  ListIInv'
<1>0. /\ ListTypes /\ lister \in [ListIds -> ListRecords] /\ walker \in [ListIds -> WalkRecords]
      /\ \A l \in ListIds : ListingOne(l)
  BY DEF ListIInv, ListTypes
<1>1. /\ TrackTypes' /\ (~rewound' => TrackMarks') /\ KeepsMarks
      /\ cycle' # 0 /\ (\A q \in Peers : filters'[q].cur.idx # 0) /\ Len(changes') <= MaxChanges
  <2>1. TrackNext
    BY DEF RestartLister, TrackNext
  <2> QED BY <2>1, TrackerMoves
<1>2. /\ caches' = IF p = Owner THEN savedCaches ELSE caches
      /\ savedCaches' = savedCaches /\ blocks' = blocks /\ begun' = begun /\ broken' = broken
      /\ forgot' = (forgot \/ p = Owner)
  BY DEF RestartLister
<1>3. lister' = [l \in ListIds |-> IF lister[l].on = p /\ lister[l].pc \notin {"idle", "done"}
                                   THEN [lister[l] EXCEPT !.pc = "error"] ELSE lister[l]]
  BY DEF RestartLister
<1>4. walker' = [l \in ListIds |-> IF lister[l].on = p /\ walker[l].pc \in {"walk", "flush"}
                                   THEN [walker[l] EXCEPT !.pc = "dead"] ELSE walker[l]]
  BY DEF RestartLister
<1>5. ASSUME NEW l \in ListIds
      PROVE  /\ lister'[l] \in ListRecords /\ walker'[l] \in WalkRecords /\ ListingOne(l)'
  <2>0. lister[l] \in ListRecords /\ walker[l] \in WalkRecords /\ ListingOne(l)
    BY <1>0
  <2>1. walker'[l] \in WalkRecords /\ (walker'[l] = walker[l] \/ (walker'[l].pc # "walk" /\ walker'[l].told = walker[l].told))
        /\ (lister[l].on = p => walker'[l].pc # "walk")
    <3>1. CASE lister[l].on = p /\ walker[l].pc \in {"walk", "flush"}
      <4>1. walker'[l] = [walker[l] EXCEPT !.pc = "dead"]
        BY <1>4, <3>1
      <4> QED BY <2>0, <4>1 DEF WalkRecords
    <3>2. CASE ~(lister[l].on = p /\ walker[l].pc \in {"walk", "flush"})
      <4>1. walker'[l] = walker[l]
        BY <1>4, <3>2
      <4> QED BY <2>0, <3>2, <4>1
    <3> QED BY <3>1, <3>2
  <2>2. KeepsCache(l)
    <3>1. CASE p # Owner
      <4>1. caches' = caches /\ (~forgot' => ~forgot)
        BY <1>2, <3>1
      <4> QED BY <1>2, <4>1 DEF KeepsCache
    <3>2. CASE p = Owner
      <4>1. caches' = savedCaches /\ forgot'
        BY <1>2, <3>2
      <4> QED BY <1>2, <4>1 DEF KeepsCache
    <3> QED BY <3>1, <3>2
  <2>3. CASE lister[l].on = p /\ lister[l].pc \notin {"idle", "done"}
    <3>1. lister'[l] = [lister[l] EXCEPT !.pc = "error"]
      BY <1>3, <2>3
    <3>2. lister'[l] \in ListRecords
      BY <2>0, <3>1 DEF ListRecords
    <3>3. lister[l].pc # "done" /\ walker'[l].pc # "walk"
      BY <2>1, <2>3
    <3> QED BY <1>0, <1>1, <2>0, <2>1, <2>2, <3>1, <3>2, <3>3, RequestFails
  <2>4. CASE ~(lister[l].on = p /\ lister[l].pc \notin {"idle", "done"})
    <3>1. lister'[l] = lister[l]
      BY <1>3, <2>4
    <3> QED BY <1>1, <1>2, <2>0, <2>1, <2>2, <3>1, RequestKept
  <2> QED BY <2>3, <2>4
<1>6. lister' \in [ListIds -> ListRecords] /\ walker' \in [ListIds -> WalkRecords]
  BY <1>3, <1>4, <1>5
<1>7. ListTypes'
  <2>1. caches' = caches \/ caches' = savedCaches
    BY <1>2
  <2> QED BY <1>0, <1>1, <1>2, <1>6, <2>1 DEF ListTypes
<1> QED BY <1>1, <1>5, <1>7 DEF ListIInv

-----------------------------------------------------------------------------
(* The steps of the requests.                                                 *)

\* A step of one request, which leaves the tracker alone.
LEMMA RequestStep ==
  ASSUME ListIInv, NEW l \in ListIds, NEW r \in ListRecords, lister' = [lister EXCEPT ![l] = r],
         UNCHANGED <<filters, filterFiles, leader, cycle, storedCycle, scan, folderCycle, changes, lostMarks, rewound>>,
         UNCHANGED <<savedCaches, blocks, forgot>>, broken' \subseteq broken \cup {l}, broken \subseteq broken',
         caches' \in [ListIds -> CacheRecords], walker' \in [ListIds -> WalkRecords],
         begun' \in Nat, begun <= begun',
         \A k \in ListIds : /\ caches'[k].started <= begun'
                            /\ k # l => KeepsCache(k) /\ walker'[k] = walker[k],
         ListingOne(l)'
  PROVE  ListIInv'
<1>0. ListTypes /\ lister \in [ListIds -> ListRecords] /\ begun \in Nat /\ \A k \in ListIds : ListingOne(k)
  BY DEF ListIInv, ListTypes
<1>1. TrackTypes' /\ (~rewound' => TrackMarks') /\ KeepsMarks
  BY TrackerAlone DEF ListIInv
<1>2. lister' \in [ListIds -> ListRecords] /\ \A k \in ListIds : k # l => lister'[k] = lister[k]
  BY ONLY <1>0, lister' = [lister EXCEPT ![l] = r], r \in ListRecords, Zenon
<1>3. ASSUME NEW k \in ListIds PROVE savedCaches'[k].started <= begun'
  <2>1. savedCaches[k].started \in Nat /\ savedCaches[k].started <= begun /\ savedCaches' = savedCaches
    BY <1>0 DEF ListTypes, CacheRecords
  <2>2. begun <= begun' /\ begun' \in Nat
    OBVIOUS
  <2>3. PICK b : b = begun'
    OBVIOUS
  <2>4. savedCaches[k].started <= b
    <3>1. begun <= b /\ b \in Nat
      BY <2>2, <2>3
    <3> QED BY ONLY <1>0, <2>1, <3>1, SMT
  <2> QED BY <2>1, <2>3, <2>4
<1>4. ListTypes'
  BY <1>0, <1>2, <1>3 DEF ListTypes
<1>5. ASSUME NEW k \in ListIds PROVE ListingOne(k)'
  <2>1. CASE k # l
    BY <1>0, <1>1, <1>2, <2>1, RequestKept
  <2> QED BY <2>1
<1> QED BY <1>1, <1>4, <1>5 DEF ListIInv

LEMMA ReadBlockOK ==
  ASSUME ListIInv, NEW l \in ListIds, ReadBlock(l)
  PROVE  ListIInv'
<1>0. /\ ListTypes /\ ListingOne(l) /\ lister[l] \in ListRecords /\ begun \in Nat
      /\ caches' = caches /\ walker' = walker /\ begun' = begun /\ broken' = broken /\ savedCaches' = savedCaches
      /\ blocks' = blocks /\ forgot' = forgot /\ lister[l].pc = "read"
  BY ListFacts DEF ListIInv, ListTypes, ReadBlock
<1>1. lister[l].use # l /\ lister[l].use \in ListIds /\ lister[l].need \subseteq Marked
  BY <1>0 DEF ListingOne, ReadsLate
<1>2. PICK b \in SUBSET Nat : b = blocks[lister[l].use]
  BY <1>0, <1>1, ListFacts
<1>3. PICK r : r = [lister[l] EXCEPT !.pc = "done", !.got = b]
  OBVIOUS
<1>4. /\ r \in ListRecords /\ r.pc = "done" /\ r.need = lister[l].need /\ r.use = lister[l].use /\ r.from = lister[l].from
      /\ r.deaf = lister[l].deaf /\ r.half = lister[l].half
  BY <1>0, <1>3 DEF ListRecords
<1>5. lister' = [lister EXCEPT ![l] = r]
  BY <1>2, <1>3 DEF ReadBlock
<1>6. lister'[l] = r
  BY <1>0, <1>5 DEF ListTypes
<1>7. UNCHANGED <<filters, filterFiles, leader, cycle, storedCycle, scan, folderCycle, changes, lostMarks, rewound>>
  BY DEF ReadBlock, trackVars
<1>8. ListingOne(l)'
  <2>1. lister'[l].need \subseteq Marked'
    BY <1>1, <1>4, <1>6, <1>7 DEF Marked
  <2>2. AsksKnow(l)'
    BY <1>4, <1>6 DEF AsksKnow
  <2>3. ReadsLate(l)'
    <3>1. ReadsLate(l)
      BY <1>0 DEF ListingOne
    <3> QED BY <1>0, <1>1, <1>4, <1>6, <1>7, <3>1 DEF ReadsLate
  <2>4. WalkSees(l)'
    <3>1. walker[l].pc # "walk"
      BY <1>0 DEF ListingOne, WalkSees
    <3> QED BY <1>0, <1>1, <1>4, <1>6, <3>1 DEF WalkSees
  <2>5. CacheHonest(l)'
    BY <1>0, <1>4, <1>6 DEF ListingOne, CacheHonest
  <2> QED BY <2>1, <2>2, <2>3, <2>4, <2>5 DEF ListingOne
<1>9. \A k \in ListIds : KeepsCache(k)
  BY <1>0 DEF KeepsCache
<1>10. begun <= begun'
  BY ONLY <1>0, SMT
<1> QED BY <1>0, <1>4, <1>5, <1>7, <1>8, <1>9, <1>10, RequestStep DEF ListTypes

\* The listing that findCache returns is one that matches.
LEMMA BestMatchFacts ==
  ASSUME ListTypes, NEW old, BestMatch(old) # 0
  PROVE  BestMatch(old) \in ListIds /\ Matches(caches[BestMatch(old)], old)
<1> DEFINE M == {k \in ListIds : Matches(caches[k], old)}
           T == {caches[k].started : k \in M}
<1>1. M # {}
  BY DEF BestMatch
<1>2. T # {} /\ T \in SUBSET (0..begun) /\ begun \in Nat
  <2>1. \A k \in ListIds : caches[k].started \in Nat /\ caches[k].started <= begun /\ begun \in Nat
    BY DEF ListTypes, CacheRecords
  <2>2. begun \in Nat
    BY DEF ListTypes
  <2>3. \A n \in Nat : n <= begun => n \in 0..begun
    BY ONLY <2>2, SMT
  <2> QED BY <1>1, <2>1, <2>2, <2>3
<1>3. PICK m \in T : \A x \in T : x <= m
  <2> HIDE DEF T
  <2> QED BY <1>2, LargestNumber
<1>4. \E k \in M : \A j \in M : caches[j].started <= caches[k].started
  BY <1>3
<1>5. BestMatch(old) = CHOOSE k \in M : \A j \in M : caches[j].started <= caches[k].started
  BY <1>1 DEF BestMatch
<1>6. BestMatch(old) \in M
  <2> HIDE DEF M
  <2> QED BY <1>4, <1>5
<1> QED BY <1>6

LEMMA CheckStateOK ==
  ASSUME ListIInv, NEW l \in ListIds, CheckState(l)
  PROVE  ListIInv'
<1>0. /\ ListTypes /\ ListingOne(l) /\ lister[l] \in ListRecords /\ begun \in Nat
      /\ walker' = walker /\ begun' = begun /\ broken' = broken /\ savedCaches' = savedCaches
      /\ blocks' = blocks /\ forgot' = forgot /\ lister[l].pc = "read"
  BY ListFacts DEF ListIInv, ListTypes, CheckState
<1>1. lister[l].use \in ListIds
  BY <1>0 DEF ListingOne, ReadsLate
<1>2. PICK k : k = IF caches[lister[l].use].status # "none" THEN lister[l].use ELSE BestMatch(lister[l].old)
  OBVIOUS
<1>3. k # 0 => k \in ListIds
  BY <1>0, <1>1, <1>2, BestMatchFacts
<1>4. /\ caches' \in [ListIds -> CacheRecords]
      /\ \A j \in ListIds : /\ caches'[j].started = caches[j].started
                            /\ caches[j].status = "none" => caches'[j].status = "none"
                            /\ caches[j].status \in {"none", "error"} => caches'[j].status \in {"none", "error"}
  <2>1. CASE k # 0
    <3>1. caches' = [caches EXCEPT ![k] = UpdatedCache(@, "error", 0)]
      BY <1>2, <2>1 DEF CheckState
    <3> QED BY <1>0, <1>3, <2>1, <3>1, ErrorNoted
  <2>2. CASE k = 0
    <3>1. caches' = caches
      BY <1>2, <2>2 DEF CheckState
    <3> QED BY <1>0, <3>1 DEF ListTypes
  <2> QED BY <2>1, <2>2
<1>5. PICK r : r = [lister[l] EXCEPT !.pc = "error"]
  OBVIOUS
<1>6. r \in ListRecords
  BY <1>0, <1>5 DEF ListRecords
<1>7. lister' = [lister EXCEPT ![l] = r]
  BY <1>5 DEF CheckState
<1>8. lister'[l] = [lister[l] EXCEPT !.pc = "error"]
  BY <1>0, <1>5, <1>7 DEF ListTypes
<1>9. UNCHANGED <<filters, filterFiles, leader, cycle, storedCycle, scan, folderCycle, changes, lostMarks, rewound>>
  BY DEF CheckState, trackVars
<1>10. \A j \in ListIds : KeepsCache(j)
  BY <1>0, <1>4 DEF KeepsCache
<1>11. ListingOne(l)'
  <2>1. walker'[l].pc # "walk" /\ lister[l].pc # "done"
    BY <1>0 DEF ListingOne, WalkSees
  <2>2. KeepsMarks
    BY <1>9, TrackerAlone
  <2> QED BY <1>0, <1>8, <1>10, <2>1, <2>2, RequestFails DEF ListTypes
<1>12. begun <= begun'
  BY ONLY <1>0, SMT
<1> QED BY <1>0, <1>4, <1>6, <1>7, <1>9, <1>10, <1>11, <1>12, RequestStep DEF ListTypes

LEMMA WalkRefusedOK ==
  ASSUME ListIInv, NEW l \in ListIds, WalkRefused(l)
  PROVE  ListIInv'
<1>0. /\ ListTypes /\ ListingOne(l) /\ lister[l] \in ListRecords /\ walker[l] \in WalkRecords /\ begun \in Nat
      /\ begun' = begun /\ broken' = broken /\ savedCaches' = savedCaches
      /\ blocks' = blocks /\ forgot' = forgot /\ walker[l].pc = "walk" /\ walker \in [ListIds -> WalkRecords]
  BY ListFacts DEF ListIInv, ListTypes, WalkRefused
<1>1. lister[l].pc = "own"
  BY <1>0 DEF ListingOne, WalkSees
<1>2. /\ caches' \in [ListIds -> CacheRecords]
      /\ \A j \in ListIds : /\ caches'[j].started = caches[j].started
                            /\ caches[j].status = "none" => caches'[j].status = "none"
                            /\ caches[j].status \in {"none", "error"} => caches'[j].status \in {"none", "error"}
  <2>1. caches' = [caches EXCEPT ![l] = UpdatedCache(@, "error", 0)] \/ caches' = caches
    BY DEF WalkRefused, WalkReport
  <2>2. CASE caches' = caches
    BY <1>0, <2>2 DEF ListTypes
  <2> QED BY <1>0, <2>1, <2>2, ErrorNoted
<1>3. walker' \in [ListIds -> WalkRecords] /\ walker'[l].pc = "done" /\ \A k \in ListIds : k # l => walker'[k] = walker[k]
  <2>1. PICK w : w = [walker[l] EXCEPT !.pc = "done"]
    OBVIOUS
  <2>2. w \in WalkRecords /\ w.pc = "done"
    BY <1>0, <2>1 DEF WalkRecords
  <2>3. walker' = [walker EXCEPT ![l] = w]
    BY <2>1 DEF WalkRefused
  <2> QED BY ONLY <1>0, <2>2, <2>3, Zenon
<1>5. PICK r : r = [lister[l] EXCEPT !.pc = "error"]
  OBVIOUS
<1>6. r \in ListRecords
  BY <1>0, <1>5 DEF ListRecords
<1>7. lister' = [lister EXCEPT ![l] = r]
  BY <1>5 DEF WalkRefused
<1>8. lister'[l] = [lister[l] EXCEPT !.pc = "error"]
  BY <1>0, <1>5, <1>7 DEF ListTypes
<1>9. UNCHANGED <<filters, filterFiles, leader, cycle, storedCycle, scan, folderCycle, changes, lostMarks, rewound>>
  BY DEF WalkRefused
<1>10. \A j \in ListIds : KeepsCache(j)
  BY <1>0, <1>2 DEF KeepsCache
<1>11. ListingOne(l)'
  <2>1. walker'[l].pc # "walk" /\ lister[l].pc # "done"
    BY <1>1, <1>3
  <2>2. KeepsMarks
    BY <1>9, TrackerAlone
  <2> QED BY <1>0, <1>8, <1>10, <2>1, <2>2, RequestFails DEF ListTypes
<1>12. begun <= begun'
  BY ONLY <1>0, SMT
<1> QED BY <1>0, <1>2, <1>3, <1>6, <1>7, <1>9, <1>10, <1>11, <1>12, RequestStep DEF ListTypes

\* What was marked when a walk was asked for is among the objects it goes through.
LEMMA NeedBounded ==
  ASSUME ListIInv, NEW l \in ListIds, NEW i \in lister[l].need
  PROVE  i \in DOMAIN changes /\ i \in Nat /\ i <= MaxChanges /\ MaxChanges \in Nat
<1>1. i \in DOMAIN changes /\ DOMAIN changes = 1..Len(changes) /\ Len(changes) \in Nat /\ Len(changes) <= MaxChanges
  BY ChangeFacts DEF ListIInv, ListingOne, ListTypes, Marked
<1>2. MaxChanges \in Nat
  BY UpdateTrackerAssumption
<1>3. i \in 1..Len(changes)
  BY <1>1
<1>4. i \in Nat /\ i <= MaxChanges
  BY ONLY <1>1, <1>2, <1>3, SMT
<1> QED BY <1>1, <1>2, <1>4

LEMMA WalkOnOK ==
  ASSUME ListIInv, NEW l \in ListIds, WalkOn(l)
  PROVE  ListIInv'
<1>0. /\ ListTypes /\ ListingOne(l) /\ lister[l] \in ListRecords /\ walker[l] \in WalkRecords /\ begun \in Nat
      /\ lister' = lister /\ caches' = caches /\ begun' = begun /\ broken' = broken /\ savedCaches' = savedCaches
      /\ blocks' = blocks /\ forgot' = forgot /\ walker[l].pc = "walk" /\ walker \in [ListIds -> WalkRecords]
      /\ lister \in [ListIds -> ListRecords]
  BY ListFacts DEF ListIInv, ListTypes, WalkOn
<1>1. /\ walker[l].at \in Nat /\ walker[l].seen \in SUBSET Nat /\ lister[l].pc = "own" /\ lister[l].use = l
      /\ \A i \in lister[l].need : i < walker[l].at => i \in walker[l].seen
  BY <1>0 DEF ListingOne, WalkSees, WalkRecords
<1>2. PICK s : s = IF walker[l].at \in DOMAIN changes THEN walker[l].seen \cup {walker[l].at} ELSE walker[l].seen
  OBVIOUS
<1>3. PICK w : w = [walker[l] EXCEPT !.at = walker[l].at + 1, !.seen = s]
  OBVIOUS
<1>4. w \in WalkRecords /\ w.at = walker[l].at + 1 /\ w.seen = s
  <2>1. walker[l].at + 1 \in Nat
    BY ONLY <1>1, SMT
  <2>2. s \in SUBSET Nat
    BY <1>1, <1>2
  <2> QED BY <1>0, <1>3, <2>1, <2>2 DEF WalkRecords
<1>5. walker' = [walker EXCEPT ![l] = w]
  BY <1>2, <1>3 DEF WalkOn
<1>6. walker' \in [ListIds -> WalkRecords] /\ walker'[l] = w /\ \A k \in ListIds : k # l => walker'[k] = walker[k]
  BY ONLY <1>0, <1>4, <1>5, Zenon
<1>7. UNCHANGED <<filters, filterFiles, leader, cycle, storedCycle, scan, folderCycle, changes, lostMarks, rewound>>
  BY DEF WalkOn, trackVars
<1>8. ListingOne(l)'
  <2>1. lister'[l].need \subseteq Marked' /\ AsksKnow(l)' /\ ReadsLate(l)' /\ CacheHonest(l)'
    BY <1>0, <1>1, <1>7 DEF ListingOne, AsksKnow, ReadsLate, CacheHonest, Marked
  <2>2. ASSUME NEW i \in lister[l].need, i < w.at PROVE i \in w.seen
    <3>1. i \in DOMAIN changes /\ i \in Nat
      BY NeedBounded
    <3>2. i < walker[l].at \/ i = walker[l].at
      BY ONLY <1>1, <1>4, <2>2, <3>1, SMT
    <3> QED BY <1>1, <1>2, <1>4, <3>1, <3>2
  <2>3. WalkSees(l)'
    BY <1>0, <1>1, <1>6, <2>2 DEF WalkSees
  <2> QED BY <2>1, <2>3 DEF ListingOne
<1>9. \A k \in ListIds : KeepsCache(k)
  BY <1>0 DEF KeepsCache
<1>10. begun <= begun'
  BY ONLY <1>0, SMT
<1>11. lister' = [lister EXCEPT ![l] = lister[l]]
  BY <1>0
<1> QED BY <1>0, <1>6, <1>7, <1>8, <1>9, <1>10, <1>11, RequestStep DEF ListTypes

\* A walk that is over, whether it failed or not.
LEMMA WalkOver ==
  ASSUME ListIInv, NEW l \in ListIds, WalkEnds(l) \/ WalkFails(l)
  PROVE  ListIInv'
<1>0. /\ ListTypes /\ ListingOne(l) /\ lister[l] \in ListRecords /\ walker[l] \in WalkRecords /\ begun \in Nat
      /\ begun' = begun /\ broken \subseteq broken' /\ broken' \subseteq broken \cup {l} /\ savedCaches' = savedCaches
      /\ blocks' = blocks /\ forgot' = forgot /\ walker[l].pc = "walk" /\ walker \in [ListIds -> WalkRecords]
      /\ lister \in [ListIds -> ListRecords] /\ caches[l] \in CacheRecords /\ caches \in [ListIds -> CacheRecords]
  BY ListFacts DEF ListIInv, ListTypes, WalkEnds, WalkFails
<1>1. /\ walker[l].at \in Nat /\ walker[l].seen \in SUBSET Nat /\ lister[l].pc = "own" /\ lister[l].use = l
      /\ \A i \in lister[l].need : i < walker[l].at => i \in walker[l].seen
      /\ l \notin broken
  BY <1>0 DEF ListingOne, WalkSees, WalkRecords, CacheHonest
<1>2. PICK told \in BOOLEAN :
        /\ walker' = [walker EXCEPT ![l].pc = "flush", ![l].told = told] \/ (walker' = [walker EXCEPT ![l].pc = "flush"] /\ WalkEnds(l))
        /\ WalkEnds(l) => WalkReport(l, told, "success", filters[lister[l].on].cur.idx)
        /\ ~WalkEnds(l) => WalkReport(l, told, "error", 0)
  BY DEF WalkEnds, WalkFails
<1>2a. /\ walker' \in [ListIds -> WalkRecords] /\ walker'[l].pc = "flush" /\ (~WalkEnds(l) => walker'[l].told = told)
       /\ \A k \in ListIds : k # l => walker'[k] = walker[k]
  <2>1. PICK w : /\ w \in WalkRecords /\ w.pc = "flush" /\ walker' = [walker EXCEPT ![l] = w]
                 /\ ~WalkEnds(l) => w.told = told
    <3>1. CASE walker' = [walker EXCEPT ![l].pc = "flush"] /\ WalkEnds(l)
      <4>1. PICK w : w = [walker[l] EXCEPT !.pc = "flush"]
        OBVIOUS
      <4>2. w \in WalkRecords /\ w.pc = "flush"
        BY <1>0, <4>1 DEF WalkRecords
      <4> QED BY <3>1, <4>1, <4>2
    <3>2. CASE walker' = [walker EXCEPT ![l].pc = "flush", ![l].told = told]
      <4>1. PICK w : w = [walker[l] EXCEPT !.pc = "flush", !.told = told]
        OBVIOUS
      <4>2. w \in WalkRecords /\ w.pc = "flush" /\ w.told = told
        BY <1>0, <4>1 DEF WalkRecords
      <4>3. walker' = [walker EXCEPT ![l] = w]
        BY <1>0, <3>2, <4>1
      <4> QED BY <4>2, <4>3
    <3> QED BY <1>2, <3>1, <3>2
  <2> QED BY ONLY <1>0, <2>1, Zenon
<1>3. PICK r : r = [lister[l] EXCEPT !.pc = "done", !.got = walker[l].seen]
  OBVIOUS
<1>4. /\ r \in ListRecords /\ r.pc = "done" /\ r.need = lister[l].need /\ r.use = l /\ r.got = walker[l].seen
      /\ r.half = lister[l].half
  BY <1>0, <1>1, <1>3 DEF ListRecords
<1>5. lister' = [lister EXCEPT ![l] = r]
  BY <1>3 DEF WalkEnds, WalkFails
<1>6. lister'[l] = r
  BY <1>0, <1>5
<1>7. UNCHANGED <<filters, filterFiles, leader, cycle, storedCycle, scan, folderCycle, changes, lostMarks, rewound>>
  BY DEF WalkEnds, WalkFails, trackVars
<1>8. PICK c : /\ caches' = [caches EXCEPT ![l] = c] /\ c \in CacheRecords /\ c.started = caches[l].started
               /\ l \in broken' /\ walker'[l].told => c.status \in {"none", "error"}
  <2>0. CASE caches' = caches /\ (~WalkEnds(l) => ~told)
    <3>1. caches' = [caches EXCEPT ![l] = caches[l]] /\ (WalkEnds(l) => l \notin broken')
      BY <1>0, <1>1, <2>0 DEF WalkEnds
    <3> QED BY <1>0, <1>2a, <2>0, <3>1
  <2>1. CASE WalkEnds(l) /\ told
    <3>1. filters[lister[l].on].cur.idx \in Nat
      BY <1>0, FilterFacts DEF ListRecords, ListIInv
    <3>2. UpdatedCache(caches[l], "success", filters[lister[l].on].cur.idx) \in CacheRecords
          /\ UpdatedCache(caches[l], "success", filters[lister[l].on].cur.idx).started = caches[l].started
      BY <1>0, <3>1, UpdatedFacts
    <3>3. caches' = [caches EXCEPT ![l] = UpdatedCache(caches[l], "success", filters[lister[l].on].cur.idx)]
      BY <1>2, <2>1 DEF WalkReport
    <3>4. l \notin broken'
      BY <1>1, <2>1 DEF WalkEnds
    <3> QED BY <3>2, <3>3, <3>4
  <2>2. CASE ~WalkEnds(l) /\ told
    <3>1. 0 \in Nat
      BY SMT
    <3>2. /\ UpdatedCache(caches[l], "error", 0) \in CacheRecords
          /\ UpdatedCache(caches[l], "error", 0).started = caches[l].started
          /\ UpdatedCache(caches[l], "error", 0).status \in {"none", "error"}
      BY <1>0, <3>1, UpdatedFacts
    <3>3. caches' = [caches EXCEPT ![l] = UpdatedCache(caches[l], "error", 0)]
      BY <1>2, <2>2 DEF WalkReport
    <3> QED BY <3>2, <3>3
  <2>3. ~told => caches' = caches
    BY <1>2 DEF WalkReport
  <2> QED BY <2>0, <2>1, <2>2, <2>3
<1>9. caches' \in [ListIds -> CacheRecords] /\ caches'[l] = c /\ \A k \in ListIds : k # l => caches'[k] = caches[k]
  BY ONLY <1>0, <1>8, Zenon
<1>10. ListingOne(l)'
  <2>1. lister'[l].need \subseteq Marked'
    BY <1>0, <1>4, <1>6, <1>7 DEF ListingOne, Marked
  <2>2. AsksKnow(l)' /\ ReadsLate(l)'
    BY <1>4, <1>6 DEF AsksKnow, ReadsLate
  <2>3. WalkSees(l)'
    <3>1. ASSUME l \notin broken', NEW i \in lister[l].need PROVE i \in walker[l].seen
      <4>1. walker[l].at > MaxChanges
        BY <3>1 DEF WalkEnds, WalkFails
      <4>2. i \in Nat /\ i <= MaxChanges /\ MaxChanges \in Nat
        BY NeedBounded
      <4>3. i < walker[l].at
        BY ONLY <1>1, <4>1, <4>2, SMT
      <4> QED BY <1>1, <4>3
    <3> QED BY <1>2a, <1>4, <1>6, <3>1 DEF WalkSees
  <2>4. CacheHonest(l)'
    <3>1. lister[l].half => forgot
      BY <1>0 DEF ListingOne, CacheHonest
    <3> QED BY <1>0, <1>4, <1>6, <1>8, <1>9, <3>1 DEF CacheHonest
  <2> QED BY <2>1, <2>2, <2>3, <2>4 DEF ListingOne
<1>11. \A k \in ListIds : k # l => KeepsCache(k)
  BY <1>0, <1>9 DEF KeepsCache
<1>12. begun <= begun' /\ \A k \in ListIds : caches'[k].started <= begun'
  <2>1. begun <= begun'
    BY ONLY <1>0, SMT
  <2> QED BY <1>0, <1>8, <1>9, <2>1 DEF ListTypes
<1> QED BY <1>0, <1>2a, <1>4, <1>5, <1>7, <1>9, <1>10, <1>11, <1>12, RequestStep

\* A request that walks itself, with or without a listing for others.
LEMMA OwnWalk ==
  ASSUME ListIInv, NEW l \in ListIds, lister[l].pc = "find",
         lister' = [lister EXCEPT ![l].pc = "own", ![l].use = l, ![l].from = lister[l].cur],
         walker' = Walks(l), UNCHANGED <<savedCaches, blocks, broken, forgot>>,
         UNCHANGED <<filters, filterFiles, leader, cycle, storedCycle, scan, folderCycle, changes, lostMarks, rewound>>,
         (caches' = caches /\ begun' = begun) \/ (caches' = [caches EXCEPT ![l] = NewCache(l)] /\ begun' = begun + 1)
  PROVE  ListIInv'
<1>0. /\ ListTypes /\ ListingOne(l) /\ lister[l] \in ListRecords /\ walker[l] \in WalkRecords /\ begun \in Nat
      /\ walker \in [ListIds -> WalkRecords] /\ l \in Nat /\ lister[l].cur \in Nat
      /\ lister \in [ListIds -> ListRecords] /\ caches \in [ListIds -> CacheRecords]
  BY ListFacts DEF ListIInv, ListTypes, ListRecords
<1>1. PICK r : r = [lister[l] EXCEPT !.pc = "own", !.use = l, !.from = lister[l].cur]
  OBVIOUS
<1>2. r \in ListRecords /\ r.pc = "own" /\ r.use = l /\ r.need = lister[l].need /\ r.half = lister[l].half
  BY <1>0, <1>1 DEF ListRecords
<1>3. lister' = [lister EXCEPT ![l] = r]
  BY <1>1
<1>4. lister'[l] = r
  BY <1>0, <1>3
<1>5. walker' \in [ListIds -> WalkRecords] /\ walker'[l].at = 1 /\ \A k \in ListIds : k # l => walker'[k] = walker[k]
  <2>1. PICK w : w = [NoWalk EXCEPT !.pc = "walk"]
    OBVIOUS
  <2>2. 1 \in Nat
    BY SMT
  <2>3. w \in WalkRecords /\ w.at = 1
    BY <2>1, <2>2 DEF NoWalk, WalkRecords
  <2>4. walker' = [walker EXCEPT ![l] = w]
    BY <2>1 DEF Walks
  <2> QED BY ONLY <1>0, <2>3, <2>4, Zenon
<1>6. /\ caches' \in [ListIds -> CacheRecords] /\ (\A k \in ListIds : k # l => caches'[k] = caches[k])
      /\ begun' \in Nat /\ begun <= begun' /\ \A k \in ListIds : caches'[k].started <= begun'
  <2>1. \A k \in ListIds : caches[k].started <= begun /\ caches[k].started \in Nat
    BY <1>0 DEF ListTypes, CacheRecords
  <2>2. CASE caches' = caches /\ begun' = begun
    <3>1. begun <= begun
      BY ONLY <1>0, SMT
    <3> QED BY <1>0, <2>1, <2>2, <3>1
  <2>3. CASE caches' = [caches EXCEPT ![l] = NewCache(l)] /\ begun' = begun + 1
    <3>1. PICK c : c = NewCache(l)
      OBVIOUS
    <3>2. begun + 1 \in Nat /\ begun <= begun + 1 /\ begun + 1 <= begun + 1 /\ 0 \in Nat
      BY ONLY <1>0, SMT
    <3>3. c \in CacheRecords /\ c.started = begun + 1
      BY <1>0, <3>1, <3>2 DEF NewCache, NoCache, CacheRecords
    <3>4. caches' = [caches EXCEPT ![l] = c]
      BY <2>3, <3>1
    <3>5. caches' \in [ListIds -> CacheRecords] /\ caches'[l] = c /\ \A k \in ListIds : k # l => caches'[k] = caches[k]
      BY ONLY <1>0, <3>3, <3>4, Zenon
    <3>6. \A k \in ListIds : caches[k].started <= begun + 1
      <4>1. \A n \in Nat : n <= begun => n <= begun + 1
        BY ONLY <1>0, SMT
      <4> QED BY <2>1, <4>1
    <3> QED BY <2>3, <3>2, <3>3, <3>5, <3>6
  <2> QED BY <2>2, <2>3
<1>7. ListingOne(l)'
  <2>1. lister'[l].need \subseteq Marked'
    BY <1>0, <1>2, <1>4 DEF ListingOne, Marked
  <2>2. AsksKnow(l)' /\ ReadsLate(l)'
    BY <1>2, <1>4 DEF AsksKnow, ReadsLate
  <2>3. WalkSees(l)'
    <3>1. ASSUME NEW i \in lister[l].need, i < 1 PROVE FALSE
      <4>1. changes[i].idx > 0 /\ i \in DOMAIN changes /\ DOMAIN changes = 1..Len(changes) /\ Len(changes) \in Nat
        BY <1>0, ChangeFacts DEF ListingOne, Marked, ListIInv
      <4>2. i \in 1..Len(changes) /\ Len(changes) \in Nat
        BY <4>1
      <4> QED BY ONLY <3>1, <4>2, SMT
    <3> QED BY <1>2, <1>4, <1>5, <3>1 DEF WalkSees
  <2>4. CacheHonest(l)'
    BY <1>0, <1>2, <1>4 DEF ListingOne, CacheHonest
  <2> QED BY <2>1, <2>2, <2>3, <2>4 DEF ListingOne
<1>8. \A k \in ListIds : k # l => KeepsCache(k)
  BY <1>6 DEF KeepsCache
<1>9. UNCHANGED <<savedCaches, blocks, forgot>> /\ broken' \subseteq broken \cup {l} /\ broken \subseteq broken'
  OBVIOUS
<1>10. UNCHANGED <<filters, filterFiles, leader, cycle, storedCycle, scan, folderCycle, changes, lostMarks, rewound>>
  OBVIOUS
<1> QED BY ONLY ListIInv, l \in ListIds, <1>2, <1>3, <1>5, <1>6, <1>7, <1>8, <1>9, <1>10, RequestStep, Zenon

LEMMA ListTransientOK ==
  ASSUME ListIInv, NEW l \in ListIds, ListTransient(l)
  PROVE  ListIInv'
<1>1. /\ lister[l].pc = "find" /\ lister' = [lister EXCEPT ![l].pc = "own", ![l].use = l, ![l].from = lister[l].cur]
      /\ walker' = Walks(l) /\ UNCHANGED <<savedCaches, blocks, broken, forgot>> /\ caches' = caches /\ begun' = begun
      /\ UNCHANGED <<filters, filterFiles, leader, cycle, storedCycle, scan, folderCycle, changes, lostMarks, rewound>>
  BY DEF ListTransient
<1>2. (caches' = caches /\ begun' = begun) \/ (caches' = [caches EXCEPT ![l] = NewCache(l)] /\ begun' = begun + 1)
  BY <1>1
<1> QED BY ONLY ListIInv, l \in ListIds, <1>1, <1>2, OwnWalk, Zenon

\* A listing that matches is of the last cycle the request heard of or later.
LEMMA FindCacheOK ==
  ASSUME ListIInv, NEW l \in ListIds, FindCache(l)
  PROVE  ListIInv'
<1>0. /\ ListTypes /\ ListingOne(l) /\ lister[l] \in ListRecords /\ walker[l] \in WalkRecords /\ begun \in Nat
      /\ lister \in [ListIds -> ListRecords] /\ caches \in [ListIds -> CacheRecords] /\ lister[l].pc = "find"
      /\ \A k \in ListIds : ListingOne(k)
  BY ListFacts DEF ListIInv, ListTypes, FindCache
<1>1. UNCHANGED <<filters, filterFiles, leader, cycle, storedCycle, scan, folderCycle, changes, lostMarks, rewound>>
      /\ UNCHANGED <<savedCaches, blocks, broken, forgot>>
  BY DEF FindCache, trackVars
<1>2. PICK k : k = BestMatch(lister[l].old)
  OBVIOUS
<1>3. CASE k = 0
  <2>1. /\ lister' = [lister EXCEPT ![l].pc = "own", ![l].use = l, ![l].from = lister[l].cur]
        /\ caches' = [caches EXCEPT ![l] = NewCache(l)] /\ walker' = Walks(l) /\ begun' = begun + 1
    BY <1>2, <1>3 DEF FindCache
  <2> QED BY <1>0, <1>1, <2>1, OwnWalk
<1>4. CASE k # 0
  <2>1. k \in ListIds /\ Matches(caches[k], lister[l].old)
    BY <1>0, <1>2, <1>4, BestMatchFacts
  <2>2. k \in Nat /\ caches[k].startedCycle \in Nat /\ caches[k].status \notin {"none", "error"} /\ caches[k].startedCycle >= lister[l].old
    BY <1>0, <2>1, ListFacts DEF Matches, CacheRecords
  <2>3. k # l
    BY <1>0, <2>2 DEF ListingOne, CacheHonest
  <2>4. PICK h \in BOOLEAN : h = (k \in broken /\ walker[k].told)
    <3>1. (k \in broken /\ walker[k].told) \in BOOLEAN
      BY ONLY SMT
    <3> QED BY <3>1
  <2>5. PICK r : r = [lister[l] EXCEPT !.pc = "read", !.use = k, !.from = caches[k].startedCycle, !.half = h]
    OBVIOUS
  <2>6. /\ r \in ListRecords /\ r.pc = "read" /\ r.use = k /\ r.from = caches[k].startedCycle /\ r.need = lister[l].need
        /\ r.deaf = lister[l].deaf /\ r.half = h
    BY <1>0, <2>2, <2>5 DEF ListRecords
  <2>7. /\ lister' = [lister EXCEPT ![l].pc = "read", ![l].use = k, ![l].from = caches[k].startedCycle,
                                    ![l].half = k \in broken /\ walker[k].told]
        /\ caches' = caches /\ walker' = walker /\ begun' = begun
    BY <1>2, <1>4 DEF FindCache
  <2>8. lister' = [lister EXCEPT ![l] = r]
    BY <2>4, <2>5, <2>7
  <2>9. lister'[l] = r
    BY <1>0, <2>8
  <2>10. ListingOne(l)'
    <3>1. lister'[l].need \subseteq Marked'
      BY <1>0, <1>1, <2>6, <2>9 DEF ListingOne, Marked
    <3>2. AsksKnow(l)'
      BY <2>6, <2>9 DEF AsksKnow
    <3>3. ReadsLate(l)'
      <4>1. ASSUME ~rewound, ~lister[l].deaf, NEW i \in lister[l].need \ lostMarks PROVE changes[i].idx <= caches[k].startedCycle
        <5>1. changes[i].idx <= lister[l].old
          BY <1>0, <4>1 DEF ListingOne, AsksKnow
        <5>2. changes[i].idx \in Int /\ lister[l].old \in Nat
          BY <1>0, ChangeFacts DEF ListIInv, ListingOne, ListRecords
        <5> QED BY ONLY <2>2, <5>1, <5>2, SMT
      <4>2. lister'[l].pc = "read" /\ lister'[l].use = k /\ lister'[l].from = caches[k].startedCycle
            /\ lister'[l].need = lister[l].need /\ lister'[l].deaf = lister[l].deaf
        BY <2>6, <2>9
      <4> QED BY <1>1, <2>1, <2>3, <4>1, <4>2 DEF ReadsLate
    <3>4. WalkSees(l)'
      <4>1. walker[l].pc # "walk"
        BY <1>0 DEF ListingOne, WalkSees
      <4> QED BY <2>6, <2>7, <2>9, <4>1 DEF WalkSees
    <3>5. CacheHonest(l)'
      <4>1. l \notin broken
        BY <1>0 DEF ListingOne, CacheHonest
      <4>2. k \in broken /\ walker[k].told => forgot
        BY <1>0, <2>1, <2>2 DEF ListingOne, CacheHonest
      <4>3. lister'[l].half => forgot
        BY <2>4, <2>6, <2>9, <4>2
      <4> QED BY <1>1, <2>6, <2>9, <4>1, <4>3 DEF CacheHonest
    <3> QED BY <3>1, <3>2, <3>3, <3>4, <3>5 DEF ListingOne
  <2>11. \A j \in ListIds : KeepsCache(j)
    BY <1>1, <2>7 DEF KeepsCache
  <2>12. begun <= begun'
    BY ONLY <1>0, <2>7, SMT
  <2> QED BY <1>0, <1>1, <2>6, <2>7, <2>8, <2>10, <2>11, <2>12, RequestStep DEF ListTypes
<1> QED BY <1>3, <1>4

\* A server that answers knows of every mark it made, and no mark is of a later
\* cycle than its server.
LEMMA AnswerCovers ==
  ASSUME ListIInv, NEW p \in Peers
  PROVE  /\ LatestWithDir(filters[p]) \in Nat /\ filters[p].cur.idx \in Nat
         /\ ~rewound => \A i \in Marked \ lostMarks :
              /\ changes[i].on = p => changes[i].idx <= LatestWithDir(filters[p])
              /\ changes[i].idx \in Nat /\ changes[i].on \in Peers
              /\ changes[i].idx <= filters[changes[i].on].cur.idx /\ filters[changes[i].on].cur.idx \in Nat
<1>0. filters[p] \in TrackFilters /\ filters[p].cur.idx # 0 /\ filters[p].cur.idx \in Nat
  BY FilterFacts DEF ListIInv, ListTypes
<1>1. LatestWithDir(filters[p]) \in Nat
  BY <1>0, LatestFacts
<1>2. ASSUME ~rewound, NEW i \in Marked \ lostMarks
      PROVE  /\ changes[i].on = p => changes[i].idx <= LatestWithDir(filters[p])
             /\ changes[i].idx \in Nat /\ changes[i].on \in Peers
             /\ changes[i].idx <= filters[changes[i].on].cur.idx /\ filters[changes[i].on].cur.idx \in Nat
  <2>1. changes[i].on \in Peers /\ changes[i].idx \in Int /\ changes[i].idx > 0 /\ MarkThere(i)
    BY <1>2, ChangeFacts DEF ListIInv, TrackMarks
  <2>2. changes[i].idx \in Nat
    BY ONLY <2>1, SMT
  <2>3. filters[changes[i].on].cur.idx \in Nat
    BY <2>1, FilterFacts DEF ListIInv
  <2>4. changes[i].on = p => changes[i].idx <= LatestWithDir(filters[p])
    BY <1>0, <2>1, <2>2, LatestFacts DEF MarkThere
  <2> QED BY <2>1, <2>2, <2>3, <2>4 DEF MarkThere
<1> QED BY <1>0, <1>1, <1>2

\* If no server is ahead, the own cycle covers every mark.
LEMMA NobodyAhead ==
  ASSUME ListIInv, ~rewound, NEW c \in Nat, ~Ahead(c), NEW i \in Marked \ lostMarks
  PROVE  changes[i].idx <= c
<1>0. changes[i].on \in Peers
  BY ChangeFacts DEF ListIInv
<1>1. /\ changes[i].idx \in Nat /\ changes[i].on \in Peers
      /\ changes[i].idx <= filters[changes[i].on].cur.idx /\ filters[changes[i].on].cur.idx \in Nat
  BY <1>0, AnswerCovers
<1>2. ~(filters[changes[i].on].cur.idx > c)
  BY <1>1 DEF Ahead
<1> QED BY ONLY <1>1, <1>2, c \in Nat, SMT

LEMMA BeginListOK ==
  ASSUME ListIInv, NEW l \in ListIds, NEW p \in Peers, BeginList(l, p)
  PROVE  ListIInv'
<1>0. /\ ListTypes /\ ListingOne(l) /\ lister[l] \in ListRecords /\ begun \in Nat /\ lister \in [ListIds -> ListRecords]
      /\ caches' = caches /\ walker' = walker /\ begun' = begun /\ broken' = broken /\ savedCaches' = savedCaches
      /\ blocks' = blocks /\ forgot' = forgot /\ lister[l].pc = "idle"
  BY ListFacts DEF ListIInv, ListTypes, BeginList
<1>1. PICK cur \in Nat, old \in Nat : cur = filters[p].cur.idx /\ old = LatestWithDir(filters[p])
  BY AnswerCovers
<1>2. PICK d \in BOOLEAN : d = (old = cur /\ Ahead(cur))
  BY DEF Ahead
<1>3. PICK s \in {"ask", "find"} : s = IF old = cur \/ Peers = {p} THEN "find" ELSE "ask"
  OBVIOUS
<1>4. PICK r : r = [NoList EXCEPT !.pc = s, !.on = p, !.cur = cur, !.old = old, !.left = Peers \ {p}, !.need = Marked, !.deaf = d]
  OBVIOUS
<1>5. Marked \subseteq Nat
  BY ChangeFacts DEF ListIInv
<1>6. /\ r \in ListRecords /\ r.pc = s /\ r.need = Marked /\ r.left = Peers \ {p} /\ r.old = old /\ r.deaf = d /\ ~r.half
  <2>1. 0 \in Nat /\ Owner \in Peers
    BY MetacacheAssumption, SMT
  <2> QED BY <1>4, <1>5, <2>1 DEF NoList, ListRecords
<1>7. lister' = [lister EXCEPT ![l] = r]
  BY <1>1, <1>2, <1>3, <1>4 DEF BeginList
<1>8. lister'[l] = r
  BY <1>0, <1>7
<1>9. UNCHANGED <<filters, filterFiles, leader, cycle, storedCycle, scan, folderCycle, changes, lostMarks, rewound>>
  BY DEF BeginList, trackVars
<1>10. ListingOne(l)'
  <2>1. lister'[l].need \subseteq Marked'
    BY <1>6, <1>8, <1>9 DEF Marked
  <2>2. ASSUME ~rewound, ~d, NEW i \in Marked \ lostMarks, s = "find" \/ changes[i].on \notin Peers \ {p}
        PROVE  changes[i].idx <= old
    <3>1. CASE changes[i].on = p
      BY <1>1, <2>2, <3>1, AnswerCovers
    <3>2. CASE old = cur
      BY <1>2, <2>2, <3>2, NobodyAhead
    <3>3. CASE changes[i].on # p /\ old # cur
      <4>1. changes[i].on \in Peers
        BY <2>2, AnswerCovers
      <4> QED BY <1>3, <2>2, <3>3, <4>1
    <3> QED BY <3>1, <3>2, <3>3
  <2>3. AsksKnow(l)'
    BY <1>6, <1>8, <1>9, <2>2 DEF AsksKnow
  <2>4. ReadsLate(l)'
    BY <1>3, <1>6, <1>8 DEF ReadsLate
  <2>5. WalkSees(l)'
    <3>1. walker[l].pc # "walk"
      BY <1>0 DEF ListingOne, WalkSees
    <3> QED BY <1>0, <1>3, <1>6, <1>8, <3>1 DEF WalkSees
  <2>6. CacheHonest(l)'
    BY <1>0, <1>6, <1>8 DEF ListingOne, CacheHonest
  <2> QED BY <2>1, <2>3, <2>4, <2>5, <2>6 DEF ListingOne
<1>11. \A k \in ListIds : KeepsCache(k)
  BY <1>0 DEF KeepsCache
<1>12. begun <= begun'
  BY ONLY <1>0, SMT
<1> QED BY <1>0, <1>6, <1>7, <1>9, <1>10, <1>11, <1>12, RequestStep DEF ListTypes

LEMMA AskCleanOK ==
  ASSUME ListIInv, NEW l \in ListIds, NEW q \in Peers, AskClean(l, q)
  PROVE  ListIInv'
<1>0. /\ ListTypes /\ ListingOne(l) /\ lister[l] \in ListRecords /\ begun \in Nat /\ lister \in [ListIds -> ListRecords]
      /\ caches' = caches /\ walker' = walker /\ begun' = begun /\ broken' = broken /\ savedCaches' = savedCaches
      /\ blocks' = blocks /\ forgot' = forgot /\ lister[l].pc = "ask" /\ q \in lister[l].left
      /\ lister[l].need \subseteq Marked
  BY ListFacts DEF ListIInv, ListTypes, ListingOne, AskClean
<1>1. /\ UNCHANGED <<filters, filterFiles, leader, cycle, storedCycle, scan, folderCycle, changes, lostMarks, rewound>>
  BY DEF AskClean
<1>2. PICK a \in Nat : a = LatestWithDir(filters[q])
  BY AnswerCovers
<1>3. PICK s \in {"ask", "find"} : s = IF lister[l].left = {q} THEN "find" ELSE "ask"
  OBVIOUS
<1>4. /\ lister[l].old \in Nat /\ lister[l].cur \in Nat /\ lister[l].left \in SUBSET Peers /\ lister[l].deaf \in BOOLEAN
  BY <1>0 DEF ListRecords
<1>5. PICK old \in Nat, d \in BOOLEAN :
        /\ lister' = [lister EXCEPT ![l] = [lister[l] EXCEPT !.left = @ \ {q}, !.pc = s, !.old = old, !.deaf = d]]
        /\ \/ old = (IF a > lister[l].old THEN a ELSE lister[l].old) /\ d = lister[l].deaf
           \/ old = lister[l].cur /\ (~d => ~lister[l].deaf /\ ~Ahead(lister[l].cur))
  <2>1. PICK b \in BOOLEAN : b = (lister[l].deaf \/ Ahead(lister[l].cur))
    BY DEF Ahead
  <2>2. PICK z : z = [lister[l] EXCEPT !.left = @ \ {q}, !.pc = s]
    OBVIOUS
  <2>3. z \in ListRecords /\ z.old = lister[l].old /\ z.deaf = lister[l].deaf
    BY <1>0, <1>3, <2>2 DEF ListRecords
  <2>4. CASE lister' = [lister EXCEPT ![l] = [z EXCEPT !.old = IF a > @ THEN a ELSE @]]
    <3>1. PICK o \in Nat : o = IF a > lister[l].old THEN a ELSE lister[l].old
      BY <1>4
    <3>2. [z EXCEPT !.old = IF a > @ THEN a ELSE @] = [lister[l] EXCEPT !.left = @ \ {q}, !.pc = s, !.old = o, !.deaf = lister[l].deaf]
      BY <1>0, <2>2, <2>3, <3>1 DEF ListRecords
    <3> QED BY <1>4, <2>4, <3>1, <3>2
  <2>5. CASE lister' = [lister EXCEPT ![l] = [z EXCEPT !.old = lister[l].cur, !.deaf = @ \/ Ahead(lister[l].cur)]]
    <3>1. [z EXCEPT !.old = lister[l].cur, !.deaf = @ \/ Ahead(lister[l].cur)]
            = [lister[l] EXCEPT !.left = @ \ {q}, !.pc = s, !.old = lister[l].cur, !.deaf = b]
      BY <1>0, <2>1, <2>2, <2>3 DEF ListRecords
    <3> QED BY <1>4, <2>1, <2>5, <3>1
  <2> QED BY <1>2, <1>3, <2>2, <2>4, <2>5 DEF AskClean
<1>6. PICK r : r = [lister[l] EXCEPT !.left = @ \ {q}, !.pc = s, !.old = old, !.deaf = d]
  OBVIOUS
<1>7. /\ r \in ListRecords /\ r.pc = s /\ r.need = lister[l].need /\ r.left = lister[l].left \ {q} /\ r.old = old /\ r.deaf = d
      /\ r.half = lister[l].half
  BY <1>0, <1>3, <1>4, <1>6 DEF ListRecords
<1>8. lister' = [lister EXCEPT ![l] = r]
  BY <1>5, <1>6
<1>9. lister'[l] = r
  BY <1>0, <1>8
<1>10. ListingOne(l)'
  <2>1. lister'[l].need \subseteq Marked'
    BY <1>0, <1>1, <1>7, <1>9 DEF Marked
  <2>2. ASSUME ~rewound, ~d, NEW i \in lister[l].need \ lostMarks, s = "find" \/ changes[i].on \notin lister[l].left \ {q}
        PROVE  changes[i].idx <= old
    <3>0. i \in Marked \ lostMarks
      BY <1>0, <2>2
    <3>1. changes[i].idx \in Nat /\ (changes[i].on = q => changes[i].idx <= a)
      BY <1>2, <2>2, <3>0, AnswerCovers
    <3>2. CASE old = lister[l].cur /\ (~d => ~lister[l].deaf /\ ~Ahead(lister[l].cur))
      BY <1>4, <2>2, <3>0, <3>2, NobodyAhead
    <3>3. CASE old = (IF a > lister[l].old THEN a ELSE lister[l].old) /\ d = lister[l].deaf
      <4>1. a <= old /\ lister[l].old <= old
        BY ONLY <1>4, <3>3, a \in Nat, SMT
      <4>2. CASE changes[i].on = q
        <5>1. changes[i].idx <= a
          BY <3>1, <4>2
        <5> QED BY ONLY <3>1, <4>1, <5>1, a \in Nat, old \in Nat, SMT
      <4>3. CASE changes[i].on # q
        <5>1. changes[i].on \notin lister[l].left
          BY <1>3, <2>2, <4>3
        <5>2. ~lister[l].deaf
          BY ONLY <2>2, <3>3, SMT
        <5>3. changes[i].idx <= lister[l].old
          BY <1>0, <2>2, <5>1, <5>2 DEF ListingOne, AsksKnow
        <5> QED BY ONLY <1>4, <3>1, <4>1, <5>3, old \in Nat, SMT
      <4> QED BY <4>2, <4>3
    <3> QED BY <1>5, <3>2, <3>3
  <2>3. AsksKnow(l)'
    BY <1>1, <1>7, <1>9, <2>2 DEF AsksKnow
  <2>4. ReadsLate(l)'
    BY <1>3, <1>7, <1>9 DEF ReadsLate
  <2>5. WalkSees(l)'
    <3>1. walker[l].pc # "walk"
      BY <1>0 DEF ListingOne, WalkSees
    <3> QED BY <1>0, <1>3, <1>7, <1>9, <3>1 DEF WalkSees
  <2>6. CacheHonest(l)'
    BY <1>0, <1>7, <1>9 DEF ListingOne, CacheHonest
  <2> QED BY <2>1, <2>3, <2>4, <2>5, <2>6 DEF ListingOne
<1>11. \A k \in ListIds : KeepsCache(k)
  BY <1>0 DEF KeepsCache
<1>12. begun <= begun'
  BY ONLY <1>0, SMT
<1> QED BY <1>0, <1>1, <1>7, <1>8, <1>10, <1>11, <1>12, RequestStep DEF ListTypes

LEMMA ListStart ==
  ASSUME ListInit
  PROVE  ListIInv
<1>0. /\ TrackIInv /\ filters = [p \in Peers |-> FreshFilters] /\ cycle = 2 /\ changes = <<>> /\ rewound = FALSE /\ drifted = FALSE
      /\ lister = [l \in ListIds |-> NoList] /\ caches = [l \in ListIds |-> NoCache] /\ savedCaches = [l \in ListIds |-> NoCache]
      /\ walker = [l \in ListIds |-> NoWalk] /\ blocks = [l \in ListIds |-> NoBlock] /\ begun = 0 /\ broken = {}
  BY TrackStart DEF ListInit, TrackInit
<1>1. /\ 0 \in Nat /\ 1 \in Nat /\ 0 <= 0 /\ 2 # 0 /\ 1 # 0 /\ Owner \in Peers /\ Len(<<>>) <= MaxChanges
      /\ DOMAIN <<>> = {}
  BY MetacacheAssumption, UpdateTrackerAssumption, SMT
<1>2. NoList \in ListRecords /\ NoList.pc = "idle" /\ NoList.need = {} /\ ~NoList.half
  BY <1>1 DEF NoList, ListRecords
<1>3. NoCache \in CacheRecords /\ NoCache.started = 0 /\ NoCache.status = "none"
  BY <1>1 DEF NoCache, CacheRecords
<1>4. NoWalk \in WalkRecords /\ NoWalk.pc = "off" /\ NoBlock \in SUBSET Nat
  BY <1>1 DEF NoWalk, WalkRecords, NoBlock
<1>5. \A p \in Peers : filters[p].cur.idx = 1
  BY <1>0 DEF FreshFilters, Entry
<1>6. ListTypes
  BY <1>0, <1>1, <1>2, <1>3, <1>4, <1>5 DEF ListTypes
<1>7. Marked = {}
  BY <1>0, <1>1 DEF Marked
<1>8. TrackTypes /\ TrackMarks
  BY <1>0, <1>7 DEF TrackIInv, TrackRest, TrackMarks
<1>9. ASSUME NEW l \in ListIds PROVE ListingOne(l)
  <2>1. lister[l] = NoList /\ walker[l] = NoWalk /\ caches[l] = NoCache /\ savedCaches[l] = NoCache
    BY <1>0
  <2> QED BY <1>0, <1>2, <1>3, <1>4, <2>1 DEF ListingOne, AsksKnow, ReadsLate, WalkSees, CacheHonest
<1> QED BY <1>6, <1>8, <1>9 DEF ListIInv

LEMMA ListStep ==
  ASSUME ListIInv, [ListNext]_allListVars
  PROVE  ListIInv'
<1>1. CASE UNCHANGED allListVars
  <2>1. UNCHANGED trackVars /\ UNCHANGED listVars
    BY <1>1 DEF allListVars
  <2> QED BY <2>1, TrackStepsOK
<1>2. CASE TrackSteps /\ UNCHANGED listVars
  <2>1. TrackNext
    BY <1>2 DEF TrackSteps, TrackNext, SaveOnce
  <2> QED BY <1>2, <2>1, TrackStepsOK
<1>3. ASSUME NEW p \in Peers, RestartLister(p) \/ \E l \in ListIds : BeginList(l, p)
      PROVE  ListIInv'
  BY <1>3, RestartListerOK, BeginListOK
<1>4. ASSUME NEW l \in ListIds, ListRequest(l)
      PROVE  ListIInv'
  BY <1>4, AskCleanOK, FindCacheOK, WalkOnOK, WalkOver, FlushBlockOK, ReadBlockOK, CheckStateOK, GoSilentOK DEF ListRequest
<1>5. ASSUME NEW l \in ListIds, ListTransient(l) \/ WalkRefused(l) \/ WalkFails(l) \/ Cleanup(l)
      PROVE  ListIInv'
  BY <1>5, ListTransientOK, WalkRefusedOK, WalkOver, CleanupOK
<1>6. CASE SaveCaches
  BY <1>6, SaveCachesOK
<1> QED BY <1>1, <1>2, <1>3, <1>4, <1>5, <1>6 DEF ListNext

\* The inductive invariant of the listings holds for any number of servers,
\* requests, changes, cycles and mishaps: what a request knows of the changes on
\* the servers it has heard from, how late the listing is that it reads, what its
\* own walk has met, and that a walk of whose failure the owner was told is not on
\* its list as whole until it restarts
\* (erasureServerPools.listPath, bucketMetacache.findCache, metacache.update).
THEOREM ListInvariantHolds == ListSpec => []ListIInv
<1>1. ListInit => ListIInv
  BY ListStart
<1>2. ListIInv /\ [ListNext]_allListVars => ListIInv'
  BY ListStep
<1> QED BY <1>1, <1>2, PTL DEF ListSpec

\* An answered listing leaves out an acknowledged upload only by reading a listing
\* begun in the cycle of the upload or later, but for marks that a restart lost,
\* deaf requests and cycles that went back; and none is half of a listing of whose
\* failure the owner, which has not restarted, knew when it was asked for
\* (listPath with metacache.matches; reports of updateMetacacheListing get lost).
THEOREM ListingsSoundHolds == ListSpec => []ListingsSound
<1>1. ASSUME ListIInv PROVE ListingsSound
  <2>1. ASSUME NEW l \in ListIds, lister[l].pc = "done", l \notin broken, NEW i \in lister[l].need, i \notin lister[l].got,
               i \notin lostMarks, ~rewound, ~lister[l].deaf
        PROVE  lister[l].use # l /\ lister[l].from >= changes[i].idx
    <3>1. ListingOne(l) /\ lister[l] \in ListRecords
      BY <1>1 DEF ListIInv, ListTypes
    <3>2. lister[l].use # l
      BY <2>1, <3>1 DEF ListingOne, WalkSees
    <3>3. changes[i].idx <= lister[l].from
      BY <2>1, <3>1, <3>2 DEF ListingOne, ReadsLate
    <3>4. lister[l].from \in Nat /\ changes[i].idx \in Int
      BY <1>1, <2>1, <3>1, ChangeFacts DEF ListIInv, ListingOne, ListRecords
    <3>5. lister[l].from >= changes[i].idx
      BY ONLY <3>3, <3>4, SMT
    <3> QED BY <3>2, <3>5
  <2>2. MissesOnlyLate
    BY <2>1 DEF MissesOnlyLate, Answered, LeftOut
  <2>3. WholeListings
    BY <1>1 DEF ListIInv, ListingOne, CacheHonest, WholeListings, Answered
  <2> QED BY <2>2, <2>3 DEF ListingsSound
<1> QED BY <1>1, ListInvariantHolds, PTL
====
