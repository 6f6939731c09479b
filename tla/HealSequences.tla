--------------------------- MODULE HealSequences ----------------------------
(* Heal sequences (admin-heal-ops.go, global-heal.go) and the one goroutine   *)
(* that heals for all of them (background-heal-ops.go): administrators start, *)
(* force-start and stop sequences and fetch their results; a sequence lists   *)
(* what to heal and hands it over a channel, one item at a time; scanner, MRF *)
(* and drive monitor do the same with the background sequence.                *)
(*                                                                            *)
(* Channels are unbuffered: a send is a step that sender and receiver take    *)
(* together.  Sequences are numbered as they are registered; 0 is the         *)
(* background sequence, which has no results and no end.                      *)
EXTENDS Integers, Sequences

CONSTANTS Paths,        \* heal paths, as sequences of their elements; <<>> is the whole system
          Admins,       \* concurrent start and stop requests
          MaxSeqs,      \* bound on the sequences started
          MaxItems,     \* items a sequence heals
          MaxPending,   \* maxUnconsumedHealResultItems
          MaxStops      \* bound on the stops and forced starts

ASSUME HealAssumption ==
  MaxSeqs \in Nat /\ MaxItems \in Nat /\ MaxPending \in Nat \ {0} /\ MaxStops \in Nat

Background == 0
SeqIds == 1..MaxSeqs
NoSeq == 0

VARIABLES seqMap,   \* allHealState.healSeqMap
          seq,      \* the sequences that were registered
          walk,     \* their traversal goroutines, and healItemsFromSourceCh
          admin,    \* requests of administrators
          healer,   \* healRoutine.run: what it does, and for which sequence
          stops,    \* how many stops and forced starts there were
          fetched   \* history: the result indexes each client was given

healVars == <<seqMap, seq, walk, admin, healer, stops, fetched>>

Sequence == [path : Paths \cup {<<>>}, cancelled : BOOLEAN, ended : BOOLEAN,
             items : Seq(Nat), sent : Nat, left : 0..MaxItems]
NoSequence == [path |-> <<>>, cancelled |-> FALSE, ended |-> TRUE, items |-> <<>>,
           sent |-> 0, left |-> 0]
IdleAdmin == [pc |-> "idle", path |-> <<>>, seq |-> NoSeq, launch |-> FALSE]

\* Type invariant; no more results wait for the client than the limit allows.
HealTypeOK ==
  /\ seqMap \in [Paths -> SeqIds \cup {NoSeq}]
  /\ seq \in [SeqIds -> Sequence]
  /\ \A s \in SeqIds : Len(seq[s].items) <= MaxPending
  /\ walk \in [SeqIds \cup {Background} ->
                {"none", "next", "send", "wait", "push", "hung", "done", "closed"}]
  /\ admin \in [Admins -> [pc : {"idle", "ending", "register"}, path : Paths \cup {<<>>},
                           seq : SeqIds \cup {NoSeq}, launch : BOOLEAN]]
  /\ healer \in [pc : {"idle", "heal", "reply"}, for : SeqIds \cup {Background}]
  /\ stops \in 0..MaxStops
  /\ fetched \in [SeqIds -> Seq(Nat)]

HealInit ==
  /\ seqMap = [p \in Paths |-> NoSeq]
  /\ seq = [s \in SeqIds |-> NoSequence]
  /\ walk = [s \in SeqIds \cup {Background} |-> IF s = Background THEN "next" ELSE "none"]
  /\ admin = [a \in Admins |-> IdleAdmin]
  /\ healer = [pc |-> "idle", for |-> Background]
  /\ stops = 0
  /\ fetched = [s \in SeqIds |-> <<>>]

Registered(s) == walk[s] # "none"

\* One path is a prefix of the other: they agree as far as both go.
Touching(p, q) == \A i \in DOMAIN p \cap DOMAIN q : p[i] = q[i]

LastIndex(s) == seq[s].items[Len(seq[s].items)]

-----------------------------------------------------------------------------
(* HealHandler.                                                               *)

\* LaunchNewHealSequence without force: the path must be free.
StartHeal(a, p) ==
  /\ admin[a].pc = "idle"
  /\ seqMap[p] # NoSeq => seq[seqMap[p]].ended
  /\ admin' = [admin EXCEPT ![a] = [pc |-> "register", path |-> p, seq |-> NoSeq, launch |-> TRUE]]
  /\ UNCHANGED <<seqMap, seq, walk, healer, fetched, stops>>

\* stopHealSequence, alone or before a forced start: the sequence of the path
\* is looked up, and its context cancelled.
StopHeal(a, p, launch) ==
  /\ admin[a].pc = "idle"
  /\ stops < MaxStops /\ stops' = stops + 1
  /\ LET s == seqMap[p]
     IN IF s = NoSeq
        THEN /\ launch
             /\ admin' = [admin EXCEPT ![a] = [pc |-> "register", path |-> p, seq |-> NoSeq,
                                               launch |-> TRUE]]
             /\ UNCHANGED seq
        ELSE /\ admin' = [admin EXCEPT ![a] = [pc |-> "ending", path |-> p, seq |-> s,
                                               launch |-> launch]]
             /\ seq' = [seq EXCEPT ![s].cancelled = TRUE]
  /\ UNCHANGED <<seqMap, walk, healer, fetched>>

\* Once the sequence has ended, the entry of the path is removed.
HealStopped(a) ==
  /\ admin[a].pc = "ending" /\ seq[admin[a].seq].ended
  /\ seqMap' = [seqMap EXCEPT ![admin[a].path] = NoSeq]
  /\ admin' = [admin EXCEPT ![a] = IF @.launch THEN [@ EXCEPT !.pc = "register"] ELSE IdleAdmin]
  /\ UNCHANGED <<seq, walk, healer, fetched, stops>>

\* Mutant of Overlaps: only the path itself is looked at.
OverlapsSamePath(p) == seqMap[p] # NoSeq /\ ~seq[seqMap[p]].ended

\* A running sequence of the map has a path that contains p, or is within it.
Overlaps(p) == \E q \in Paths : seqMap[q] # NoSeq /\ ~seq[seqMap[q]].ended /\ Touching(p, q)

\* The rest of LaunchNewHealSequence, under the lock.
Register(a) ==
  /\ admin[a].pc = "register"
  /\ admin' = [admin EXCEPT ![a] = IdleAdmin]
  /\ IF Overlaps(admin[a].path)
     THEN UNCHANGED <<seqMap, seq, walk>>
     ELSE \E s \in SeqIds :
            /\ ~Registered(s) /\ \A t \in 1..s - 1 : Registered(t)
            /\ seqMap' = [seqMap EXCEPT ![admin[a].path] = s]
            /\ seq' = [seq EXCEPT ![s] = [NoSequence EXCEPT !.path = admin[a].path, !.ended = FALSE,
                                                        !.left = MaxItems]]
            /\ walk' = [walk EXCEPT ![s] = "next"]
  /\ UNCHANGED <<healer, fetched, stops>>

\* PopHealStatusJSON with the token of s.
PopHealStatus(s) ==
  /\ Registered(s) /\ seqMap[seq[s].path] = s
  /\ seq[s].items # <<>>
  /\ fetched' = [fetched EXCEPT ![s] = @ \o seq[s].items]
  /\ seq' = [seq EXCEPT ![s].sent = LastIndex(s), ![s].items = <<>>]
  /\ UNCHANGED <<seqMap, walk, admin, healer, stops>>

\* periodicHealSeqsClean
CleanEnded(p) ==
  /\ seqMap[p] # NoSeq /\ seq[seqMap[p]].ended
  /\ seqMap' = [seqMap EXCEPT ![p] = NoSeq]
  /\ UNCHANGED <<seq, walk, admin, healer, fetched, stops>>

-----------------------------------------------------------------------------
(* A sequence: traverseAndHeal, and healSequenceStart which waits for it.     *)

WalkTo(s, pc) == walk' = [walk EXCEPT ![s] = pc]

\* The next item, unless the sequence is quitting or at its end.
WalkNext(s) ==
  /\ walk[s] = "next"
  /\ WalkTo(s, IF s # Background /\ (seq[s].cancelled \/ seq[s].left = 0) THEN "done" ELSE "send")
  /\ UNCHANGED <<seqMap, seq, admin, healer, fetched, stops>>

\* queueHealTask hands the item to the heal routine.
QueueHealTask(s) ==
  /\ walk[s] = "send" /\ healer.pc = "idle"
  /\ WalkTo(s, "wait")
  /\ healer' = [pc |-> "heal", for |-> s]
  /\ UNCHANGED <<seqMap, seq, admin, fetched, stops>>

\* Mutant of HealResult: the background sequence does not take its answers.
HealResultOfSequence(s) ==
  /\ s # Background /\ walk[s] = "wait" /\ healer = [pc |-> "reply", for |-> s]
  /\ healer' = [healer EXCEPT !.pc = "idle"]
  /\ WalkTo(s, "push")
  /\ UNCHANGED <<seqMap, seq, admin, fetched, stops>>

\* The routine's answer.  An object that is gone meanwhile has no result.
HealResult(s) ==
  /\ walk[s] = "wait" /\ healer = [pc |-> "reply", for |-> s]
  /\ healer' = [healer EXCEPT !.pc = "idle"]
  /\ IF s = Background THEN WalkTo(s, "next") /\ UNCHANGED seq
     ELSE \/ WalkTo(s, "push") /\ UNCHANGED seq
          \/ WalkTo(s, "next") /\ seq' = [seq EXCEPT ![s].left = @ - 1]
  /\ UNCHANGED <<seqMap, admin, fetched, stops>>

\* The context is done first: the answer is not waited for.
GiveUpResult(s) ==
  /\ s # Background
  /\ walk[s] = "wait" /\ seq[s].cancelled
  /\ WalkTo(s, "next")
  /\ seq' = [seq EXCEPT ![s].left = @ - 1]
  /\ UNCHANGED <<seqMap, admin, healer, fetched, stops>>

NextIndex(s) == (IF seq[s].items = <<>> THEN seq[s].sent ELSE LastIndex(s)) + 1

Room(s) == Len(seq[s].items) # MaxPending

\* pushHealResultItem
PushResult(s) ==
  /\ walk[s] = "push" /\ Room(s)
  /\ seq' = [seq EXCEPT ![s].items = Append(@, NextIndex(s)), ![s].left = @ - 1]
  /\ WalkTo(s, "next")
  /\ UNCHANGED <<seqMap, admin, healer, fetched, stops>>

\* There is no room for the result.  After the timer fires the deferred
\* function waits for it to fire again, which it does not.
PushWaits(s) ==
  /\ walk[s] = "push" /\ ~Room(s)
  /\ WalkTo(s, IF seq[s].cancelled THEN "done" ELSE "hung")
  /\ UNCHANGED <<seqMap, seq, admin, healer, fetched, stops>>

\* traverseAndHealDoneCh: the sequence ends, or had ended.
WalkDone(s) ==
  /\ walk[s] = "done"
  /\ WalkTo(s, "closed")
  /\ seq' = [seq EXCEPT ![s].ended = TRUE]
  /\ UNCHANGED <<seqMap, admin, healer, fetched, stops>>

\* healSequenceStart sees the cancelled context.
SequenceStopped(s) ==
  /\ seq[s].cancelled /\ ~seq[s].ended
  /\ seq' = [seq EXCEPT ![s].ended = TRUE]
  /\ UNCHANGED <<seqMap, walk, admin, healer, fetched, stops>>

\* healRoutine.run heals the item, and then sends its answer.
HealItem ==
  /\ healer.pc = "heal"
  /\ healer' = [healer EXCEPT !.pc = "reply"]
  /\ UNCHANGED <<seqMap, seq, walk, admin, fetched, stops>>

WalkStep(s) == WalkNext(s) \/ HealResult(s) \/ GiveUpResult(s) \/ PushResult(s) \/ WalkDone(s)

HealNext ==
  \/ \E a \in Admins :
       \/ HealStopped(a) \/ Register(a)
       \/ \E p \in Paths : StartHeal(a, p) \/ \E launch \in BOOLEAN : StopHeal(a, p, launch)
  \/ \E p \in Paths : CleanEnded(p)
  \/ \E s \in SeqIds : PopHealStatus(s) \/ PushWaits(s) \/ SequenceStopped(s)
  \/ \E s \in SeqIds \cup {Background} : WalkStep(s)
  \/ \E s \in SeqIds \cup {Background} : QueueHealTask(s)
  \/ HealItem

\* Goroutines run, and senders on a channel are served in their order.
\* Administrators need do nothing, nor need the background have work.
HealFairness ==
  /\ \A s \in SeqIds : WF_healVars(WalkStep(s)) /\ WF_healVars(SequenceStopped(s))
  /\ WF_healVars(HealResult(Background))
  /\ \A s \in SeqIds \cup {Background} : SF_healVars(QueueHealTask(s))
  /\ WF_healVars(HealItem)

HealSpec == HealInit /\ [][HealNext]_healVars /\ HealFairness

-----------------------------------------------------------------------------
(* Properties.                                                                *)

Running(s) == s # NoSeq /\ ~seq[s].ended

\* LaunchNewHealSequence: the running sequences of the map have paths that do
\* not overlap, though the check for the path, the stop that a forced start
\* waits for and the registration are separate steps.
NoOverlap ==
  \A p, q \in Paths :
    p # q /\ Running(seqMap[p]) /\ Running(seqMap[q]) => ~Touching(p, q)

\* "Check if new heal sequence to be started overlaps with any existing,
\* running sequence": no two running sequences overlap.
NoOverlapAtAll ==
  \A s, t \in SeqIds :
    s # t /\ Running(s) /\ Running(t) => ~Touching(seq[s].path, seq[t].path)

\* The client of a sequence is given every result once and in order, however
\* its calls interleave with the healing (lastSentResultIndex).
ResultsInOrder ==
  \A s \in SeqIds : \A i \in DOMAIN fetched[s] : fetched[s][i] = i

\* The running sequences of the map do not overlap, also while others are stopped
\* and forced to start, and each gives its client all results in order (NoOverlap
\* and ResultsInOrder).
SequencesSound == NoOverlap /\ ResultsInOrder

Unclaimed == healer.pc # "idle" /\ walk[healer.for] # "wait"

\* What is handed to the heal routine is taken by it: a sequence whose client
\* is gone and whose results are full does not hold up the others.  Only a
\* sequence stopped while its item is healed does, by not taking the answer.
TasksServed ==
  \A s \in SeqIds \cup {Background} : (walk[s] = "send") ~> (walk[s] # "send" \/ Unclaimed)

\* The heal routine never stops serving.
TasksAlwaysServed ==
  \A s \in SeqIds \cup {Background} : (walk[s] = "send") ~> (walk[s] # "send")
=============================================================================
