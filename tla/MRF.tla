------------------------------- MODULE MRF ----------------------------------
(* The list of operations that most, not all, drives recently took part in    *)
(* (erasure-sets.go, addPartial in erasure-object.go): every set has a        *)
(* bounded channel, one goroutine per set copies it to a common channel, a    *)
(* collector keeps the list, and a healer sweeps the list when a drive of a   *)
(* set is connected again.                                                    *)
EXTENDS Integers, Sequences, FiniteSets, Functions

CONSTANTS Sets, Drives,            \* the sets, and the drives of each
          ChanCap, AggCap, ListCap,  \* 10000 each in the code
          MaxPartials, MaxOutages       \* bounds

ASSUME MRFAssumption ==
  /\ IsFiniteSet(Sets) /\ IsFiniteSet(Drives)
  /\ {ChanCap, AggCap, ListCap, MaxPartials, MaxOutages} \subseteq Nat

OpIds == 1..MaxPartials

VARIABLES partial,         \* the operations so far: the set, and the drive that missed it
          down,       \* drives that are offline
          outages,
          lacking,    \* operations still missing on their drive
          opCh,       \* mrfOpCh of each set
          agg,        \* the common channel
          mrfOps,     \* mrfOperations
          event,      \* sets offered to setReconnectEvent
          todo,       \* the healer's copy of the entries of one set
          sweeping,   \* the healer is at work
          atHealer,   \* operations the background sequence took, not yet done
          dropped,    \* history: dropped at a full channel or list
          unhealed    \* history: sent to be healed in vain

mrfVars == <<partial, down, outages, lacking, opCh, agg, mrfOps, event, todo,
             sweeping, atHealer, dropped, unhealed>>

\* Type invariant: the channels keep within their capacities.
MRFTypeOK ==
  /\ partial \in Seq([set : Sets, drive : Drives]) /\ Len(partial) <= MaxPartials
  /\ down \subseteq Sets \X Drives
  /\ outages \in 0..MaxOutages
  /\ UNION {lacking, mrfOps, todo, atHealer, dropped, unhealed} \subseteq 1..Len(partial)
  /\ opCh \in [Sets -> Seq(OpIds)] /\ \A s \in Sets : Len(opCh[s]) <= ChanCap
  /\ agg \in Seq(OpIds) /\ Len(agg) <= AggCap
  /\ event \subseteq Sets
  /\ sweeping \in BOOLEAN /\ Cardinality(atHealer) <= 1

MRFInit ==
  /\ partial = <<>> /\ down = {} /\ outages = 0 /\ lacking = {}
  /\ opCh = [s \in Sets |-> <<>>] /\ agg = <<>> /\ mrfOps = {}
  /\ event = {} /\ todo = {} /\ sweeping = FALSE /\ atHealer = {}
  /\ dropped = {} /\ unhealed = {}

-----------------------------------------------------------------------------
(* The drives.                                                                *)

DriveFails(s, d) ==
  /\ <<s, d>> \notin down /\ outages < MaxOutages
  /\ down' = down \cup {<<s, d>>}
  /\ outages' = outages + 1
  /\ UNCHANGED <<partial, lacking, opCh, agg, mrfOps, event, todo, sweeping, atHealer, dropped, unhealed>>

\* connectDisks finds the drive and offers its set to the healer.
ConnectDrive(s, d) ==
  /\ <<s, d>> \in down
  /\ down' = down \ {<<s, d>>}
  /\ event' = event \cup {s}
  /\ UNCHANGED <<partial, outages, lacking, opCh, agg, mrfOps, todo, sweeping, atHealer, dropped, unhealed>>

\* A remote drive is back before connectDisks looked.
DriveReturns(s, d) ==
  /\ <<s, d>> \in down
  /\ down' = down \ {<<s, d>>}
  /\ UNCHANGED <<partial, outages, lacking, opCh, agg, mrfOps, event, todo, sweeping, atHealer, dropped, unhealed>>

\* The healer did not take the event within 100 ms.
EventExpires(s) ==
  /\ s \in event /\ sweeping
  /\ event' = event \ {s}
  /\ UNCHANGED <<partial, down, outages, lacking, opCh, agg, mrfOps, todo, sweeping, atHealer, dropped, unhealed>>

-----------------------------------------------------------------------------
(* The list.                                                                  *)

\* An operation that reached its write quorum, not the drive d; addPartial.
PartialOperation(s, d) ==
  LET id == Len(partial) + 1
      full == Len(opCh[s]) = ChanCap
  IN /\ id \in OpIds /\ <<s, d>> \in down
     /\ partial' = Append(partial, [set |-> s, drive |-> d])
     /\ lacking' = lacking \cup {id}
     /\ opCh' = IF full THEN opCh ELSE [opCh EXCEPT ![s] = Append(@, id)]
     /\ dropped' = IF full THEN dropped \cup {id} ELSE dropped
     /\ UNCHANGED <<down, outages, agg, mrfOps, event, todo, sweeping, atHealer, unhealed>>

\* The goroutine of set s in maintainMRFList.
Aggregate(s) ==
  LET full == Len(agg) = AggCap
      id == Head(opCh[s])
  IN /\ opCh[s] # <<>>
     /\ opCh' = [opCh EXCEPT ![s] = Tail(@)]
     /\ agg' = IF full THEN agg ELSE Append(agg, id)
     /\ dropped' = IF full THEN dropped \cup {id} ELSE dropped
     /\ UNCHANGED <<partial, down, outages, lacking, mrfOps, event, todo, sweeping, atHealer, unhealed>>

\* The test comes before the entry is added.
ListFull == Cardinality(mrfOps) > ListCap

\* The collector of maintainMRFList.  The key has a pointer to fresh options,
\* so two operations on one object are two entries.
Collect ==
  LET id == Head(agg)
  IN /\ agg # <<>>
     /\ agg' = Tail(agg)
     /\ mrfOps' = IF ListFull THEN mrfOps ELSE mrfOps \cup {id}
     /\ dropped' = IF ListFull THEN dropped \cup {id} ELSE dropped
     /\ UNCHANGED <<partial, down, outages, lacking, opCh, event, todo, sweeping, atHealer, unhealed>>

-----------------------------------------------------------------------------
(* healMRFRoutine, and the background sequence it sends to.                   *)

BeginSweep(s) ==
  /\ s \in event /\ ~sweeping
  /\ event' = event \ {s}
  /\ sweeping' = TRUE
  /\ todo' = {id \in mrfOps : partial[id].set = s}
  /\ UNCHANGED <<partial, down, outages, lacking, opCh, agg, mrfOps, atHealer, dropped, unhealed>>

\* Mutant of Swept: the entries of the set are removed when the sweep is over.
SweptSet(id) == IF todo = {id} THEN {i \in mrfOps : partial[i].set = partial[id].set} ELSE {}

\* The entries that go once id was sent.
Swept(id) == {id}

SendToHealer(id) ==
  /\ sweeping /\ id \in todo /\ atHealer = {}
  /\ atHealer' = {id}
  /\ todo' = todo \ {id}
  /\ mrfOps' = mrfOps \ Swept(id)
  /\ UNCHANGED <<partial, down, outages, lacking, opCh, agg, event, sweeping, dropped, unhealed>>

EndSweep ==
  /\ sweeping /\ todo = {}
  /\ sweeping' = FALSE
  /\ UNCHANGED <<partial, down, outages, lacking, opCh, agg, mrfOps, event, todo, atHealer, dropped, unhealed>>

\* HealObject: the drive, if it is online, gets what it lacks, or the heal fails.
\* The entry is gone whatever the outcome.
HealOne(id) ==
  /\ id \in atHealer
  /\ atHealer' = {}
  /\ \/ /\ <<partial[id].set, partial[id].drive>> \notin down
        /\ lacking' = lacking \ {id} /\ UNCHANGED unhealed
     \/ unhealed' = unhealed \cup {id} /\ UNCHANGED lacking
  /\ UNCHANGED <<partial, down, outages, opCh, agg, mrfOps, event, todo, sweeping, dropped>>

-----------------------------------------------------------------------------
MRFRoutines ==
  \/ \E s \in Sets : Aggregate(s) \/ BeginSweep(s)
  \/ Collect \/ EndSweep
  \/ \E id \in OpIds : SendToHealer(id) \/ HealOne(id)

MRFNext ==
  \/ \E s \in Sets, d \in Drives :
       DriveFails(s, d) \/ ConnectDrive(s, d) \/ DriveReturns(s, d) \/ PartialOperation(s, d)
  \/ \E s \in Sets : EventExpires(s)
  \/ MRFRoutines

\* The goroutines run as long as the server does.
MRFSpec ==
  /\ MRFInit /\ [][MRFNext]_mrfVars
  /\ WF_mrfVars(EndSweep)
  /\ \A id \in OpIds : WF_mrfVars(SendToHealer(id)) /\ WF_mrfVars(HealOne(id))

-----------------------------------------------------------------------------
(* Properties.                                                                *)

\* An operation that a drive still lacks is on its way to the list, in it or
\* at the healer, until it was sent to be healed once: only a full channel or
\* list drops it before (maintainMRFList, healMRFRoutine).  A sweep loses nothing
\* that is added to the list while it runs; a heal that fails, or that finds the
\* drive offline again, is not repeated.
NothingForgotten ==
  lacking \subseteq (UNION {Range(opCh[s]) : s \in Sets}) \cup Range(agg) \cup mrfOps
                    \cup atHealer \cup dropped \cup unhealed

\* The list grows to one entry more than its limit, and no further: the test of
\* maintainMRFList comes before the entry is added.
ListBounded == Cardinality(mrfOps) <= ListCap + 1

\* The list forgets no operation before it was sent to be healed but at its limit,
\* and exceeds this limit by one entry at most (NothingForgotten, ListBounded).
ListSound == NothingForgotten /\ ListBounded

\* What the healer copied for a sweep is sent to be healed, all of it: a sweep does
\* not stop half way.  The heal itself may fail.
SweepCompletes ==
  \A id \in OpIds : id \in todo ~> (id \notin lacking \/ id \in unhealed)
=============================================================================
