----------------------------- MODULE EventStore -----------------------------
(***************************************************************************)
(* The persistent queue of an event target (pkg/event/target): Save puts   *)
(* an event into the QueueStore, replayEvents lists the directory and      *)
(* hands the keys one by one to sendEvents, which posts the event and      *)
(* deletes the file.  The server may restart at any time; the target may   *)
(* be down for a while, a post may be delivered although it fails, and the *)
(* calls on the files of the store may fail.  The target is external.      *)
(***************************************************************************)
EXTENDS FiniteSets, Integers

CONSTANTS NEvents,     \* events the server raises
          EntryLimit,  \* queue_limit
          MaxTargetOutages,  \* bound on outages of the target
          MaxMishaps   \* bound on restarts, failed file calls and unclear posts

VARIABLES stored,    \* the files of the directory
          count,     \* currentEntries
          opened,    \* the target has its store
          replaying, \* replayEvents and sendEvents run
          keys,      \* the rest of replayEvents' listing, oldest first
          sender,    \* sendEvents: the key it holds and where it is
          targetUp,        \* the target answers
          raised,    \* events raised so far
          accepted,  \* events Save stored
          delivered, \* event -> how often the target got it
          unread,    \* history: events whose file could not be read
          targetOutages, mishaps, halfWritten

eventVars == <<stored, count, opened, replaying, keys, sender, targetUp, raised, accepted, delivered, unread,
               targetOutages, mishaps, halfWritten>>

ASSUME EventAssumption ==
    NEvents \in Nat /\ EntryLimit \in Nat \ {0} /\ MaxTargetOutages \in Nat /\ MaxMishaps \in Nat

Events == 1..NEvents
\* A file is known by its event, and events are numbered by age; half says
\* that the write of the file failed.
File(e, half) == [event |-> e, half |-> half]
Files == [event : Events, half : BOOLEAN]
FileOf(e) == {f \in stored : f.event = e}
Whole(e) == File(e, FALSE) \in stored
Idle == [key |-> 0, at |-> "idle"]

EventInit ==
    /\ stored = {} /\ count = 0 /\ opened = TRUE /\ replaying = TRUE /\ keys = {} /\ sender = Idle /\ targetUp = TRUE
    /\ raised = 0 /\ accepted = {} /\ delivered = [e \in Events |-> 0] /\ unread = {}
    /\ targetOutages = 0 /\ mishaps = 0 /\ halfWritten = 0

-----------------------------------------------------------------------------
(* Save: QueueStore.Put, or a direct post by a target without a store.     *)

Full == count >= EntryLimit

PutEvent ==
    /\ opened /\ raised < NEvents /\ raised' = raised + 1
    /\ IF Full THEN UNCHANGED <<stored, count, accepted>>
       ELSE /\ stored' = stored \cup {File(raised + 1, FALSE)}
            /\ count' = count + 1 /\ accepted' = accepted \cup {raised + 1}
    /\ UNCHANGED <<opened, replaying, keys, sender, targetUp, delivered, unread, targetOutages, mishaps, halfWritten>>

\* os.WriteFile fails and leaves a part of the file; the event is refused.
PutEventFails ==
    /\ opened /\ raised < NEvents /\ raised' = raised + 1 /\ ~Full
    /\ mishaps < MaxMishaps /\ mishaps' = mishaps + 1
    /\ stored' = stored \cup {File(raised + 1, TRUE)}
    /\ halfWritten' = halfWritten + 1
    /\ UNCHANGED <<count, opened, replaying, keys, sender, targetUp, accepted, delivered, unread, targetOutages>>

SendDirectly ==
    /\ ~opened /\ raised < NEvents /\ raised' = raised + 1
    /\ delivered' = IF targetUp THEN [delivered EXCEPT ![raised + 1] = @ + 1] ELSE delivered
    /\ UNCHANGED <<stored, count, opened, replaying, keys, sender, targetUp, accepted, unread, targetOutages, mishaps, halfWritten>>

-----------------------------------------------------------------------------
(* replayEvents and sendEvents.                                            *)

\* store.List, once the keys of the previous listing are handed over.
ListKeys ==
    /\ replaying /\ keys = {} /\ stored # {}
    /\ keys' = {f.event : f \in stored}
    /\ UNCHANGED <<stored, count, opened, replaying, sender, targetUp, raised, accepted, delivered, unread, targetOutages, mishaps, halfWritten>>

\* The unbuffered eventKeyCh; the listing is sorted by age.
HandOver ==
    /\ replaying /\ sender = Idle
    /\ \E e \in keys :
         /\ \A d \in keys : e <= d
         /\ sender' = [key |-> e, at |-> "get"] /\ keys' = keys \ {e}
    /\ UNCHANGED <<stored, count, opened, replaying, targetUp, raised, accepted, delivered, unread, targetOutages, mishaps, halfWritten>>

\* Mutant of RemoveFile: the counter is not kept from underflowing.
RemoveFileUnderflow(e) ==
    IF FileOf(e) = {} THEN UNCHANGED <<stored, count>>
    ELSE stored' = stored \ FileOf(e) /\ count' = count - 1

\* QueueStore.del, whose counter is kept from underflowing.
RemoveFile(e) ==
    IF FileOf(e) = {} THEN UNCHANGED <<stored, count>>
    ELSE stored' = stored \ FileOf(e) /\ count' = IF count = 0 THEN 0 ELSE count - 1

\* Mutant of GetEvent: a broken file is tried again and again.
GetEventWholeOnly ==
    /\ replaying /\ sender.at = "get" /\ Whole(sender.key)
    /\ sender' = [sender EXCEPT !.at = "post"]
    /\ UNCHANGED <<stored, count, opened, replaying, keys, targetUp, raised, accepted, delivered, unread, targetOutages, mishaps, halfWritten>>

\* QueueStore.Get: a file that is gone or cannot be parsed is dropped, and the send is over.
\* (A send that fails is tried again, and then finds no file.)
GetEvent ==
    /\ replaying /\ sender.at = "get"
    /\ IF Whole(sender.key)
       THEN sender' = [sender EXCEPT !.at = "post"] /\ UNCHANGED <<stored, count>>
       ELSE sender' = Idle /\ RemoveFile(sender.key)
    /\ UNCHANGED <<opened, replaying, keys, targetUp, raised, accepted, delivered, unread, targetOutages, mishaps, halfWritten>>

\* os.ReadFile fails although the file is whole: Get drops it all the same.
ReadEventFails ==
    /\ replaying /\ sender.at = "get" /\ Whole(sender.key)
    /\ mishaps < MaxMishaps /\ mishaps' = mishaps + 1
    /\ unread' = unread \cup {sender.key}
    /\ sender' = Idle /\ RemoveFile(sender.key)
    /\ UNCHANGED <<opened, replaying, keys, targetUp, raised, accepted, delivered, targetOutages, halfWritten>>

\* The target takes the event.
PostEvent ==
    /\ replaying /\ sender.at = "post" /\ targetUp
    /\ delivered' = [delivered EXCEPT ![sender.key] = @ + 1]
    /\ sender' = [sender EXCEPT !.at = "del"]
    /\ UNCHANGED <<stored, count, opened, replaying, keys, targetUp, raised, accepted, unread, targetOutages, mishaps, halfWritten>>

\* The target took the event, but the answer is lost: Send is retried from Get.
PostUnclear ==
    /\ replaying /\ sender.at = "post" /\ targetUp
    /\ mishaps < MaxMishaps /\ mishaps' = mishaps + 1
    /\ delivered' = [delivered EXCEPT ![sender.key] = @ + 1]
    /\ sender' = [sender EXCEPT !.at = "get"]
    /\ UNCHANGED <<stored, count, opened, replaying, keys, targetUp, raised, accepted, unread, targetOutages, halfWritten>>

\* Mutant of PostFails: the event is given up.
PostFailsDropped ==
    /\ replaying /\ sender.at = "post" /\ ~targetUp
    /\ sender' = [sender EXCEPT !.at = "del"]
    /\ UNCHANGED <<stored, count, opened, replaying, keys, targetUp, raised, accepted, delivered, unread, targetOutages, mishaps, halfWritten>>

\* The post fails; Send is retried from Get after a while.
PostFails ==
    /\ replaying /\ sender.at = "post" /\ ~targetUp
    /\ sender' = [sender EXCEPT !.at = "get"]
    /\ UNCHANGED <<stored, count, opened, replaying, keys, targetUp, raised, accepted, delivered, unread, targetOutages, mishaps, halfWritten>>

DeleteEvent ==
    /\ replaying /\ sender.at = "del"
    /\ RemoveFile(sender.key)
    /\ sender' = Idle
    /\ UNCHANGED <<opened, replaying, keys, targetUp, raised, accepted, delivered, unread, targetOutages, mishaps, halfWritten>>

\* os.Remove fails after the post: Send is retried from Get, and the event posted again.
DeleteEventFails ==
    /\ replaying /\ sender.at = "del"
    /\ mishaps < MaxMishaps /\ mishaps' = mishaps + 1
    /\ sender' = [sender EXCEPT !.at = "get"]
    /\ UNCHANGED <<stored, count, opened, replaying, keys, targetUp, raised, accepted, delivered, unread, targetOutages, halfWritten>>

-----------------------------------------------------------------------------
(* The environment.                                                        *)

TargetDown == targetUp /\ targetOutages < MaxTargetOutages /\ targetUp' = FALSE /\ targetOutages' = targetOutages + 1
              /\ UNCHANGED <<stored, count, opened, replaying, keys, sender, raised, accepted, delivered, unread, mishaps, halfWritten>>
TargetUp == ~targetUp /\ targetUp' = TRUE
            /\ UNCHANGED <<stored, count, opened, replaying, keys, sender, raised, accepted, delivered, unread, targetOutages, mishaps, halfWritten>>

\* NewWebhookTarget on start-up: QueueStore.Open counts the files.  With a full store it
\* fails, and the target is registered without a store; when IsActive fails
\* otherwise than for want of a connection, it has its store but no replay.
OpenStore == IF Cardinality(stored) >= EntryLimit THEN count' = 0 /\ opened' = FALSE /\ replaying' = FALSE
             ELSE count' = Cardinality(stored) /\ opened' = TRUE /\ replaying' \in BOOLEAN

RestartServer ==
    /\ mishaps < MaxMishaps /\ mishaps' = mishaps + 1
    /\ OpenStore
    /\ keys' = {} /\ sender' = Idle
    /\ UNCHANGED <<stored, targetUp, raised, accepted, delivered, unread, targetOutages, halfWritten>>

Replay == ListKeys \/ HandOver \/ GetEvent \/ PostEvent \/ DeleteEvent
EventNext == \/ PutEvent \/ PutEventFails \/ SendDirectly \/ Replay \/ ReadEventFails \/ PostUnclear \/ PostFails
             \/ DeleteEventFails \/ TargetDown \/ TargetUp \/ RestartServer

\* The two goroutines are scheduled, and an outage ends.
EventFairness == WF_eventVars(Replay) /\ WF_eventVars(PostFails) /\ WF_eventVars(TargetUp)
EventSpec == EventInit /\ [][EventNext]_eventVars /\ EventFairness

-----------------------------------------------------------------------------
(* Properties.                                                             *)

\* Type invariant of the store and of the two goroutines, which run on a store only.
EventTypeOK ==
    /\ stored \subseteq Files /\ count \in 0..NEvents /\ targetUp \in BOOLEAN
    /\ opened \in BOOLEAN /\ replaying \in BOOLEAN /\ (replaying => opened)
    /\ keys \subseteq Events /\ sender \in [key: 0..NEvents, at: {"idle", "get", "post", "del"}]
    /\ accepted \subseteq Events /\ raised \in 0..NEvents /\ delivered \in [Events -> Nat] /\ unread \subseteq Events
    /\ {targetOutages, mishaps, halfWritten} \subseteq Nat

\* An event that Save stored is in the directory until the target has it, whatever restarts,
\* failed posts, broken files and failed removals there are (Put, Send and Del); the one
\* exception is an event whose own file could not be read, which Get removes.
NothingLost == \A e \in accepted : delivered[e] > 0 \/ Whole(e) \/ e \in unread

\* The directory holds at most queue_limit events, and one more for every write that failed:
\* the count is one short once the broken file of such a write is dropped (Put and del).
StoreBounded == Cardinality(stored) <= EntryLimit + halfWritten

\* An event reaches the target once, and once more for every restart, unclear post or failed
\* removal: never because replayEvents lists keys that are being sent.
NoSpontaneousDuplicate == \A e \in Events : delivered[e] <= 1 + mishaps

\* The queue loses no event but one it cannot read, exceeds its limit only by failed writes,
\* and repeats an event only after a mishap (QueueStore, Send, replayEvents).
QueueSound == NothingLost /\ StoreBounded /\ NoSpontaneousDuplicate

Undelivered == {e \in accepted \ unread : delivered[e] = 0}

\* Every stored event that can be read reaches the target while the replay runs: outages end,
\* and a broken file, a failed removal or a restart in the middle of a send does not stop it.
ReplayedWhileOpen == Undelivered # {} ~> Undelivered = {} \/ ~replaying

\* Every stored event that can be read reaches the target once the target is back.
StoredDelivered == Undelivered # {} ~> Undelivered = {}
=============================================================================
