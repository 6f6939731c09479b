----------------------------- MODULE MCProgress -----------------------------
(* That what was begun comes to an end: the components whose fairness is      *)
(* known, in instances small enough for liveness.  A behaviour is one of any  *)
(* of them, chosen in the initial state, and the others keep still.           *)
EXTENDS Transition, Multipart, Replication, FSObject, DegradedRead,
        HealSequences, DriveHeal, MRF, EventStore, Metacache

HealPaths == {<<"b">>, <<"b", "o">>}

VARIABLES which,   \* the component that runs
          lLockMap, lPhase, lAtt, lRpc, lLocks, lFailed, lRel, lCancelled, lFaults, lLost, lUnsure

lockVars == <<lLockMap, lPhase, lAtt, lRpc, lLocks, lFailed, lRel, lCancelled, lFaults, lLost, lUnsure>>

\* The distributed lock: one writer on three nodes, and one reader on two.
Lock == INSTANCE Dsync WITH
  Clients <- {"c"}, Readers <- {}, Nodes <- 1..3, MaxAttempts <- 1, OneShot <- {}, MaxFaults <- 1,
  lockMap <- lLockMap, phase <- lPhase, att <- lAtt, rpc <- lRpc, locks <- lLocks, failed <- lFailed,
  rel <- lRel, cancelled <- lCancelled, faults <- lFaults, lost <- lLost, unsure <- lUnsure
RLock == INSTANCE Dsync WITH
  Clients <- {"c"}, Readers <- {"c"}, Nodes <- 1..2, MaxAttempts <- 1, OneShot <- {}, MaxFaults <- 2,
  lockMap <- lLockMap, phase <- lPhase, att <- lAtt, rpc <- lRpc, locks <- lLocks, failed <- lFailed,
  rel <- lRel, cancelled <- lCancelled, faults <- lFaults, lost <- lLost, unsure <- lUnsure

progressVars == <<which, tierVars, mpVars, repVars, fsVars, readVars, healVars, driveVars, mrfVars, eventVars,
                  allListVars, lockVars>>

ProgressInit ==
  /\ which \in {"tier", "multipart", "replication", "file", "read", "sequences", "drive", "mrf", "events",
               "listing", "lock", "rlock"}
  /\ MPInit /\ (which # "multipart" => versioned)
  /\ FSInit /\ (which # "file" => fileData = 0)
  /\ ReadInit /\ (which # "read" => online = Positions /\ ~prefer[1] /\ \A p \in 1..NParts : Sick(p) = {})
  /\ TierInit /\ RepInit /\ HealInit /\ DriveInit /\ MRFInit /\ EventInit
  /\ ListInit /\ leader = Owner
  /\ IF which = "rlock" THEN RLock!Init ELSE Lock!Init

\* The components that do not run keep still.
OthersStill ==
  /\ UNCHANGED which
  /\ which # "tier" => UNCHANGED tierVars
  /\ which # "multipart" => UNCHANGED mpVars
  /\ which # "replication" => UNCHANGED repVars
  /\ which # "file" => UNCHANGED fsVars
  /\ which # "read" => UNCHANGED readVars
  /\ which # "sequences" => UNCHANGED healVars
  /\ which # "drive" => UNCHANGED driveVars
  /\ which # "mrf" => UNCHANGED mrfVars
  /\ which # "events" => UNCHANGED eventVars
  /\ which # "listing" => UNCHANGED allListVars
  /\ which \notin {"lock", "rlock"} => UNCHANGED lockVars

ProgressNext ==
  /\ \/ which = "tier" /\ TierNext
     \/ which = "multipart" /\ MPNext
     \/ which = "replication" /\ RepNext
     \/ which = "file" /\ FSNext
     \/ which = "read" /\ ReadNext
     \/ which = "sequences" /\ HealNext
     \/ which = "drive" /\ DriveNext
     \/ which = "mrf" /\ MRFNext
     \/ which = "events" /\ EventNext
     \/ which = "listing" /\ ListNext
     \/ which = "lock" /\ Lock!Next
     \/ which = "rlock" /\ RLock!Next
  /\ OthersStill

-----------------------------------------------------------------------------
(* The fairness of the components, each of which is stated and explained in   *)
(* its module.  As which never changes, fairness for a step of one component  *)
(* or of another is fairness for both.                                        *)

WeaklyFair(k) ==
  \/ which = "tier" /\ ((k = 1 /\ Steps) \/ (k = 2 /\ ScanIntent))
  \/ which = "multipart" /\ \/ k = 1 /\ \E r \in Putters : PartStep(r)
                            \/ k = 2 /\ \E r \in Completers : CompleteStep(r)
                            \/ k = 3 /\ Age
                            \/ k = 4 /\ FindStale
                            \/ k = 5 /\ RemoveStale
  \/ which = "replication" /\ k = 1 /\ \E w \in RepWorkers : Works(w)
  \/ which = "file" /\ k \in Requests /\ FSStep(k)
  \/ which = "read" /\ k = 1 /\ ReadNext
  \/ which = "sequences" /\ \/ k \in SeqIds /\ WalkStep(k)
                            \/ k - MaxSeqs \in SeqIds /\ SequenceStopped(k - MaxSeqs)
                            \/ k = 2 * MaxSeqs + 1 /\ HealResult(Background)
                            \/ k = 2 * MaxSeqs + 2 /\ HealItem
  \/ which = "drive" /\ k = 1 /\ DriveSteps
  \/ which = "mrf" /\ \/ k = 1 /\ EndSweep
                      \/ k - 1 \in OpIds /\ SendToHealer(k - 1)
                      \/ k - 1 - MaxPartials \in OpIds /\ HealOne(k - 1 - MaxPartials)
  \/ which = "events" /\ ((k = 1 /\ Replay) \/ (k = 2 /\ PostFails) \/ (k = 3 /\ TargetUp))
  \/ which = "listing" /\ k \in ListIds /\ ListRequest(k)
  \/ which = "lock" /\ ((k = 1 /\ Lock!ClientStep("c")) \/ (k - 1 \in 1..3 /\ Lock!NodeStep(k - 1)))
  \/ which = "rlock" /\ ((k = 1 /\ RLock!ClientStep("c")) \/ (k - 1 \in 1..2 /\ RLock!NodeStep(k - 1)))

StronglyFair(k) ==
  \/ which = "tier" /\ \/ k = 1 /\ ScanTransition
                       \/ k - 1 \in Uploads /\ Expiry(k - 1)
                       \/ k - 1 - MaxUploads \in Uploads /\ TakeTask(k - 1 - MaxUploads)
  \/ which = "replication" /\ \/ k = 1 /\ \E w \in RepWorkers : Takes(w)
                              \/ k - 1 \in RepWorkers /\ MarkDeletion(k - 1)
                              \/ k - 3 \in VersionIds /\ ScanVersion(k - 3)
  \/ which = "sequences" /\ k - 1 \in SeqIds \cup {Background} /\ QueueHealTask(k - 1)

\* The state of the component that runs.
active ==
  CASE which = "tier" -> tierVars
    [] which = "multipart" -> mpVars
    [] which = "replication" -> repVars
    [] which = "file" -> fsVars
    [] which = "read" -> readVars
    [] which = "sequences" -> healVars
    [] which = "drive" -> driveVars
    [] which = "mrf" -> mrfVars
    [] which = "events" -> eventVars
    [] which = "listing" -> allListVars
    [] which \in {"lock", "rlock"} -> lockVars

ProgressSpec ==
  /\ ProgressInit /\ [][ProgressNext]_progressVars
  /\ \A k \in 1..5 : WF_active(UNCHANGED which /\ WeaklyFair(k))
  /\ \A k \in 1..5 : SF_active(UNCHANGED which /\ StronglyFair(k))

-----------------------------------------------------------------------------
Unlocked == IF which = "rlock" THEN RLock!UnlockOver("c") ELSE Lock!UnlockOver("c")

\* Unlock of a writer on three nodes and RUnlock of a reader on two return, unless
\* half of the nodes refuse the release (UnlockOver of Dsync): one of three nodes
\* that restarted, or one whose answer got lost, does not hold up Unlock.
LockEnds == lPhase["c"] = "unlocking" ~> Unlocked

\* Every request that was begun is answered: on the file system backend, whose
\* requests wait for each other's locks, and a read from drives that fail.
RequestsAnswered == RequestsEnd /\ GetEnds

\* Healing goes on at all three places it starts from.  The heal routine takes what
\* sequences hand it, unless it is stuck with an answer that a stopped sequence
\* does not take; a replaced drive comes off the queue for good, though its tracker
\* stays where its deletion failed; and a sweep over partial operations sends all
\* of them to be healed, whether the heals succeed or not (TasksServed of
\* HealSequences, HealEnds of DriveHeal, SweepCompletes of MRF).
HealsEnd == TasksServed /\ HealEnds /\ SweepCompletes
=============================================================================
