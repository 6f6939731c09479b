----------------------------- MODULE DriveHeal ------------------------------
(* Healing of a replaced drive by the server it is in: the drive is formatted *)
(* and marked with a healing tracker (format-erasure.go), and every bucket is *)
(* listed and healed (background-newdisks-heal-ops.go, healErasureSet in      *)
(* global-heal.go).  The tracker is kept on the drive, so that a server that  *)
(* is restarted goes on where it was.                                         *)
(*                                                                            *)
(* Buckets are numbered in the order they are healed, and so are the objects  *)
(* of a bucket in the order of their names; the name of the bucket itself     *)
(* falls between object Before and the next one.                              *)
EXTENDS Integers

CONSTANTS NBuckets, NObjects, Before,
          MaxRestarts,   \* bound on restarts of the server
          MaxErrors      \* bound on objects and listings that fail, and on tracker calls that fail

ASSUME DriveHealAssumption ==
  /\ NBuckets \in Nat /\ NObjects \in Nat /\ Before \in 0..NObjects
  /\ MaxRestarts \in Nat /\ MaxErrors \in Nat

Everything == (1..NBuckets) \X (1..NObjects)

VARIABLES formatted,   \* format.json is on the drive
          tracker,     \* .healing.bin on the drive
          missing,     \* objects the drive does not have
          queued,      \* allHealState.healLocalDisks has the drive
          healing,     \* monitorLocalDisksAndHeal: its tracker and place
          restarts, errors,
          badSaves,    \* tracker saves and deletions that failed
          visited,     \* history: objects given to HealObject
          failed,      \* history: objects whose healing or listing failed
          skipped,     \* history: objects that a resumed listing left out
          unmarked,    \* history: restarted between format and tracker
          undeleted    \* history: the tracker is there because its deletion failed

driveVars == <<formatted, tracker, missing, queued, healing, restarts, errors, badSaves,
               visited, failed, skipped, unmarked, undeleted>>

NoTracker == [on |-> FALSE, bucket |-> 0, object |-> 0, healed |-> {}]
NewTracker == [NoTracker EXCEPT !.on = TRUE]
Tracker == [on : BOOLEAN, bucket : 0..NBuckets, object : 0..NObjects, healed : SUBSET (1..NBuckets)]
NotHealing == [pc |-> "idle", at |-> 0, tracker |-> NoTracker]

\* Type invariant: the tracker knows only buckets there are.
DriveTypeOK ==
  /\ {formatted, queued, unmarked, undeleted} \subseteq BOOLEAN
  /\ tracker \in Tracker
  /\ missing \subseteq Everything /\ visited \subseteq Everything
  /\ failed \subseteq Everything /\ skipped \subseteq Everything
  /\ healing \in [pc : {"idle", "mark", "bucket", "list"}, at : 0..NObjects + 1, tracker : Tracker]
  /\ restarts \in 0..MaxRestarts /\ errors \in 0..MaxErrors /\ badSaves \in 0..MaxErrors

\* The drive was replaced by an empty one.
DriveInit ==
  /\ formatted = FALSE
  /\ tracker = NoTracker
  /\ missing = Everything
  /\ queued = FALSE
  /\ healing = NotHealing
  /\ restarts = 0 /\ errors = 0 /\ badSaves = 0
  /\ visited = {} /\ failed = {} /\ skipped = {} /\ unmarked = FALSE /\ undeleted = FALSE

NoHistory == UNCHANGED <<visited, failed, skipped, unmarked>>

\* healingTracker.save writes the file in place.  If that fails the old tracker is
\* still there, or the file is torn: it marks the drive, and loads as a new one.
SaveFails ==
  /\ badSaves < MaxErrors /\ badSaves' = badSaves + 1
  /\ tracker' \in {tracker, NewTracker}

SaveTracker(t) == (tracker' = t /\ UNCHANGED badSaves) \/ SaveFails

\* connectDisks finds the drive unformatted.
FindDrive ==
  /\ ~formatted /\ ~queued
  /\ queued' = TRUE
  /\ UNCHANGED <<formatted, tracker, missing, healing, restarts, errors, badSaves, undeleted>> /\ NoHistory

\* HealFormat, on behalf of the monitor: saveFormatErasure renames format.json
\* into place, and then saves a tracker.
FormatDrive ==
  /\ healing.pc = "idle" /\ queued /\ ~formatted
  /\ formatted' = TRUE
  /\ healing' = [healing EXCEPT !.pc = "mark"]
  /\ UNCHANGED <<tracker, missing, queued, restarts, errors, badSaves, undeleted>> /\ NoHistory

MarkDrive ==
  /\ healing.pc = "mark"
  /\ SaveTracker(NewTracker)
  /\ healing' = NotHealing
  /\ UNCHANGED <<formatted, missing, queued, restarts, errors, undeleted>> /\ NoHistory

\* loadHealingTracker, or else newHealingTracker.
LoadTracker == IF tracker.on THEN tracker ELSE NewTracker

\* A tracker that cannot be saved ends the round, and the drive stays queued.
BeginHeal ==
  /\ healing.pc = "idle" /\ queued /\ formatted
  /\ \/ /\ tracker' = LoadTracker /\ UNCHANGED badSaves
        /\ healing' = [pc |-> "bucket", at |-> 0, tracker |-> LoadTracker]
     \/ SaveFails /\ UNCHANGED healing
  /\ undeleted' = FALSE
  /\ UNCHANGED <<formatted, missing, queued, restarts, errors>> /\ NoHistory

Pending == (1..NBuckets) \ healing.tracker.healed

\* The object at which the listing of b begins: a bucket that is resumed is
\* listed from the name of the bucket on.
StartOf(b) == IF healing.tracker.bucket = b THEN Before + 1 ELSE 1

BeginBucket(b) ==
  /\ healing.pc = "bucket" /\ b \in Pending /\ \A c \in Pending : b <= c
  /\ healing' = [pc |-> "list", at |-> StartOf(b),
                 tracker |-> [healing.tracker EXCEPT !.bucket = b, !.object = 0]]
  /\ skipped' = skipped \cup ({<<b, o>> : o \in 1..StartOf(b) - 1} \ visited)
  /\ UNCHANGED <<formatted, tracker, missing, queued, restarts, errors, badSaves, visited, failed, unmarked, undeleted>>

\* healEntry.  The tracker is saved when a minute has passed; a failure is logged.
HealEntry(ok, save) ==
  LET o == <<healing.tracker.bucket, healing.at>>
      t == [healing.tracker EXCEPT !.object = healing.at]
  IN /\ healing.pc = "list" /\ healing.at <= NObjects
     /\ healing' = [healing EXCEPT !.at = @ + 1, !.tracker = t]
     /\ visited' = visited \cup {o}
     /\ IF ok THEN missing' = missing \ {o} /\ UNCHANGED <<failed, errors>>
        ELSE /\ errors < MaxErrors /\ errors' = errors + 1
             /\ failed' = failed \cup {o}
             /\ UNCHANGED missing
     /\ IF save THEN SaveTracker(t) ELSE UNCHANGED <<tracker, badSaves>>
     /\ UNCHANGED <<formatted, queued, restarts, skipped, unmarked, undeleted>>

\* Mutant of DoneBucket: the next bucket is noted as well.
DoneBucketNext(t) == [t EXCEPT !.healed = @ \cup ({t.bucket, t.bucket + 1} \cap (1..NBuckets))]

\* bucketDone
DoneBucket(t) == [t EXCEPT !.healed = @ \cup {t.bucket}]

\* The listing is at its end, or failed: the bucket counts as healed.
EndBucket ==
  /\ healing.pc = "list"
  /\ \/ healing.at > NObjects /\ UNCHANGED <<errors, failed>>
     \/ /\ healing.at <= NObjects /\ errors < MaxErrors
        /\ errors' = errors + 1
        /\ failed' = failed \cup {<<healing.tracker.bucket, o>> : o \in healing.at..NObjects}
  /\ SaveTracker(DoneBucket(healing.tracker))
  /\ healing' = [pc |-> "bucket", at |-> 0, tracker |-> DoneBucket(healing.tracker)]
  /\ UNCHANGED <<formatted, missing, queued, restarts, visited, skipped, unmarked, undeleted>>

\* No drive of the set to list from: the drive stays queued, and the next
\* round begins with the tracker that is on the drive.
AbandonHeal ==
  /\ healing.pc = "bucket" /\ Pending # {}
  /\ errors < MaxErrors /\ errors' = errors + 1
  /\ healing' = NotHealing
  /\ UNCHANGED <<formatted, tracker, missing, queued, restarts, badSaves, undeleted>> /\ NoHistory

\* All buckets are done: the tracker is deleted and the drive taken off.  The
\* drive is taken off, and stays marked, also if the deletion fails.
EndHeal ==
  /\ healing.pc = "bucket" /\ Pending = {}
  /\ \/ tracker' = NoTracker /\ UNCHANGED <<badSaves, undeleted>>
     \/ /\ badSaves < MaxErrors /\ badSaves' = badSaves + 1
        /\ undeleted' = TRUE /\ UNCHANGED tracker
  /\ queued' = FALSE
  /\ healing' = NotHealing
  /\ UNCHANGED <<formatted, missing, restarts, errors>> /\ NoHistory

\* getLocalDisksToHeal
FoundOnStart == ~formatted \/ tracker.on

Restart ==
  /\ restarts < MaxRestarts
  /\ restarts' = restarts + 1
  /\ healing' = NotHealing
  /\ queued' = FoundOnStart
  /\ unmarked' = (unmarked \/ (formatted /\ queued /\ ~tracker.on))
  /\ UNCHANGED <<formatted, tracker, missing, errors, badSaves, visited, failed, skipped, undeleted>>

DriveSteps ==
  \/ FindDrive \/ FormatDrive \/ MarkDrive \/ BeginHeal
  \/ \E b \in 1..NBuckets : BeginBucket(b)
  \/ \E ok, save \in BOOLEAN : HealEntry(ok, save)
  \/ EndBucket \/ AbandonHeal \/ EndHeal

DriveNext == DriveSteps \/ Restart

\* The monitor runs at its interval, and restarts are finitely many.
DriveSpec == DriveInit /\ [][DriveNext]_driveVars /\ WF_driveVars(DriveSteps)

-----------------------------------------------------------------------------
(* Properties.                                                                *)

\* A drive that is formatted and not queued has all its objects, after any restarts
\* and failed saves, but for those whose healing failed and those left out by a
\* resumed listing; unless the server stopped while the drive was formatted and had
\* no tracker.  And a drive that is being healed is marked.
HealedAll ==
  /\ formatted /\ ~queued /\ ~unmarked => missing \subseteq failed \cup skipped
  /\ healing.pc \in {"bucket", "list"} => tracker.on

\* A bucket that the tracker on the drive calls healed is not healed again,
\* and none of its objects was passed over.
HealedStays ==
  \A b \in tracker.healed : \A o \in 1..NObjects : <<b, o>> \in visited \cup failed \cup skipped

\* A restart does not lose what was done: a bucket leaves the tracker's list only in
\* a save that fails, which tears the file (healingTracker.save).
ProgressKept ==
  [][tracker.on /\ tracker'.on => tracker.healed \subseteq tracker'.healed \/ badSaves' > badSaves]_driveVars

\* The tracker can be relied on across restarts and failed saves: a drive taken off
\* the queue is healed, a bucket in its list is healed, and none leaves the list but
\* in a failed save, after which its objects are healed once more.
TrackerSound == [](HealedAll /\ HealedStays) /\ ProgressKept

\* A replaced drive that was found is taken off the queue in the end and stays so, and
\* is no longer marked, unless the deletion of the tracker failed (tracker.delete).
HealEnds == queued ~> [](formatted /\ ~queued /\ (tracker.on => undeleted))

\* "If we resume to the same bucket, forward to last known item": what a
\* listing leaves out was seen before the restart.
ResumeAtLastItem ==
  healing.pc = "list" => \A o \in 1..healing.at - 1 : <<healing.tracker.bucket, o>> \in visited
=============================================================================
