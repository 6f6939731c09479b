--------------------------- MODULE ClusterProofs ----------------------------
(* TLAPS proofs about services of the cluster that keep persisted or shared    *)
(* state: the healing of a drive that was replaced (DriveHeal), heal sequences *)
(* that administrators start and stop (HealSequences), and the settings of     *)
(* buckets (BucketMetadata).                                                  *)
EXTENDS DriveHeal, HealSequences, BucketMetadata, TLAPS

(* Zenon is the default prover here; the steps that need arithmetic or the    *)
(* theory of functions and records cite SMT.                                  *)
USE Zenon

-----------------------------------------------------------------------------
(* Drive healing.  The tracker on the drive lags behind the one in memory;     *)
(* the objects the tracker counts as done are healed, failed or skipped.  A     *)
(* save that fails leaves an older tracker, or one that has no bucket.         *)

Handled(b, o) == <<b, o>> \in visited \cup failed \cup skipped
AtWork == healing.pc \in {"bucket", "list"}

\* The healer knows at least what is on the drive, and has handled all objects
\* of the buckets in its list and the ones before its place in the bucket.
HealerKnows ==
  /\ AtWork => healing.tracker.on /\ tracker.healed \subseteq healing.tracker.healed
  /\ AtWork => \A b \in healing.tracker.healed : \A o \in 1..NObjects : Handled(b, o)
  /\ healing.pc = "list" => /\ healing.tracker.bucket \in 1..NBuckets /\ healing.at \in 1..NObjects + 1
                            /\ \A o \in 1..NObjects : o < healing.at => Handled(healing.tracker.bucket, o)

\* There is no tracker before the drive is marked.
Marking ==
  /\ ~formatted => tracker = NoTracker /\ healing.pc = "idle"
  /\ healing.pc = "mark" => tracker = NoTracker

Mended == \A x \in missing : x \in visited => x \in failed

DriveIInv == DriveTypeOK /\ HealerKnows /\ Marking /\ Mended /\ HealedAll /\ HealedStays

Healings == [pc : {"idle", "mark", "bucket", "list"}, at : 0..NObjects + 1, tracker : Tracker]

\* The fields of the healing tracker and of the goroutine that heals the drive.
LEMMA TrackerFacts ==
  /\ NoTracker \in Tracker /\ ~NoTracker.on /\ NoTracker.healed = {}
  /\ NewTracker \in Tracker /\ NewTracker.on /\ NewTracker.healed = {}
  /\ NotHealing \in Healings /\ NotHealing.pc = "idle"
<1>1. 0 \in 0..NBuckets /\ 0 \in 0..NObjects /\ 0 \in 0..NObjects + 1
  BY SMT, DriveHealAssumption
<1>2. NoTracker \in Tracker /\ NoTracker.healed = {}
  BY SMT, <1>1 DEF NoTracker, Tracker
<1>3. ~NoTracker.on
  BY DEF NoTracker
<1>4. NewTracker \in Tracker /\ NewTracker.healed = {}
  BY <1>1, <1>2 DEF NoTracker, NewTracker, Tracker
<1>5. NewTracker.on
  <2>1. NewTracker.on = TRUE
    BY SMT DEF NoTracker, NewTracker
  <2> QED BY <2>1
<1>6. NotHealing \in Healings /\ NotHealing.pc = "idle"
  BY SMT, <1>1, <1>2 DEF NotHealing, Healings
<1> QED BY <1>2, <1>3, <1>4, <1>5, <1>6

\* What a save leaves on the drive: the tracker, or if it fails the old one or a new one.
LEMMA SaveFacts ==
  ASSUME DriveIInv, NEW t \in Tracker, SaveTracker(t)
  PROVE  /\ tracker' \in {t, tracker, NewTracker} /\ tracker' \in Tracker /\ badSaves' \in 0..MaxErrors
         /\ tracker' = t \/ badSaves' > badSaves
<1>1. badSaves \in 0..MaxErrors /\ tracker \in Tracker /\ MaxErrors \in Nat
  BY DriveHealAssumption DEF DriveIInv, DriveTypeOK
<1>2. CASE tracker' = t /\ UNCHANGED badSaves
  BY <1>1, <1>2
<1>3. CASE SaveFails
  <2>1. badSaves < MaxErrors /\ badSaves' = badSaves + 1 /\ tracker' \in {tracker, NewTracker}
    BY <1>3 DEF SaveFails
  <2>2. badSaves' \in 0..MaxErrors /\ badSaves' > badSaves
    BY SMT, <1>1, <2>1
  <2> QED BY <1>1, <2>1, <2>2, TrackerFacts
<1> QED BY <1>2, <1>3 DEF SaveTracker

\* A server that starts with a drive that was just replaced satisfies the invariant.
LEMMA DriveInitIInv == DriveInit => DriveIInv
<1> SUFFICES ASSUME DriveInit PROVE DriveIInv
  OBVIOUS
<1>1. restarts \in 0..MaxRestarts /\ errors \in 0..MaxErrors /\ badSaves \in 0..MaxErrors
  BY SMT, DriveHealAssumption DEF DriveInit
<1>2. DriveTypeOK
  BY <1>1, TrackerFacts DEF DriveInit, DriveTypeOK, Healings
<1>3. HealerKnows /\ Marking /\ Mended /\ HealedAll /\ HealedStays
  BY TrackerFacts DEF DriveInit, HealerKnows, AtWork, Marking, Mended, HealedAll, HealedStays
<1> QED BY <1>2, <1>3 DEF DriveIInv

\* The drive is found, formatted and marked.
LEMMA MarkingIInv ==
  ASSUME DriveIInv, FindDrive \/ FormatDrive \/ MarkDrive
  PROVE  DriveIInv'
<1>1. UNCHANGED <<missing, restarts, errors, visited, failed, skipped, unmarked, undeleted>>
  BY DEF FindDrive, FormatDrive, MarkDrive, NoHistory
<1>2. CASE FindDrive
  <2>1. ~formatted /\ UNCHANGED <<formatted, tracker, healing, badSaves>> /\ queued' = TRUE
    BY <1>2 DEF FindDrive
  <2> QED BY <1>1, <2>1 DEF DriveIInv, DriveTypeOK, HealerKnows, AtWork, Handled, Marking, Mended, HealedAll, HealedStays
<1>3. CASE FormatDrive
  <2>1. ~formatted /\ queued /\ formatted' = TRUE /\ UNCHANGED <<tracker, queued, badSaves>>
    BY <1>3 DEF FormatDrive
  <2>2. healing' \in Healings /\ healing'.pc = "mark"
    BY SMT, <1>3 DEF FormatDrive, DriveIInv, DriveTypeOK, Healings
  <2>3. tracker = NoTracker
    BY <2>1 DEF DriveIInv, Marking
  <2> QED BY <1>1, <2>1, <2>2, <2>3 DEF DriveIInv, DriveTypeOK, Healings, HealerKnows, AtWork, Marking, Mended, HealedAll, HealedStays
<1>4. CASE MarkDrive
  <2>1. healing.pc = "mark" /\ SaveTracker(NewTracker) /\ healing' = NotHealing /\ UNCHANGED <<formatted, queued>>
    BY <1>4 DEF MarkDrive
  <2>2. formatted /\ tracker = NoTracker
    BY <2>1 DEF DriveIInv, Marking
  <2>3. tracker' \in Tracker /\ badSaves' \in 0..MaxErrors /\ tracker'.healed = {}
    BY <2>1, <2>2, SaveFacts, TrackerFacts
  <2> QED BY <1>1, <2>1, <2>2, <2>3, TrackerFacts DEF DriveIInv, DriveTypeOK, Healings, HealerKnows, AtWork, Marking, Mended, HealedAll, HealedStays
<1> QED BY <1>2, <1>3, <1>4

\* The healer starts from the tracker on the drive.
LEMMA BeginHealIInv == ASSUME DriveIInv, BeginHeal PROVE DriveIInv'
<1>1. /\ formatted /\ healing.pc = "idle" /\ undeleted' = FALSE
      /\ UNCHANGED <<formatted, missing, queued, restarts, errors, visited, failed, skipped, unmarked>>
  BY DEF BeginHeal, NoHistory
<1>2. LoadTracker \in Tracker /\ LoadTracker.on
  BY TrackerFacts DEF LoadTracker, DriveIInv, DriveTypeOK
<1>3. \A b \in LoadTracker.healed : \A o \in 1..NObjects : Handled(b, o)
  BY TrackerFacts DEF LoadTracker, DriveIInv, HealedStays, Handled
<1>4. CASE /\ tracker' = LoadTracker /\ UNCHANGED badSaves
           /\ healing' = [pc |-> "bucket", at |-> 0, tracker |-> LoadTracker]
  <2>1. healing'.pc = "bucket" /\ healing'.tracker = LoadTracker /\ healing' \in Healings
    BY SMT, <1>2, <1>4, DriveHealAssumption DEF Healings
  <2> QED BY <1>1, <1>2, <1>3, <1>4, <2>1
          DEF DriveIInv, DriveTypeOK, Healings, HealerKnows, AtWork, Handled, Marking, Mended, HealedAll, HealedStays
<1>5. CASE SaveFails /\ UNCHANGED healing
  <2>1. tracker' \in {tracker, NewTracker}
    BY <1>5 DEF SaveFails
  <2>2. badSaves' \in 0..MaxErrors
    BY <1>2, <1>5, SaveFacts DEF SaveTracker
  <2> QED BY <1>1, <1>5, <2>1, <2>2, TrackerFacts
          DEF DriveIInv, DriveTypeOK, HealerKnows, AtWork, Handled, Marking, Mended, HealedAll, HealedStays
<1> QED BY <1>4, <1>5 DEF BeginHeal

\* The next bucket is listed; what a resumed listing leaves out is noted.
LEMMA BeginBucketIInv ==
  ASSUME DriveIInv, NEW b \in 1..NBuckets, BeginBucket(b)
  PROVE  DriveIInv'
<1>1. /\ healing.pc = "bucket"
      /\ skipped' = skipped \cup ({<<b, o>> : o \in 1..StartOf(b) - 1} \ visited)
      /\ UNCHANGED <<formatted, tracker, missing, queued, restarts, errors, badSaves, visited, failed, unmarked, undeleted>>
  BY DEF BeginBucket
<1>2. StartOf(b) \in 1..NObjects + 1 /\ StartOf(b) \in Nat
  BY SMT, DriveHealAssumption DEF StartOf
<1>3. healing.tracker \in Tracker /\ healing.tracker.on
  BY <1>1 DEF DriveIInv, DriveTypeOK, HealerKnows, AtWork
<1>4. /\ healing'.pc = "list" /\ healing'.at = StartOf(b)
      /\ healing'.tracker = [healing.tracker EXCEPT !.bucket = b, !.object = 0]
      /\ healing' = [pc |-> "list", at |-> StartOf(b), tracker |-> healing'.tracker]
  BY DEF BeginBucket
<1>5. /\ healing'.tracker \in Tracker /\ healing'.tracker.on = healing.tracker.on
      /\ healing'.tracker.healed = healing.tracker.healed /\ healing'.tracker.bucket = b
  <2>1. b \in 0..NBuckets /\ 0 \in 0..NObjects
    BY SMT, DriveHealAssumption
  <2> QED BY <1>3, <1>4, <2>1 DEF Tracker
<1>6. healing' \in Healings
  BY SMT, <1>2, <1>4, <1>5, DriveHealAssumption DEF Healings
<1>7. \A c, o : Handled(c, o) => Handled(c, o)'
  BY <1>1 DEF Handled
<1>8. ASSUME NEW o \in 1..NObjects, o < StartOf(b) PROVE Handled(b, o)'
  <2>1. o \in 1..StartOf(b) - 1
    BY SMT, <1>2, <1>8, DriveHealAssumption
  <2> QED BY <1>1, <2>1 DEF Handled
<1>9. skipped' \subseteq Everything
  <2>1. \A o \in 1..StartOf(b) - 1 : <<b, o>> \in Everything
    BY SMT, <1>2, DriveHealAssumption DEF Everything
  <2> QED BY <1>1, <2>1 DEF DriveIInv, DriveTypeOK
<1>10. DriveTypeOK'
  BY <1>1, <1>6, <1>9 DEF DriveIInv, DriveTypeOK, Healings
<1>11. HealerKnows'
  BY ZenonT(60), <1>1, <1>2, <1>3, <1>4, <1>5, <1>7, <1>8 DEF DriveIInv, HealerKnows, AtWork
<1>12. Marking'
  BY <1>1, <1>4 DEF DriveIInv, Marking
<1>13. Mended' /\ HealedAll' /\ HealedStays'
  BY <1>1, <1>4 DEF DriveIInv, Mended, HealedAll, HealedStays
<1> QED BY <1>10, <1>11, <1>12, <1>13 DEF DriveIInv

\* One object is healed, or fails.
LEMMA HealEntryIInv ==
  ASSUME DriveIInv, NEW ok \in BOOLEAN, NEW save \in BOOLEAN, HealEntry(ok, save)
  PROVE  DriveIInv'
<1> PICK x, t, at : /\ x = <<healing.tracker.bucket, healing.at>> /\ at = healing.at
                    /\ t = [healing.tracker EXCEPT !.object = healing.at]
  OBVIOUS
<1>1. /\ healing.pc = "list" /\ at <= NObjects
      /\ visited' = visited \cup {x}
      /\ SaveTracker(t) \/ UNCHANGED <<tracker, badSaves>>
      /\ UNCHANGED <<formatted, queued, restarts, skipped, unmarked, undeleted>>
  BY DEF HealEntry
<1>2. \/ missing' = missing \ {x} /\ UNCHANGED <<failed, errors>>
      \/ errors < MaxErrors /\ errors' = errors + 1 /\ failed' = failed \cup {x} /\ UNCHANGED missing
  BY DEF HealEntry
<1>3. healing' = [healing EXCEPT !.at = @ + 1, !.tracker = t]
  BY DEF HealEntry
<1>4. /\ healing.tracker \in Tracker /\ healing.tracker.on /\ at \in 1..NObjects + 1
      /\ healing.tracker.bucket \in 1..NBuckets
      /\ tracker.healed \subseteq healing.tracker.healed
  BY <1>1 DEF DriveIInv, DriveTypeOK, HealerKnows, AtWork
<1>5. /\ t \in Tracker /\ t.on = healing.tracker.on /\ t.healed = healing.tracker.healed
      /\ t.bucket = healing.tracker.bucket
  <2>1. at \in 0..NObjects
    BY SMT, <1>1, <1>4, DriveHealAssumption
  <2> QED BY <1>4, <2>1 DEF Tracker
<1>6. /\ healing'.pc = "list" /\ healing'.at = at + 1 /\ healing'.tracker = t /\ healing' \in Healings
  <2>1. at + 1 \in 0..NObjects + 1
    BY SMT, <1>1, <1>4, DriveHealAssumption
  <2> QED BY <1>1, <1>3, <1>5, <2>1 DEF DriveIInv, DriveTypeOK, Healings
<1>7. \A c, o : Handled(c, o) => Handled(c, o)'
  BY <1>1, <1>2 DEF Handled
<1>8. ASSUME NEW o \in 1..NObjects, o < at + 1 PROVE Handled(t.bucket, o)'
  <2>1. o < at \/ o = at
    BY SMT, <1>4, <1>8, DriveHealAssumption
  <2>2. o < at => Handled(t.bucket, o)
    BY <1>1, <1>5 DEF DriveIInv, HealerKnows
  <2>3. x = <<t.bucket, at>>
    BY <1>5
  <2>4. CASE o < at
    BY <1>7, <2>2, <2>4
  <2>5. CASE o = at
    <3>1. x \in visited'
      BY <1>1
    <3>2. <<t.bucket, o>> \in visited'
      BY <2>3, <2>5, <3>1
    <3> QED BY <3>2 DEF Handled
  <2> QED BY <2>1, <2>4, <2>5
<1>9. x \in Everything
  BY SMT, <1>1, <1>4, DriveHealAssumption DEF Everything
<1>10. errors' \in 0..MaxErrors
  BY SMT, <1>2, DriveHealAssumption DEF DriveIInv, DriveTypeOK
<1>19. tracker' \in {t, tracker, NewTracker} /\ tracker' \in Tracker /\ badSaves' \in 0..MaxErrors
  BY <1>1, <1>5, SaveFacts DEF DriveIInv, DriveTypeOK
<1>11. DriveTypeOK'
  BY <1>1, <1>2, <1>6, <1>9, <1>10, <1>19 DEF DriveIInv, DriveTypeOK, Healings
<1>12. at + 1 \in 1..NObjects + 1
  BY SMT, <1>1, <1>4, DriveHealAssumption
<1>13. HealerKnows'
  <2>1. tracker'.healed \subseteq t.healed
    BY <1>4, <1>5, <1>19, TrackerFacts
  <2>2. \A b \in t.healed : \A o \in 1..NObjects : Handled(b, o)'
    BY <1>1, <1>5, <1>7 DEF DriveIInv, HealerKnows, AtWork
  <2> QED BY <1>4, <1>5, <1>6, <1>8, <1>12, <2>1, <2>2 DEF HealerKnows
<1>14. formatted
  BY <1>1 DEF DriveIInv, Marking
<1>15. Marking'
  BY <1>1, <1>6, <1>14 DEF Marking
<1>16. Mended'
  BY <1>1, <1>2 DEF DriveIInv, Mended
<1>17. HealedAll'
  <2>1. tracker'.on
    BY <1>1, <1>4, <1>5, <1>19, TrackerFacts DEF DriveIInv, HealedAll
  <2> QED BY <1>1, <1>2, <1>14, <2>1 DEF DriveIInv, HealedAll
<1>18. HealedStays'
  <2>1. tracker'.healed \subseteq healing.tracker.healed
    BY <1>4, <1>5, <1>19, TrackerFacts
  <2> QED BY <1>1, <1>7, <2>1 DEF DriveIInv, HealerKnows, AtWork, HealedStays, Handled
<1> QED BY <1>11, <1>13, <1>15, <1>16, <1>17, <1>18 DEF DriveIInv

\* The bucket is at its end, or its listing failed.
LEMMA EndBucketIInv == ASSUME DriveIInv, EndBucket PROVE DriveIInv'
<1> PICK b, at, t : b = healing.tracker.bucket /\ at = healing.at /\ t = DoneBucket(healing.tracker)
  OBVIOUS
<1>1. /\ healing.pc = "list" /\ SaveTracker(t)
      /\ UNCHANGED <<formatted, missing, queued, restarts, visited, skipped, unmarked, undeleted>>
  BY DEF EndBucket
<1>2. \/ at > NObjects /\ UNCHANGED <<errors, failed>>
      \/ /\ errors < MaxErrors /\ errors' = errors + 1
         /\ failed' = failed \cup {<<b, o>> : o \in at..NObjects}
  BY DEF EndBucket
<1>3. healing' = [pc |-> "bucket", at |-> 0, tracker |-> t]
  BY <1>1 DEF EndBucket
<1>4. /\ healing.tracker \in Tracker /\ healing.tracker.on
      /\ b \in 1..NBuckets /\ at \in 1..NObjects + 1
  BY <1>1 DEF DriveIInv, DriveTypeOK, HealerKnows, AtWork
<1>5. t \in Tracker /\ t.on = healing.tracker.on /\ t.healed = healing.tracker.healed \cup {b}
  BY <1>4 DEF Tracker, DoneBucket
<1>6. healing'.pc = "bucket" /\ healing'.tracker = t /\ healing' \in Healings
  BY SMT, <1>3, <1>5, DriveHealAssumption DEF Healings
<1>7. \A c, o : Handled(c, o) => Handled(c, o)'
  BY <1>1, <1>2 DEF Handled
<1>8. ASSUME NEW o \in 1..NObjects PROVE Handled(b, o)'
  <2>1. o < at => Handled(b, o)
    BY <1>1 DEF DriveIInv, HealerKnows
  <2>2. o < at \/ (o \in at..NObjects /\ ~(at > NObjects))
    BY SMT, <1>4, DriveHealAssumption
  <2> QED BY <1>2, <1>7, <2>1, <2>2 DEF Handled
<1>9. errors' \in 0..MaxErrors
  BY SMT, <1>2, DriveHealAssumption DEF DriveIInv, DriveTypeOK
<1>10. failed' \subseteq Everything
  <2>1. \A o \in at..NObjects : <<b, o>> \in Everything
    BY SMT, <1>4, DriveHealAssumption DEF Everything
  <2>2. {<<b, o>> : o \in at..NObjects} \subseteq Everything
    BY <2>1
  <2> QED BY <1>2, <2>2 DEF DriveIInv, DriveTypeOK
<1>16. /\ tracker' \in {t, tracker, NewTracker} /\ tracker' \in Tracker /\ badSaves' \in 0..MaxErrors
       /\ tracker'.healed \subseteq t.healed /\ tracker'.on
  <2>1. tracker.on /\ tracker.healed \subseteq healing.tracker.healed
    BY <1>1 DEF DriveIInv, HealedAll, HealerKnows, AtWork
  <2> QED BY <1>1, <1>4, <1>5, <2>1, SaveFacts, TrackerFacts
<1>11. DriveTypeOK'
  BY <1>1, <1>6, <1>9, <1>10, <1>16 DEF DriveIInv, DriveTypeOK, Healings
<1>12. \A c \in t.healed : \A o \in 1..NObjects : Handled(c, o)'
  BY <1>1, <1>5, <1>7, <1>8 DEF DriveIInv, HealerKnows, AtWork
<1>13. HealerKnows' /\ HealedStays'
  BY <1>4, <1>5, <1>6, <1>12, <1>16 DEF HealerKnows, HealedStays, Handled
<1>14. formatted
  BY <1>1 DEF DriveIInv, Marking
<1>15. Marking' /\ Mended' /\ HealedAll'
  BY <1>1, <1>2, <1>6, <1>14, <1>16 DEF DriveIInv, Marking, Mended, HealedAll
<1> QED BY <1>11, <1>13, <1>15 DEF DriveIInv

\* The healer gives up, is done, or stops with the server.
LEMMA LeaveIInv ==
  ASSUME DriveIInv, AbandonHeal \/ EndHeal \/ Restart
  PROVE  DriveIInv'
<1>1. /\ healing' = NotHealing /\ tracker' \in {tracker, NoTracker}
      /\ UNCHANGED <<formatted, missing, visited, failed, skipped>>
  BY DEF AbandonHeal, EndHeal, Restart, NoHistory
<1>2. errors' \in 0..MaxErrors /\ restarts' \in 0..MaxRestarts
  BY SMT, DriveHealAssumption DEF AbandonHeal, EndHeal, Restart, DriveIInv, DriveTypeOK
<1>9. badSaves' \in 0..MaxErrors
  BY SMT, DriveHealAssumption DEF AbandonHeal, EndHeal, Restart, DriveIInv, DriveTypeOK
<1>3. queued' \in BOOLEAN /\ unmarked' \in BOOLEAN /\ undeleted' \in BOOLEAN
  BY DEF AbandonHeal, EndHeal, Restart, NoHistory, FoundOnStart, DriveIInv, DriveTypeOK
<1>4. DriveTypeOK'
  BY <1>1, <1>2, <1>3, <1>9, TrackerFacts DEF DriveIInv, DriveTypeOK, Healings
<1>5. HealerKnows' /\ Marking' /\ Mended' /\ HealedStays'
  BY <1>1, TrackerFacts DEF DriveIInv, HealerKnows, AtWork, Marking, Mended, HealedStays
<1>10. ~(healing'.pc \in {"bucket", "list"})
  BY <1>1, TrackerFacts
<1>6. CASE AbandonHeal
  <2>1. UNCHANGED <<queued, unmarked>>
    BY <1>6 DEF AbandonHeal, NoHistory
  <2> QED BY <1>1, <1>4, <1>5, <1>10, <2>1 DEF DriveIInv, HealedAll
<1>7. CASE EndHeal
  <2>1. healing.pc = "bucket" /\ Pending = {}
    BY <1>7 DEF EndHeal
  <2>2. \A b \in 1..NBuckets : \A o \in 1..NObjects : Handled(b, o)
    BY <2>1 DEF Pending, DriveIInv, HealerKnows, AtWork
  <2>3. ASSUME NEW x \in missing PROVE x \in failed \cup skipped
    <3>1. PICK b \in 1..NBuckets, o \in 1..NObjects : x = <<b, o>>
      <4>1. x \in (1..NBuckets) \X (1..NObjects)
        BY <2>3 DEF DriveIInv, DriveTypeOK, Everything
      <4> QED BY SMT, <4>1
    <3> QED BY <2>2, <3>1 DEF Handled, DriveIInv, Mended
  <2> QED BY <1>1, <1>4, <1>5, <1>10, <2>3 DEF DriveIInv, HealedAll
<1>8. CASE Restart
  <2>1. /\ queued' = (~formatted \/ tracker.on)
        /\ unmarked' = (unmarked \/ (formatted /\ queued /\ ~tracker.on))
    BY <1>8 DEF Restart, FoundOnStart
  <2> QED BY <1>1, <1>4, <1>5, <1>10, <2>1 DEF DriveIInv, HealedAll
<1> QED BY <1>6, <1>7, <1>8

\* Every step of healErasureSet, and every restart, preserves the invariant.
LEMMA DriveNextIInv == DriveIInv /\ [DriveNext]_driveVars => DriveIInv'
<1>1. ASSUME DriveIInv, UNCHANGED driveVars PROVE DriveIInv'
  BY <1>1 DEF driveVars, DriveIInv, DriveTypeOK, HealerKnows, AtWork, Handled, Marking, Mended, HealedAll, HealedStays
<1> QED BY <1>1, MarkingIInv, BeginHealIInv, BeginBucketIInv, HealEntryIInv, EndBucketIInv, LeaveIInv
        DEF DriveNext, DriveSteps

\* No step takes a bucket off the list on the drive, but a save that fails.
LEMMA KeepsProgress ==
  ASSUME DriveIInv, [DriveNext]_driveVars, tracker.on, tracker'.on
  PROVE  tracker.healed \subseteq tracker'.healed \/ badSaves' > badSaves
<1> DEFINE Kept == tracker.healed \subseteq tracker'.healed \/ badSaves' > badSaves
<1>1. CASE \/ UNCHANGED driveVars \/ FindDrive \/ FormatDrive \/ AbandonHeal \/ Restart
           \/ \E b \in 1..NBuckets : BeginBucket(b)
  BY <1>1 DEF driveVars, FindDrive, FormatDrive, AbandonHeal, Restart, BeginBucket
<1>2. CASE MarkDrive
  BY <1>2, TrackerFacts DEF MarkDrive, DriveIInv, Marking
<1>3. CASE BeginHeal
  <2>1. LoadTracker \in Tracker /\ LoadTracker = tracker
    BY DEF LoadTracker, DriveIInv, DriveTypeOK
  <2>2. SaveTracker(LoadTracker)
    BY <1>3 DEF BeginHeal, SaveTracker
  <2> QED BY <2>1, <2>2, SaveFacts
<1>4. ASSUME NEW ok \in BOOLEAN, NEW save \in BOOLEAN, HealEntry(ok, save)
      PROVE  Kept
  <2> PICK t : t = [healing.tracker EXCEPT !.object = healing.at]
    OBVIOUS
  <2>1. healing.pc = "list" /\ healing.at <= NObjects /\ (SaveTracker(t) \/ UNCHANGED tracker)
    BY <1>4 DEF HealEntry
  <2>2. healing.tracker \in Tracker /\ healing.at \in 0..NObjects
    <3>1. healing.at \in 1..NObjects + 1 /\ healing.tracker \in Tracker
      BY <2>1 DEF DriveIInv, DriveTypeOK, HealerKnows
    <3> QED BY SMT, <2>1, <3>1, DriveHealAssumption
  <2>3. t \in Tracker /\ t.healed = healing.tracker.healed
    BY <2>2 DEF Tracker
  <2> QED BY <2>1, <2>3, SaveFacts DEF DriveIInv, HealerKnows, AtWork
<1>5. CASE EndBucket
  <2>1. healing.pc = "list" /\ SaveTracker(DoneBucket(healing.tracker))
    BY <1>5 DEF EndBucket
  <2>2. healing.tracker \in Tracker /\ healing.tracker.bucket \in 1..NBuckets
    BY <2>1 DEF DriveIInv, DriveTypeOK, HealerKnows
  <2>3. /\ DoneBucket(healing.tracker) \in Tracker
        /\ healing.tracker.healed \subseteq DoneBucket(healing.tracker).healed
    BY <2>2 DEF Tracker, DoneBucket
  <2> QED BY <2>1, <2>3, SaveFacts DEF DriveIInv, HealerKnows, AtWork
<1>6. CASE EndHeal
  BY <1>6, TrackerFacts DEF EndHeal
<1> QED BY <1>1, <1>2, <1>3, <1>4, <1>5, <1>6 DEF DriveNext, DriveSteps

\* The inductive invariant of the healing of a drive.
THEOREM DriveInvariantHolds == DriveSpec => []DriveIInv
BY DriveInitIInv, DriveNextIInv, PTL DEF DriveSpec

\* A drive that is off the queue is healed, what the tracker calls healed is, and
\* no step but a save that fails loses a bucket of it, for any number of buckets,
\* objects, restarts, errors and failed saves and deletions of the tracker.
THEOREM TrackerSoundHolds == DriveSpec => TrackerSound
<1>1. DriveIInv => HealedAll /\ HealedStays
  BY DEF DriveIInv
<1>2. DriveIInv /\ [DriveNext]_driveVars
        => [tracker.on /\ tracker'.on => tracker.healed \subseteq tracker'.healed \/ badSaves' > badSaves]_driveVars
  BY KeepsProgress
<1> QED BY <1>1, <1>2, DriveInvariantHolds, PTL DEF DriveSpec, TrackerSound, ProgressKept

-----------------------------------------------------------------------------
(* Heal sequences.  The map and the stages of the traversals agree, and the    *)
(* results a client has not read continue those it has.                        *)

\* The map points to sequences that were registered, and a request that waits
\* knows its path and the sequence it stops.
MapSound ==
  /\ \A p \in Paths : seqMap[p] # NoSeq => Registered(seqMap[p])
  /\ \A a \in Admins : admin[a].pc # "idle" => admin[a].path \in Paths
  /\ \A a \in Admins : admin[a].pc = "ending" => admin[a].seq \in SeqIds

\* The results fetched and those that wait are numbered without a gap.
Numbered(s) ==
  /\ Len(fetched[s]) = seq[s].sent /\ \A i \in DOMAIN fetched[s] : fetched[s][i] = i
  /\ \A i \in DOMAIN seq[s].items : seq[s].items[i] = seq[s].sent + i

\* A sequence that is not registered has healed nothing, and one that heals an
\* item has not finished.
Walking(s) ==
  /\ ~Registered(s) => seq[s].ended /\ fetched[s] = <<>>
  /\ walk[s] \in {"send", "wait", "push"} => seq[s].left > 0

HealIInv ==
  /\ HealTypeOK /\ MapSound /\ NoOverlap
  /\ \A s \in SeqIds : Numbered(s) /\ Walking(s)
  /\ walk[Background] \in {"next", "send", "wait"}

WalkPcs == {"none", "next", "send", "wait", "push", "hung", "done", "closed"}
AtItem == {"send", "wait", "push"}
Request == [pc : {"idle", "ending", "register"}, path : Paths \cup {<<>>}, seq : SeqIds \cup {NoSeq}, launch : BOOLEAN]
Healer == [pc : {"idle", "heal", "reply"}, for : SeqIds \cup {Background}]

\* The parts of the invariant, by name.
LEMMA HealFacts ==
  /\ MaxSeqs \in Nat /\ MaxItems \in Nat /\ MaxPending \in Nat /\ MaxPending > 0 /\ MaxStops \in Nat
  /\ Background \notin SeqIds /\ NoSeq \notin SeqIds
<1>1. MaxSeqs \in Nat /\ MaxItems \in Nat /\ MaxPending \in Nat \ {0} /\ MaxStops \in Nat
  BY HealAssumption
<1> QED BY SMT, <1>1 DEF SeqIds, Background, NoSeq

\* The types of the sequences, the requests and the heal routine.
LEMMA HealTypes ==
  HealTypeOK <=> /\ seqMap \in [Paths -> SeqIds \cup {NoSeq}] /\ seq \in [SeqIds -> Sequence]
                 /\ \A s \in SeqIds : Len(seq[s].items) <= MaxPending
                 /\ walk \in [SeqIds \cup {Background} -> WalkPcs]
                 /\ admin \in [Admins -> Request] /\ healer \in Healer
                 /\ stops \in 0..MaxStops /\ fetched \in [SeqIds -> Seq(Nat)]
BY DEF HealTypeOK, WalkPcs, Request, Healer

\* A sequence starts with no result items.
LEMMA EmptySeqs == <<>> \in Seq(Nat) /\ Len(<<>>) = 0 /\ DOMAIN <<>> = {} /\ 0 \in Nat
BY SMT

\* No sequence is registered at start-up.
LEMMA HealInitIInv == HealInit => HealIInv
<1> SUFFICES ASSUME HealInit PROVE HealIInv
  OBVIOUS
<1>1. NoSequence \in Sequence /\ NoSequence.ended /\ NoSequence.items = <<>> /\ NoSequence.sent = 0
  <2>1. 0 \in 0..MaxItems
    BY SMT, HealFacts
  <2> QED BY <2>1, EmptySeqs DEF NoSequence, Sequence
<1>2. /\ seqMap = [p \in Paths |-> NoSeq] /\ seq = [s \in SeqIds |-> NoSequence]
      /\ walk = [s \in SeqIds \cup {Background} |-> IF s = Background THEN "next" ELSE "none"]
      /\ admin = [a \in Admins |-> IdleAdmin] /\ healer = [pc |-> "idle", for |-> Background]
      /\ stops = 0 /\ fetched = [s \in SeqIds |-> <<>>]
  BY DEF HealInit
<1>3. /\ \A s \in SeqIds : seq[s] = NoSequence /\ walk[s] = "none" /\ fetched[s] = <<>>
      /\ \A p \in Paths : seqMap[p] = NoSeq
      /\ \A a \in Admins : admin[a].pc = "idle"
  BY <1>2, HealFacts DEF IdleAdmin
<1>4. 0 \in 0..MaxStops /\ 0 <= MaxPending
  BY SMT, HealFacts
<1>5. HealTypeOK
  <2>1. IdleAdmin \in Request
    BY DEF IdleAdmin, Request
  <2>2. healer \in Healer
    BY <1>2 DEF Healer
  <2>3. walk \in [SeqIds \cup {Background} -> WalkPcs]
    BY <1>2 DEF WalkPcs
  <2> QED BY <1>1, <1>2, <1>3, <1>4, <2>1, <2>2, <2>3, EmptySeqs, HealTypes
<1>6. MapSound /\ NoOverlap
  BY <1>3 DEF MapSound, NoOverlap, Running
<1>7. \A s \in SeqIds : Numbered(s) /\ Walking(s)
  BY <1>1, <1>3, EmptySeqs DEF Numbered, Walking
<1>8. walk[Background] = "next"
  BY <1>2
<1> QED BY <1>5, <1>6, <1>7, <1>8 DEF HealIInv

\* A step of one sequence: nothing of the others changes, and no sequence that
\* ended runs again.
LEMMA OneSequence ==
  ASSUME HealIInv, NEW s \in SeqIds,
         seqMap' = seqMap, admin' = admin, stops' = stops, healer' \in Healer,
         seq' \in [SeqIds -> Sequence], fetched' \in [SeqIds -> Seq(Nat)],
         walk' \in [SeqIds \cup {Background} -> WalkPcs],
         \A t \in SeqIds : t # s => walk'[t] = walk[t] /\ seq'[t] = seq[t] /\ fetched'[t] = fetched[t],
         walk'[Background] = walk[Background], walk'[s] # "none", seq[s].ended => seq'[s].ended,
         Numbered(s)', walk'[s] \in AtItem => seq'[s].left > 0,
         Len(seq'[s].items) <= MaxPending
  PROVE  HealIInv'
<1>1. HealTypeOK'
  <2>1. \A t \in SeqIds : Len(seq'[t].items) <= MaxPending
    BY HealTypes DEF HealIInv
  <2> QED BY <2>1 DEF HealIInv, HealTypeOK, WalkPcs, Request, Healer
<1>2. MapSound'
  <2>1. MapSound /\ \A p \in Paths : seqMap[p] \in SeqIds \cup {NoSeq}
    BY HealTypes DEF HealIInv
  <2>2. ASSUME NEW p \in Paths, seqMap[p] # NoSeq PROVE walk'[seqMap[p]] # "none"
    <3>1. CASE seqMap[p] = s
      BY <3>1
    <3>2. CASE seqMap[p] # s
      BY <2>1, <2>2, <3>2 DEF MapSound, Registered
    <3> QED BY <3>1, <3>2
  <2> QED BY <2>1, <2>2 DEF MapSound, Registered
<1>3. NoOverlap'
  <2>1. \A t : Running(t)' /\ t \in SeqIds => Running(t)
    BY DEF Running
  <2>2. \A p \in Paths : seqMap[p] \in SeqIds \cup {NoSeq}
    BY HealTypes DEF HealIInv
  <2>3. \A p \in Paths : Running(seqMap[p])' => Running(seqMap[p])
    BY <2>1, <2>2 DEF Running
  <2> QED BY <2>3 DEF HealIInv, NoOverlap
<1>4. ASSUME NEW t \in SeqIds PROVE Numbered(t)' /\ Walking(t)'
  <2>1. CASE t = s
    BY <2>1 DEF Walking, Registered, AtItem
  <2>2. CASE t # s
    <3>1. Numbered(t) /\ Walking(t)
      BY DEF HealIInv
    <3>2. Numbered(t)'
      BY <2>2, <3>1 DEF Numbered
    <3>3. Walking(t)'
      BY <2>2, <3>1 DEF Walking, Registered
    <3> QED BY <3>2, <3>3
  <2> QED BY <2>1, <2>2
<1> QED BY <1>1, <1>2, <1>3, <1>4 DEF HealIInv

\* A step of the background sequence or the heal routine.
LEMMA RoutineStep ==
  ASSUME HealIInv, seqMap' = seqMap, admin' = admin, stops' = stops, healer' \in Healer,
         seq' = seq, fetched' = fetched, walk' \in [SeqIds \cup {Background} -> WalkPcs],
         \A t \in SeqIds : walk'[t] = walk[t], walk'[Background] \in {"next", "send", "wait"}
  PROVE  HealIInv'
<1>1. HealTypeOK'
  BY DEF HealIInv, HealTypeOK, WalkPcs, Healer
<1>2. MapSound' /\ NoOverlap'
  <2>1. \A p \in Paths : seqMap[p] \in SeqIds \cup {NoSeq}
    BY HealTypes DEF HealIInv
  <2> QED BY <2>1 DEF HealIInv, MapSound, Registered, NoOverlap, Running
<1>3. \A t \in SeqIds : Numbered(t)' /\ Walking(t)'
  BY DEF HealIInv, Numbered, Walking, Registered
<1> QED BY <1>1, <1>2, <1>3 DEF HealIInv

\* A sequence is done with an item.
LEMMA ItemDone ==
  ASSUME HealIInv, NEW s \in SeqIds, walk[s] \in AtItem,
         seqMap' = seqMap, admin' = admin, stops' = stops, healer' \in Healer, fetched' = fetched,
         walk' = [walk EXCEPT ![s] = "next"], seq' = [seq EXCEPT ![s].left = @ - 1]
  PROVE  HealIInv'
<1>1. /\ seq \in [SeqIds -> Sequence] /\ walk \in [SeqIds \cup {Background} -> WalkPcs]
      /\ Len(seq[s].items) <= MaxPending /\ fetched \in [SeqIds -> Seq(Nat)]
  BY HealTypes DEF HealIInv
<1>2. seq[s].left - 1 \in 0..MaxItems
  <2>1. seq[s].left \in 0..MaxItems /\ seq[s].left > 0
    BY <1>1 DEF HealIInv, Walking, Sequence, AtItem
  <2> QED BY SMT, <2>1, HealFacts
<1>3. /\ seq' \in [SeqIds -> Sequence] /\ seq'[s].ended = seq[s].ended
      /\ seq'[s].items = seq[s].items /\ seq'[s].sent = seq[s].sent
      /\ \A t \in SeqIds : t # s => seq'[t] = seq[t]
  BY ZenonT(60), <1>1, <1>2 DEF Sequence
<1>4. /\ walk' \in [SeqIds \cup {Background} -> WalkPcs] /\ walk'[s] = "next"
      /\ \A t \in SeqIds \cup {Background} : t # s => walk'[t] = walk[t]
  BY <1>1 DEF WalkPcs
<1>5. Numbered(s)'
  <2>1. Numbered(s)
    BY DEF HealIInv
  <2> QED BY <1>3, <2>1 DEF Numbered
<1> QED BY <1>1, <1>3, <1>4, <1>5, OneSequence, HealFacts DEF AtItem

\* A walk goes to another point, and nothing else of the sequence changes.
LEMMA WalkMoves ==
  ASSUME HealIInv, NEW s \in SeqIds \cup {Background}, NEW pc \in WalkPcs \ {"none"}, walk' = [walk EXCEPT ![s] = pc],
         pc \in AtItem /\ s # Background => seq[s].left > 0,
         s = Background => pc \in {"next", "send", "wait"},
         seqMap' = seqMap, admin' = admin, stops' = stops, healer' \in Healer, fetched' = fetched, seq' = seq
  PROVE  HealIInv'
<1>1. walk \in [SeqIds \cup {Background} -> WalkPcs] /\ seq \in [SeqIds -> Sequence] /\ fetched \in [SeqIds -> Seq(Nat)]
  BY HealTypes DEF HealIInv
<1>2. /\ walk' \in [SeqIds \cup {Background} -> WalkPcs] /\ walk'[s] = pc
      /\ \A t \in SeqIds \cup {Background} : t # s => walk'[t] = walk[t]
  BY <1>1
<1>3. CASE s = Background
  BY <1>2, <1>3, RoutineStep, HealFacts
<1>4. CASE s \in SeqIds
  <2>1. Len(seq[s].items) <= MaxPending /\ Numbered(s)
    BY <1>4, HealTypes DEF HealIInv
  <2>2. Numbered(s)'
    BY <2>1 DEF Numbered
  <2> QED BY <1>1, <1>2, <1>4, <2>1, <2>2, OneSequence, HealFacts
<1> QED BY <1>3, <1>4

\* The heal routine works for a sequence that exists, or for nobody.
LEMMA HealerTypes ==
  ASSUME NEW s \in SeqIds \cup {Background}, NEW pc \in {"idle", "heal", "reply"}
  PROVE  [pc |-> pc, for |-> s] \in Healer /\ (healer \in Healer => [healer EXCEPT !.pc = pc] \in Healer)
BY DEF Healer

\* The walks.
LEMMA WalkIInv ==
  ASSUME HealIInv, NEW s \in SeqIds \cup {Background},
         WalkNext(s) \/ QueueHealTask(s) \/ HealResult(s) \/ GiveUpResult(s)
  PROVE  HealIInv'
<1>1. healer \in Healer
  BY HealTypes DEF HealIInv
<1>2. s # Background => s \in SeqIds /\ Walking(s)
  BY DEF HealIInv
<1>3. CASE WalkNext(s)
  <2>1. PICK pc : pc = IF s # Background /\ (seq[s].cancelled \/ seq[s].left = 0) THEN "done" ELSE "send"
    OBVIOUS
  <2>2. pc \in WalkPcs \ {"none"}
    BY <2>1 DEF WalkPcs
  <2>3. pc \in AtItem /\ s # Background => seq[s].left > 0
    <3>1. ASSUME s # Background, seq[s].left # 0 PROVE seq[s].left > 0
      <4>1. seq \in [SeqIds -> Sequence]
        BY HealTypes DEF HealIInv
      <4>2. seq[s].left \in 0..MaxItems
        BY <1>2, <3>1, <4>1 DEF Sequence
      <4> QED BY SMT, <3>1, <4>2, HealFacts
    <3> QED BY <2>1, <3>1 DEF AtItem
  <2> QED BY <1>1, <1>3, <2>1, <2>2, <2>3, WalkMoves DEF WalkNext, WalkTo
<1>4. CASE QueueHealTask(s)
  <2>1. healer' \in Healer /\ "wait" \in WalkPcs \ {"none"}
    BY <1>4, HealerTypes DEF QueueHealTask, WalkPcs
  <2>2. s # Background => seq[s].left > 0
    BY <1>2, <1>4 DEF QueueHealTask, Walking
  <2> QED BY <1>4, <2>1, <2>2, WalkMoves DEF QueueHealTask, WalkTo
<1>5. CASE HealResult(s)
  <2>1. healer' \in Healer /\ walk[s] = "wait" /\ seqMap' = seqMap /\ admin' = admin /\ fetched' = fetched /\ stops' = stops
    BY <1>1, <1>5, HealerTypes DEF HealResult
  <2>2. s # Background => seq[s].left > 0
    BY <1>2, <2>1 DEF Walking
  <2>3. "push" \in WalkPcs \ {"none"} /\ "next" \in WalkPcs \ {"none"} /\ "next" \notin AtItem /\ "wait" \in AtItem
    BY DEF WalkPcs, AtItem
  <2>4. CASE s = Background
    <3>1. walk' = [walk EXCEPT ![s] = "next"] /\ seq' = seq
      BY <1>5, <2>4 DEF HealResult, WalkTo
    <3> QED BY <2>1, <2>3, <3>1, WalkMoves
  <2>5. CASE s # Background /\ walk' = [walk EXCEPT ![s] = "push"] /\ seq' = seq
    BY <2>1, <2>2, <2>3, <2>5, WalkMoves
  <2>6. CASE s # Background /\ walk' = [walk EXCEPT ![s] = "next"] /\ seq' = [seq EXCEPT ![s].left = @ - 1]
    BY <1>2, <2>1, <2>3, <2>6, ItemDone
  <2> QED BY <1>5, <2>4, <2>5, <2>6 DEF HealResult, WalkTo
<1>6. CASE GiveUpResult(s)
  BY <1>1, <1>2, <1>6, ItemDone DEF GiveUpResult, WalkTo, AtItem
<1> QED BY <1>3, <1>4, <1>5, <1>6

\* Numbered results: one more, and those that wait after those that were taken.
LEMMA NumberedAppend ==
  ASSUME NEW q \in Seq(Nat), NEW k \in Nat, NEW n \in Nat, \A i \in DOMAIN q : q[i] = k + i, n = k + Len(q) + 1
  PROVE  \A i \in DOMAIN Append(q, n) : Append(q, n)[i] = k + i
<1>1. Len(q) \in Nat /\ n \in Nat
  BY SMT
<1>2. Append(q, n) \in Seq(Nat) /\ Len(Append(q, n)) = Len(q) + 1
  BY SMT, <1>1
<1>3. ASSUME NEW i \in DOMAIN Append(q, n) PROVE Append(q, n)[i] = k + i
  <2>1. i \in 1..(Len(q) + 1)
    BY SMT, <1>1, <1>3
  <2>2. CASE i = Len(q) + 1
    BY SMT, <1>1, <2>2
  <2>3. CASE i \in DOMAIN q
    BY SMT, <1>1, <2>3
  <2> QED BY SMT, <1>1, <2>1, <2>2, <2>3
<1> QED BY <1>3

\* Results that are appended with consecutive indices stay consecutive.
LEMMA NumberedConcat ==
  ASSUME NEW f \in Seq(Nat), NEW q \in Seq(Nat), \A i \in DOMAIN f : f[i] = i,
         \A i \in DOMAIN q : q[i] = Len(f) + i
  PROVE  \A i \in DOMAIN (f \o q) : (f \o q)[i] = i
<1>1. Len(f) \in Nat /\ Len(q) \in Nat /\ f \o q \in Seq(Nat) /\ Len(f \o q) = Len(f) + Len(q)
  BY SMT
<1>2. ASSUME NEW i \in DOMAIN (f \o q) PROVE (f \o q)[i] = i
  <2>1. i \in 1..(Len(f) + Len(q))
    BY SMT, <1>1
  <2>2. CASE i <= Len(f)
    <3>1. i \in DOMAIN f /\ (f \o q)[i] = f[i]
      BY SMT, <1>1, <2>1, <2>2
    <3> QED BY <3>1
  <2>3. CASE ~(i <= Len(f))
    <3>1. i - Len(f) \in DOMAIN q /\ (f \o q)[i] = q[i - Len(f)]
      BY SMT, <1>1, <2>1, <2>3
    <3>2. q[i - Len(f)] = Len(f) + (i - Len(f))
      BY <3>1
    <3> QED BY SMT, <1>1, <2>1, <3>1, <3>2
  <2> QED BY <2>2, <2>3
<1> QED BY <1>2

\* A result is added for the client.
LEMMA PushResultIInv ==
  ASSUME HealIInv, NEW s \in SeqIds, PushResult(s)
  PROVE  HealIInv'
<1> PICK it : it = seq[s].items
  OBVIOUS
<1> PICK n : n = NextIndex(s)
  OBVIOUS
<1>1. /\ walk[s] = "push" /\ Len(it) # MaxPending /\ seqMap' = seqMap /\ admin' = admin /\ healer' = healer
      /\ fetched' = fetched /\ stops' = stops /\ walk' = [walk EXCEPT ![s] = "next"]
      /\ seq' = [seq EXCEPT ![s].items = Append(@, n), ![s].left = @ - 1]
  BY DEF PushResult, Room, WalkTo
<1>2. /\ seq \in [SeqIds -> Sequence] /\ walk \in [SeqIds \cup {Background} -> WalkPcs]
      /\ Len(it) <= MaxPending /\ fetched \in [SeqIds -> Seq(Nat)] /\ healer \in Healer
  BY HealTypes DEF HealIInv
<1>3. seq[s].left - 1 \in 0..MaxItems
  <2>1. seq[s].left \in 0..MaxItems /\ seq[s].left > 0
    BY <1>1, <1>2 DEF HealIInv, Walking, Sequence
  <2> QED BY SMT, <2>1, HealFacts
<1>4. it \in Seq(Nat) /\ seq[s].sent \in Nat
  BY <1>2 DEF Sequence
<1>5. \A i \in DOMAIN it : it[i] = seq[s].sent + i
  BY DEF HealIInv, Numbered
<1>6. n = seq[s].sent + Len(it) + 1
  <2>1. n = (IF it = <<>> THEN seq[s].sent ELSE it[Len(it)]) + 1
    BY DEF NextIndex, LastIndex
  <2> QED BY SMT, <1>4, <1>5, <2>1
<1>7. /\ Append(it, n) \in Seq(Nat) /\ Len(Append(it, n)) <= MaxPending
      /\ \A i \in DOMAIN Append(it, n) : Append(it, n)[i] = seq[s].sent + i
  <2>1. /\ Append(it, n) \in Seq(Nat) /\ Len(Append(it, n)) = Len(it) + 1
        /\ \A i \in DOMAIN Append(it, n) : Append(it, n)[i] = seq[s].sent + i
    <3>1. n \in Nat
      BY SMT, <1>4, <1>6
    <3>2. Append(it, n) \in Seq(Nat) /\ Len(Append(it, n)) = Len(it) + 1
      BY SMT, <1>4, <3>1
    <3>3. \A i \in DOMAIN Append(it, n) : Append(it, n)[i] = seq[s].sent + i
      <4> PICK k : k = seq[s].sent
        OBVIOUS
      <4>1. k \in Nat /\ (\A i \in DOMAIN it : it[i] = k + i) /\ n = k + Len(it) + 1
        BY <1>4, <1>5, <1>6
      <4>2. \A i \in DOMAIN Append(it, n) : Append(it, n)[i] = k + i
        BY <1>4, <3>1, <4>1, NumberedAppend
      <4> QED BY <4>2
    <3> QED BY <3>2, <3>3
  <2>2. Len(it) + 1 <= MaxPending
    BY SMT, <1>1, <1>2, <1>4, HealFacts
  <2> QED BY <2>1, <2>2
<1>8. /\ seq' \in [SeqIds -> Sequence] /\ seq'[s].ended = seq[s].ended
      /\ seq'[s].items = Append(it, n) /\ seq'[s].sent = seq[s].sent
      /\ \A t \in SeqIds : t # s => seq'[t] = seq[t]
  <2> PICK q : q = [[seq[s] EXCEPT !.items = Append(it, n)] EXCEPT !.left = seq[s].left - 1]
    OBVIOUS
  <2>1. seq[s] \in Sequence
    BY <1>2
  <2>2. q \in Sequence /\ q.ended = seq[s].ended /\ q.items = Append(it, n) /\ q.sent = seq[s].sent
    BY <1>3, <1>7, <2>1 DEF Sequence
  <2>3. seq' = [seq EXCEPT ![s] = q]
    BY <1>1, <1>2, <2>1 DEF Sequence
  <2> QED BY <1>2, <2>2, <2>3
<1>9. /\ walk' \in [SeqIds \cup {Background} -> WalkPcs] /\ walk'[s] = "next"
      /\ \A t \in SeqIds \cup {Background} : t # s => walk'[t] = walk[t]
  BY <1>1, <1>2 DEF WalkPcs
<1>10. Numbered(s)'
  <2>1. Numbered(s)
    BY DEF HealIInv
  <2> QED BY SMTT(60), <1>1, <1>7, <1>8, <2>1 DEF Numbered
<1>11. walk'[s] \notin AtItem
  BY <1>9 DEF AtItem
<1> QED BY <1>1, <1>2, <1>7, <1>8, <1>9, <1>10, <1>11, OneSequence, HealFacts

\* The client takes the results that wait.
LEMMA PopIInv ==
  ASSUME HealIInv, NEW s \in SeqIds, PopHealStatus(s)
  PROVE  HealIInv'
<1> PICK it : it = seq[s].items
  OBVIOUS
<1> PICK n : n = it[Len(it)]
  OBVIOUS
<1>1. /\ Registered(s) /\ it # <<>> /\ fetched' = [fetched EXCEPT ![s] = @ \o it]
      /\ seq' = [seq EXCEPT ![s].sent = n, ![s].items = <<>>]
      /\ seqMap' = seqMap /\ walk' = walk /\ admin' = admin /\ healer' = healer /\ stops' = stops
  BY DEF PopHealStatus, LastIndex
<1>2. /\ seq \in [SeqIds -> Sequence] /\ walk \in [SeqIds \cup {Background} -> WalkPcs]
      /\ fetched \in [SeqIds -> Seq(Nat)] /\ healer \in Healer
  BY HealTypes DEF HealIInv
<1>3. it \in Seq(Nat) /\ seq[s].sent \in Nat /\ fetched[s] \in Seq(Nat)
  BY <1>2 DEF Sequence
<1>4. /\ \A i \in DOMAIN it : it[i] = seq[s].sent + i
      /\ Len(fetched[s]) = seq[s].sent /\ \A i \in DOMAIN fetched[s] : fetched[s][i] = i
  BY DEF HealIInv, Numbered
<1>5. /\ n \in Nat /\ fetched[s] \o it \in Seq(Nat) /\ Len(fetched[s] \o it) = n
  <2>1. Len(it) \in Nat /\ Len(it) \in DOMAIN it
    BY SMT, <1>1, <1>3
  <2>2. n = seq[s].sent + Len(it)
    BY <1>4, <2>1
  <2>3. n \in Nat
    BY SMT, <1>3, <2>1, <2>2
  <2>4. Len(fetched[s] \o it) = Len(fetched[s]) + Len(it)
    BY SMT, <1>3
  <2>5. fetched[s] \o it \in Seq(Nat)
    BY SMT, <1>3
  <2> QED BY <1>4, <2>2, <2>3, <2>4, <2>5
<1>6. \A i \in DOMAIN (fetched[s] \o it) : (fetched[s] \o it)[i] = i
  BY <1>3, <1>4, NumberedConcat
<1>7. /\ seq' \in [SeqIds -> Sequence] /\ seq'[s].ended = seq[s].ended
      /\ seq'[s].items = <<>> /\ seq'[s].sent = n /\ seq'[s].left = seq[s].left
      /\ \A t \in SeqIds : t # s => seq'[t] = seq[t]
  <2> PICK q : q = [[seq[s] EXCEPT !.sent = n] EXCEPT !.items = <<>>]
    OBVIOUS
  <2>1. seq[s] \in Sequence
    BY <1>2
  <2>2. q \in Sequence /\ q.ended = seq[s].ended /\ q.items = <<>> /\ q.sent = n /\ q.left = seq[s].left
    BY <1>5, <2>1, EmptySeqs DEF Sequence
  <2>3. seq' = [seq EXCEPT ![s] = q]
    BY <1>1, <1>2, <2>1 DEF Sequence
  <2> QED BY <1>2, <2>2, <2>3
<1>8. /\ fetched' \in [SeqIds -> Seq(Nat)] /\ fetched'[s] = fetched[s] \o it
      /\ \A t \in SeqIds : t # s => fetched'[t] = fetched[t]
  BY <1>1, <1>2, <1>5
<1>9. Numbered(s)'
  BY <1>5, <1>6, <1>7, <1>8, EmptySeqs DEF Numbered
<1>10. walk'[s] \in AtItem => seq'[s].left > 0
  BY <1>1, <1>7 DEF HealIInv, Walking, AtItem
<1>11. Len(seq'[s].items) <= MaxPending
  BY SMT, <1>7, HealFacts
<1> QED BY <1>1, <1>2, <1>7, <1>8, <1>9, <1>10, <1>11, OneSequence DEF Registered

\* A sequence ends, at the end of its walk or when it is cancelled.
LEMMA EndIInv ==
  ASSUME HealIInv, NEW s \in SeqIds, PushWaits(s) \/ WalkDone(s) \/ SequenceStopped(s)
  PROVE  HealIInv'
<1>1. /\ seq \in [SeqIds -> Sequence] /\ walk \in [SeqIds \cup {Background} -> WalkPcs]
      /\ fetched \in [SeqIds -> Seq(Nat)] /\ healer \in Healer /\ Len(seq[s].items) <= MaxPending
      /\ Numbered(s) /\ Walking(s) /\ s # Background
  BY HealTypes, HealFacts DEF HealIInv
<1>2. CASE PushWaits(s)
  <2>1. PICK pc : pc = IF seq[s].cancelled THEN "done" ELSE "hung"
    OBVIOUS
  <2>2. pc \in WalkPcs \ {"none"} /\ pc \notin AtItem
    BY <2>1 DEF WalkPcs, AtItem
  <2>3. /\ walk' = [walk EXCEPT ![s] = pc] /\ seqMap' = seqMap /\ seq' = seq /\ admin' = admin
        /\ healer' = healer /\ fetched' = fetched /\ stops' = stops
    BY <1>2, <2>1 DEF PushWaits, WalkTo
  <2> QED BY <1>1, <2>2, <2>3, WalkMoves
<1>3. CASE WalkDone(s) \/ SequenceStopped(s)
  <2>1. /\ seq' = [seq EXCEPT ![s].ended = TRUE] /\ seqMap' = seqMap /\ admin' = admin
        /\ healer' = healer /\ fetched' = fetched /\ stops' = stops
        /\ walk' = walk \/ walk' = [walk EXCEPT ![s] = "closed"]
    BY <1>3 DEF WalkDone, SequenceStopped, WalkTo
  <2>2. Registered(s)
    BY <1>1, <1>3 DEF WalkDone, SequenceStopped, Walking, Registered
  <2>3. /\ seq' \in [SeqIds -> Sequence] /\ seq'[s].ended /\ seq'[s].items = seq[s].items
        /\ seq'[s].sent = seq[s].sent /\ seq'[s].left = seq[s].left
        /\ \A t \in SeqIds : t # s => seq'[t] = seq[t]
    <3> PICK q : q = [seq[s] EXCEPT !.ended = TRUE]
      OBVIOUS
    <3>1. seq[s] \in Sequence
      BY <1>1
    <3>2. q \in Sequence /\ q.ended /\ q.items = seq[s].items /\ q.sent = seq[s].sent /\ q.left = seq[s].left
      BY <3>1 DEF Sequence
    <3>3. seq' = [seq EXCEPT ![s] = q]
      BY <2>1
    <3> QED BY <1>1, <3>2, <3>3
  <2>4. /\ walk' \in [SeqIds \cup {Background} -> WalkPcs]
        /\ walk'[s] = walk[s] \/ walk'[s] = "closed"
        /\ \A t \in SeqIds \cup {Background} : t # s => walk'[t] = walk[t]
    BY <1>1, <2>1 DEF WalkPcs
  <2>5. Numbered(s)'
    <3>1. Numbered(s) /\ fetched' = fetched
      BY <1>1, <2>1
    <3> QED BY <2>3, <3>1 DEF Numbered
  <2>6. walk'[s] \in AtItem => seq'[s].left > 0
    BY <1>1, <2>3, <2>4 DEF Walking, AtItem
  <2>7. walk'[s] # "none" /\ Len(seq'[s].items) <= MaxPending
    BY <1>1, <2>2, <2>3, <2>4 DEF Registered
  <2> QED BY <1>1, <2>1, <2>3, <2>4, <2>5, <2>6, <2>7, OneSequence
<1> QED BY <1>2, <1>3

\* Requests and the cleaning of the map start and stop nothing by themselves:
\* entries of the map go, and sequences are cancelled.
LEMMA MapShrinks ==
  ASSUME HealIInv, seqMap' \in [Paths -> SeqIds \cup {NoSeq}],
         \A p \in Paths : seqMap'[p] = seqMap[p] \/ seqMap'[p] = NoSeq,
         admin' \in [Admins -> Request], stops' \in 0..MaxStops,
         \A a \in Admins : admin'[a].pc # "idle" => admin'[a].path \in Paths,
         \A a \in Admins : admin'[a].pc = "ending" => admin'[a].seq \in SeqIds,
         seq' \in [SeqIds -> Sequence],
         \A s \in SeqIds : /\ seq'[s].ended = seq[s].ended /\ seq'[s].items = seq[s].items
                           /\ seq'[s].sent = seq[s].sent /\ seq'[s].left = seq[s].left,
         UNCHANGED <<walk, healer, fetched>>
  PROVE  HealIInv'
<1>1. HealTypeOK'
  BY DEF HealIInv, HealTypeOK, Request
<1>2. MapSound'
  BY DEF HealIInv, MapSound, Registered
<1>3. NoOverlap'
  <2>1. \A p \in Paths : seqMap[p] \in SeqIds \cup {NoSeq}
    BY HealTypes DEF HealIInv
  <2>2. \A p \in Paths : Running(seqMap[p])' => Running(seqMap[p])
    BY <2>1 DEF Running
  <2> QED BY <2>2 DEF HealIInv, NoOverlap
<1>4. ASSUME NEW s \in SeqIds PROVE Numbered(s)' /\ Walking(s)'
  <2>1. Numbered(s) /\ Walking(s)
    BY DEF HealIInv
  <2>2. Numbered(s)'
    BY <2>1 DEF Numbered
  <2>3. Walking(s)'
    BY <2>1 DEF Walking, Registered
  <2> QED BY <2>2, <2>3
<1> QED BY <1>1, <1>2, <1>3, <1>4 DEF HealIInv

\* A stop request arrives, or a start request that has to stop a sequence first.
LEMMA RequestIInv ==
  ASSUME HealIInv, NEW a \in Admins,
         \/ HealStopped(a)
         \/ \E p \in Paths : StartHeal(a, p) \/ \E launch \in BOOLEAN : StopHeal(a, p, launch)
  PROVE  HealIInv'
<1>1. /\ seqMap \in [Paths -> SeqIds \cup {NoSeq}] /\ seq \in [SeqIds -> Sequence]
      /\ admin \in [Admins -> Request] /\ stops \in 0..MaxStops
      /\ \A b \in Admins : admin[b].pc # "idle" => admin[b].path \in Paths
      /\ \A b \in Admins : admin[b].pc = "ending" => admin[b].seq \in SeqIds
  BY HealTypes DEF HealIInv, MapSound
<1>2. CASE HealStopped(a)
  <2>1. /\ admin[a].pc = "ending" /\ seqMap' = [seqMap EXCEPT ![admin[a].path] = NoSeq]
        /\ admin' = [admin EXCEPT ![a] = IF @.launch THEN [@ EXCEPT !.pc = "register"] ELSE IdleAdmin]
        /\ UNCHANGED <<seq, walk, healer, fetched, stops>>
    BY <1>2 DEF HealStopped
  <2>2. admin[a] \in Request /\ admin[a].path \in Paths
    BY <1>1, <2>1
  <2>3. IdleAdmin \in Request /\ IdleAdmin.pc = "idle"
    BY DEF IdleAdmin, Request
  <2>4. PICK r : r = IF admin[a].launch THEN [admin[a] EXCEPT !.pc = "register"] ELSE IdleAdmin
    OBVIOUS
  <2>5. r \in Request /\ (r.pc # "idle" => r.path \in Paths) /\ r.pc # "ending"
    BY <2>2, <2>3, <2>4 DEF Request
  <2>6. admin' \in [Admins -> Request] /\ admin'[a] = r /\ \A b \in Admins : b # a => admin'[b] = admin[b]
    BY <1>1, <2>1, <2>4, <2>5
  <2>7. /\ seqMap' \in [Paths -> SeqIds \cup {NoSeq}]
        /\ \A p \in Paths : seqMap'[p] = seqMap[p] \/ seqMap'[p] = NoSeq
    BY <1>1, <2>1
  <2> QED BY <1>1, <2>1, <2>5, <2>6, <2>7, MapShrinks
<1>3. ASSUME NEW p \in Paths, StartHeal(a, p) PROVE HealIInv'
  <2>1. PICK r : r = [pc |-> "register", path |-> p, seq |-> NoSeq, launch |-> TRUE]
    OBVIOUS
  <2>2. r \in Request /\ r.pc = "register" /\ r.path = p
    BY <2>1 DEF Request
  <2>3. admin' = [admin EXCEPT ![a] = r] /\ UNCHANGED <<seqMap, seq, walk, healer, fetched, stops>>
    BY <1>3, <2>1 DEF StartHeal
  <2>4. admin' \in [Admins -> Request] /\ admin'[a] = r /\ \A b \in Admins : b # a => admin'[b] = admin[b]
    BY <1>1, <2>2, <2>3
  <2> QED BY <1>1, <2>2, <2>3, <2>4, MapShrinks
<1>4. ASSUME NEW p \in Paths, NEW launch \in BOOLEAN, StopHeal(a, p, launch) PROVE HealIInv'
  <2>1. stops' \in 0..MaxStops
    <3>1. stops < MaxStops /\ stops' = stops + 1
      BY <1>4 DEF StopHeal
    <3> QED BY SMT, <1>1, <3>1, HealFacts
  <2>2. UNCHANGED <<seqMap, walk, healer, fetched>>
    BY <1>4 DEF StopHeal
  <2>3. PICK r \in Request : /\ admin' = [admin EXCEPT ![a] = r] /\ r.path = p
                             /\ r.pc = "ending" => r.seq \in SeqIds
    <3>1. CASE seqMap[p] = NoSeq
      <4> PICK r : r = [pc |-> "register", path |-> p, seq |-> NoSeq, launch |-> TRUE]
        OBVIOUS
      <4>1. r \in Request /\ r.pc = "register" /\ r.path = p
        BY DEF Request
      <4>2. admin' = [admin EXCEPT ![a] = r]
        BY <1>4, <3>1 DEF StopHeal
      <4> QED BY <4>1, <4>2
    <3>2. CASE seqMap[p] # NoSeq
      <4> PICK r : r = [pc |-> "ending", path |-> p, seq |-> seqMap[p], launch |-> launch]
        OBVIOUS
      <4>1. r \in Request /\ r.path = p /\ r.seq \in SeqIds
        BY <1>1, <3>2 DEF Request
      <4>2. admin' = [admin EXCEPT ![a] = r]
        BY <1>4, <3>2 DEF StopHeal
      <4> QED BY <4>1, <4>2
    <3> QED BY <3>1, <3>2
  <2>4. admin' \in [Admins -> Request] /\ admin'[a] = r /\ \A b \in Admins : b # a => admin'[b] = admin[b]
    BY <1>1, <2>3
  <2>5. /\ seq' \in [SeqIds -> Sequence]
        /\ \A s \in SeqIds : /\ seq'[s].ended = seq[s].ended /\ seq'[s].items = seq[s].items
                             /\ seq'[s].sent = seq[s].sent /\ seq'[s].left = seq[s].left
    <3>1. CASE seq' = seq
      BY <1>1, <3>1
    <3>2. CASE seqMap[p] # NoSeq /\ seq' = [seq EXCEPT ![seqMap[p]].cancelled = TRUE]
      <4> PICK t : t = seqMap[p]
        OBVIOUS
      <4>1. t \in SeqIds
        BY <1>1, <3>2
      <4>2. /\ seq' \in [SeqIds -> Sequence] /\ \A s \in SeqIds : s # t => seq'[s] = seq[s]
            /\ seq'[t].ended = seq[t].ended /\ seq'[t].items = seq[t].items
            /\ seq'[t].sent = seq[t].sent /\ seq'[t].left = seq[t].left
        BY ZenonT(60), <1>1, <3>2, <4>1 DEF Sequence
      <4> QED BY <4>2
    <3> QED BY <1>4, <3>1, <3>2 DEF StopHeal
  <2> QED BY <1>1, <2>1, <2>2, <2>3, <2>4, <2>5, MapShrinks
<1> QED BY <1>2, <1>3, <1>4

\* periodicHealSeqsClean removes a sequence that has ended.
LEMMA CleanIInv ==
  ASSUME HealIInv, NEW p \in Paths, CleanEnded(p)
  PROVE  HealIInv'
<1>1. seqMap' = [seqMap EXCEPT ![p] = NoSeq] /\ UNCHANGED <<seq, walk, admin, healer, fetched, stops>>
  BY DEF CleanEnded
<1>2. /\ seqMap \in [Paths -> SeqIds \cup {NoSeq}] /\ seq \in [SeqIds -> Sequence]
      /\ admin \in [Admins -> Request] /\ stops \in 0..MaxStops
      /\ \A b \in Admins : admin[b].pc # "idle" => admin[b].path \in Paths
      /\ \A b \in Admins : admin[b].pc = "ending" => admin[b].seq \in SeqIds
  BY HealTypes DEF HealIInv, MapSound
<1>3. /\ seqMap' \in [Paths -> SeqIds \cup {NoSeq}]
      /\ \A q \in Paths : seqMap'[q] = seqMap[q] \/ seqMap'[q] = NoSeq
  BY <1>1, <1>2
<1> QED BY <1>1, <1>2, <1>3, MapShrinks

\* Overlap of heal paths is symmetric.
LEMMA TouchingSymmetric == \A p, q : Touching(p, q) => Touching(q, p)
BY DEF Touching

\* A request registers a sequence, or finds that its path overlaps.
LEMMA RegisterIInv ==
  ASSUME HealIInv, NEW a \in Admins, Register(a)
  PROVE  HealIInv'
<1>1. /\ admin[a].pc = "register" /\ admin' = [admin EXCEPT ![a] = IdleAdmin] /\ UNCHANGED <<healer, fetched, stops>>
  BY DEF Register
<1>2. /\ seqMap \in [Paths -> SeqIds \cup {NoSeq}] /\ seq \in [SeqIds -> Sequence]
      /\ walk \in [SeqIds \cup {Background} -> WalkPcs]
      /\ admin \in [Admins -> Request] /\ stops \in 0..MaxStops
      /\ \A b \in Admins : admin[b].pc # "idle" => admin[b].path \in Paths
      /\ \A b \in Admins : admin[b].pc = "ending" => admin[b].seq \in SeqIds
  BY HealTypes DEF HealIInv, MapSound
<1>3. IdleAdmin \in Request /\ IdleAdmin.pc = "idle"
  BY DEF IdleAdmin, Request
<1>4. admin' \in [Admins -> Request] /\ admin'[a] = IdleAdmin /\ \A b \in Admins : b # a => admin'[b] = admin[b]
  BY <1>1, <1>2, <1>3
<1>5. CASE UNCHANGED <<seqMap, seq, walk>>
  BY <1>1, <1>2, <1>3, <1>4, <1>5, MapShrinks
<1>6. CASE ~UNCHANGED <<seqMap, seq, walk>>
  <2> PICK p \in Paths : p = admin[a].path
    BY <1>1, <1>2
  <2> PICK r : r = [NoSequence EXCEPT !.path = p, !.ended = FALSE, !.left = MaxItems]
    OBVIOUS
  <2>1. ~Overlaps(p)
    BY <1>6 DEF Register
  <2>2. PICK s \in SeqIds : /\ ~Registered(s) /\ seqMap' = [seqMap EXCEPT ![p] = s]
                            /\ seq' = [seq EXCEPT ![s] = r] /\ walk' = [walk EXCEPT ![s] = "next"]
    BY <1>6 DEF Register
  <2>3. r \in Sequence /\ r.items = <<>> /\ r.sent = 0
    <3>1. MaxItems \in 0..MaxItems /\ 0 \in 0..MaxItems
      BY SMT, HealFacts
    <3>2. NoSequence \in Sequence /\ NoSequence.items = <<>> /\ NoSequence.sent = 0
      BY <3>1, EmptySeqs DEF NoSequence, Sequence
    <3> QED BY <3>1, <3>2 DEF Sequence
  <2>4. /\ seqMap' \in [Paths -> SeqIds \cup {NoSeq}] /\ seqMap'[p] = s
        /\ \A q \in Paths : q # p => seqMap'[q] = seqMap[q]
    BY <1>2, <2>2
  <2>5. /\ seq' \in [SeqIds -> Sequence] /\ seq'[s] = r /\ \A t \in SeqIds : t # s => seq'[t] = seq[t]
    BY <1>2, <2>2, <2>3
  <2>6. /\ walk' \in [SeqIds \cup {Background} -> WalkPcs] /\ walk'[s] = "next"
        /\ \A t \in SeqIds \cup {Background} : t # s => walk'[t] = walk[t]
    BY <1>2, <2>2 DEF WalkPcs
  <2>7. HealTypeOK'
    <3>1. \A t \in SeqIds : Len(seq'[t].items) <= MaxPending
      <4>1. Len(r.items) <= MaxPending
        BY SMT, <2>3, HealFacts
      <4> QED BY <2>5, <4>1, HealTypes DEF HealIInv
    <3> QED BY <1>1, <1>4, <2>4, <2>5, <2>6, <3>1 DEF HealIInv, HealTypeOK, WalkPcs, Request, Healer
  <2>8. \A q \in Paths : seqMap[q] # NoSeq => seqMap[q] \in SeqIds /\ seqMap[q] # s /\ Registered(seqMap[q])
    BY <1>2, <2>2 DEF HealIInv, MapSound
  <2>9. MapSound'
    <3>1. \A q \in Paths : seqMap'[q] # NoSeq => walk'[seqMap'[q]] # "none"
      BY SMTT(60), <2>4, <2>6, <2>8 DEF Registered
    <3> QED BY <1>2, <1>3, <1>4, <3>1 DEF MapSound, Registered
  <2>10. NoOverlap'
    <3>1. ASSUME NEW q \in Paths, q # p, Running(seqMap[q])' PROVE Running(seqMap[q]) /\ ~Touching(p, q)
      <4>1. seqMap'[q] = seqMap[q] /\ seqMap[q] # NoSeq /\ ~seq'[seqMap[q]].ended
        BY <2>4, <3>1 DEF Running
      <4>2. seq'[seqMap[q]] = seq[seqMap[q]]
        BY <2>5, <2>8, <4>1
      <4> QED BY <2>1, <4>1, <4>2 DEF Running, Overlaps
    <3>2. ASSUME NEW q1 \in Paths, NEW q2 \in Paths, q1 # q2, Running(seqMap[q1])', Running(seqMap[q2])'
          PROVE  ~Touching(q1, q2)
      <4>1. CASE q1 = p
        BY <3>1, <3>2, <4>1
      <4>2. CASE q2 = p
        BY <3>1, <3>2, <4>2, TouchingSymmetric
      <4>3. CASE q1 # p /\ q2 # p
        BY <3>1, <3>2, <4>3 DEF HealIInv, NoOverlap
      <4> QED BY <4>1, <4>2, <4>3
    <3> QED BY <3>2 DEF NoOverlap
  <2>11. ASSUME NEW t \in SeqIds PROVE Numbered(t)' /\ Walking(t)'
    <3>1. Numbered(t) /\ Walking(t) /\ fetched' = fetched
      BY <1>1 DEF HealIInv
    <3>2. CASE t = s
      <4>1. fetched[s] = <<>>
        BY <2>2, <3>1, <3>2 DEF Walking
      <4>2. Numbered(s)'
        BY <2>3, <2>5, <3>1, <4>1, EmptySeqs DEF Numbered
      <4>3. Walking(s)'
        BY <2>6 DEF Walking, Registered
      <4> QED BY <3>2, <4>2, <4>3
    <3>3. CASE t # s
      <4>1. seq'[t] = seq[t] /\ walk'[t] = walk[t]
        BY <2>5, <2>6, <3>3
      <4>2. Numbered(t)'
        BY <3>1, <4>1 DEF Numbered
      <4>3. Walking(t)'
        BY <3>1, <4>1 DEF Walking, Registered
      <4> QED BY <4>2, <4>3
    <3> QED BY <3>2, <3>3
  <2>12. walk'[Background] \in {"next", "send", "wait"}
    BY <2>6, HealFacts DEF HealIInv
  <2> QED BY <2>7, <2>9, <2>10, <2>11, <2>12 DEF HealIInv
<1> QED BY <1>5, <1>6

\* Every step of requests, traversals, the heal routine and the cleaner preserves the invariant.
LEMMA HealNextIInv == HealIInv /\ [HealNext]_healVars => HealIInv'
<1> SUFFICES ASSUME HealIInv, [HealNext]_healVars PROVE HealIInv'
  OBVIOUS
<1>1. CASE UNCHANGED healVars \/ HealItem
  <2>1. /\ UNCHANGED <<seqMap, seq, walk, admin, fetched, stops>>
        /\ healer' = healer \/ healer' = [healer EXCEPT !.pc = "reply"]
    BY <1>1 DEF healVars, HealItem
  <2>2. /\ walk \in [SeqIds \cup {Background} -> WalkPcs] /\ healer \in Healer
        /\ walk[Background] \in {"next", "send", "wait"}
    BY HealTypes DEF HealIInv
  <2>3. healer' \in Healer
    BY <2>1, <2>2 DEF Healer
  <2> QED BY <2>1, <2>2, <2>3, RoutineStep
<1>2. ASSUME NEW s \in SeqIds \cup {Background}, PushResult(s) \/ WalkDone(s) PROVE s \in SeqIds
  BY <1>2 DEF HealIInv, PushResult, WalkDone
<1> QED BY <1>1, <1>2, RequestIInv, RegisterIInv, CleanIInv, PopIInv, EndIInv, WalkIInv, PushResultIInv
        DEF HealNext, WalkStep

\* The inductive invariant of the heal sequences.
THEOREM HealInvariantHolds == HealSpec => []HealIInv
<1>1. HealIInv /\ [HealNext]_healVars => HealIInv'
  BY HealNextIInv
<1> QED BY <1>1, HealInitIInv, PTL DEF HealSpec

\* Registered heal sequences that run do not overlap, clients read consecutive result indices,
\* and no sequence keeps more unread results than it may (LaunchNewHealSequence, pushHealResultItem,
\* PopHealStatusJSON): HealIInv implies it.
THEOREM SequencesSoundHolds == HealSpec => []SequencesSound
<1>1. HealIInv => SequencesSound
  BY DEF HealIInv, Numbered, SequencesSound, ResultsInOrder
<1> QED BY <1>1, HealInvariantHolds, PTL

-----------------------------------------------------------------------------
(* Bucket metadata.  The persisted document, the caches of the nodes and the   *)
(* notifications still owed, relative to each other.                           *)

ChangeKinds == {"make", "delete", "versioning", "lock", "replication", "policy", "policyset", "rules"}
ChangeValues == {"", "default", "rule", "enabled", "suspended"} \cup BOOLEAN
\* Requests before and after their transaction.
Asked == [at : {"read", "commit"}, node : Nodes, kind : ChangeKinds, value : ChangeValues, seen : SUBSET (Changes \cup {OldPolicy})]
Telling == [at : {"notify", "remove"}, node : Nodes, kind : ChangeKinds, value : ChangeValues, left : SUBSET Nodes,
            loaded : SUBSET (Nodes \X BOOLEAN)]
InProgress(c) == c.at \notin {"new", "over"}

ChangesOK ==
  /\ change \in [Changes -> {Waiting, Over} \cup Asked \cup Telling]
  /\ \A r \in Changes : InProgress(change[r]) => change[r].value \in ValuesOf(change[r].kind)

\* As long as the legacy file is there, no change was acknowledged: every update
\* begins with a migration.
LegacyOK == legacy => ackedChanges = {}

\* The cache of n is empty or current, or request r will make it so; while the
\* bucket does not exist, only a deletion will.
Current(n) == cached[n] = NoDocument \/ (exists /\ cached[n] = Persisted)
PendingBy(c, n) == \/ c.at \in {"notify", "remove"} /\ n \in c.left
                   \/ c.at = "remove" /\ c.node = n
CachesFollow ==
  \A n \in Nodes \ missed :
    Current(n) \/ \E r \in Changes : PendingBy(change[r], n) /\ (~exists => change[r].kind = "delete")

BucketIInv ==
  BucketTypeOK /\ ChangesOK /\ LegacyOK /\ UpdatesKept /\ ReplicationVersioned /\ CachesFollow

\* A missing document is told apart from every document.
LEMMA NoDocumentApart == NoDocument \notin Documents
<1> SUFFICES ASSUME NoDocument \in Documents PROVE FALSE
  OBVIOUS
<1>1. DOMAIN NoDocument = {"none"}
  BY DEF NoDocument
<1>2. DOMAIN NoDocument = {"versioning", "lock", "replication", "policy", "events"}
  BY DEF Documents
<1>3. "none" \notin {"versioning", "lock", "replication", "policy", "events"}
  OBVIOUS
<1> QED BY <1>1, <1>2, <1>3

\* newBucketMetadata: no replication, no lock, no policy.
LEMMA NewDocumentType == NewDocument \in Documents /\ ~NewDocument.replication /\ NewDocument.lock = "" /\ NewDocument.policy = {}
BY DEF NewDocument, Documents

\* The stage of a request says which record it is.
LEMMA ChangeCases ==
  ASSUME ChangesOK, NEW r \in Changes
  PROVE  /\ change[r].at \in {"read", "commit"} => change[r] \in Asked
         /\ change[r].at \in {"notify", "remove"} => change[r] \in Telling
<1>1. change[r] \in {Waiting, Over} \cup Asked \cup Telling
  BY DEF ChangesOK
<1>2. Waiting.at = "new" /\ Over.at = "over"
  BY DEF Waiting, Over
<1>3. change[r] \in Asked => change[r].at \in {"read", "commit"}
  BY DEF Asked
<1>4. change[r] \in Telling => change[r].at \in {"notify", "remove"}
  BY DEF Telling
<1> QED BY <1>1, <1>2, <1>3, <1>4

\* parseAllConfigs changes the versioning of a document at most.
LEMMA ParsedKeeps ==
  ASSUME NEW d \in Documents
  PROVE  /\ Parsed(d) \in Documents /\ Parsed(d).policy = d.policy /\ Parsed(d).replication = d.replication
         /\ Parsed(d).lock = d.lock
         /\ Parsed(d).lock = "default" => Parsed(d).versioning = "enabled"
         /\ d.versioning = "enabled" => Parsed(d).versioning = "enabled"
BY DEF Parsed, Documents

\* What a load finds, and may write back.
LEMMA MigratedFacts ==
  ASSUME BucketIInv
  PROVE  /\ Migrated \in Documents /\ Migrated # NoDocument
         /\ Migrated.lock = "default" => Migrated.versioning = "enabled"
         /\ Migrated.replication => Migrated.versioning = "enabled"
         /\ exists => ackedChanges \subseteq Migrated.policy
         /\ ~legacy => Migrated = Persisted
<1>1. Persisted \in Documents
  BY NewDocumentType DEF BucketIInv, BucketTypeOK, Persisted, Loaded
<1>2. /\ Migrated \in Documents /\ Migrated.lock = Persisted.lock /\ Migrated.versioning = Persisted.versioning
      /\ Migrated.replication = Persisted.replication /\ (~legacy => Migrated = Persisted)
  BY <1>1 DEF Migrated, Documents, OldPolicy
<1>3. /\ Persisted.lock = "default" => Persisted.versioning = "enabled"
      /\ Persisted.replication => Persisted.versioning = "enabled"
  BY NewDocumentType DEF BucketIInv, BucketTypeOK, ReplicationVersioned, Persisted, Loaded
<1>4. exists => ackedChanges \subseteq Migrated.policy
  BY <1>2 DEF BucketIInv, LegacyOK, UpdatesKept
<1> QED BY <1>2, <1>3, <1>4, NoDocumentApart

\* What a migration leaves as the document is read as the migrated one.
LEMMA MigratedDocumentFacts ==
  ASSUME BucketIInv
  PROVE  MigratedDocument \in Documents \cup {NoDocument} /\ Loaded(MigratedDocument) = Migrated
<1>1. CASE legacy
  BY <1>1, MigratedFacts DEF MigratedDocument, Loaded
<1>2. CASE ~legacy
  BY <1>2, MigratedFacts DEF MigratedDocument, Persisted, BucketIInv, BucketTypeOK
<1> QED BY <1>1, <1>2

\* A bucket whose settings lie in the legacy file, or in a new document, satisfies the invariant.
LEMMA BucketInitIInv == BucketInit => BucketIInv
<1> SUFFICES ASSUME BucketInit PROVE BucketIInv
  OBVIOUS
<1>1. /\ exists = TRUE /\ legacy = LegacyAtStart
      /\ document = IF LegacyAtStart THEN NoDocument ELSE NewDocument
      /\ cached = [n \in Nodes |-> NoDocument] /\ rules = [n \in Nodes |-> FALSE]
      /\ change = [r \in Changes |-> Waiting] /\ ackedChanges = {} /\ missed = {} /\ bucketMishaps = 0 /\ mix \in KindSets
  BY DEF BucketInit
<1>2. BucketTypeOK
  <2>1. 0 \in 0..MaxMissed
    BY SMT, BucketAssumption
  <2>2. document # NoDocument => document = NewDocument
    BY <1>1
  <2> QED BY <1>1, <2>1, <2>2, NewDocumentType, BucketAssumption DEF BucketTypeOK
<1>3. ChangesOK
  BY <1>1 DEF ChangesOK, InProgress, Waiting
<1>4. LegacyOK
  BY <1>1 DEF LegacyOK
<1>5. UpdatesKept /\ ReplicationVersioned
  BY <1>1, NewDocumentType DEF UpdatesKept, ReplicationVersioned
<1>6. CachesFollow
  BY <1>1 DEF CachesFollow, Current
<1> QED BY <1>2, <1>3, <1>4, <1>5, <1>6 DEF BucketIInv

\* Steps of one request.
LEMMA OneRequest ==
  ASSUME ChangesOK, NEW r \in Changes, NEW c \in {Waiting, Over} \cup Asked \cup Telling,
         InProgress(c) => c.value \in ValuesOf(c.kind), change' = [change EXCEPT ![r] = c]
  PROVE  ChangesOK' /\ change'[r] = c /\ \A s \in Changes : s # r => change'[s] = change[s]
BY DEF ChangesOK

\* Request r moved on: each node is current, or what it was owed is still owed.
LEMMA CachesStep ==
  ASSUME CachesFollow, NEW r \in Changes, exists' = exists,
         \A s \in Changes : s # r => change'[s] = change[s],
         \A n \in Nodes \ missed' :
           \/ Current(n)'
           \/ /\ n \notin missed /\ (Current(n) => Current(n)')
              /\ PendingBy(change[r], n) /\ (~exists => change[r].kind = "delete")
                   => PendingBy(change'[r], n) /\ change'[r].kind = change[r].kind
  PROVE  CachesFollow'
<1> SUFFICES ASSUME NEW n \in Nodes \ missed', ~Current(n)'
             PROVE  \E s \in Changes : PendingBy(change'[s], n) /\ (~exists => change'[s].kind = "delete")
  BY DEF CachesFollow
<1>1. n \notin missed /\ ~Current(n)
  OBVIOUS
<1>2. PICK s \in Changes : PendingBy(change[s], n) /\ (~exists => change[s].kind = "delete")
  BY <1>1 DEF CachesFollow
<1>3. CASE s = r
  BY <1>2, <1>3
<1>4. CASE s # r
  BY <1>2, <1>4
<1> QED BY <1>3, <1>4

\* Nothing but requests and the nodes that missed a call changes.
LEMMA SettingsStay ==
  ASSUME BucketIInv, exists' = exists, document' = document, legacy' = legacy, ackedChanges' = ackedChanges,
         mix' = mix, bucketMishaps' \in 0..MaxMissed, missed' \subseteq Nodes, rules' \in [Nodes -> BOOLEAN],
         cached' \in [Nodes -> Documents \cup {NoDocument}],
         \A n \in Nodes : cached'[n] = cached[n] \/ cached'[n] = NoDocument
  PROVE  /\ BucketTypeOK' /\ LegacyOK' /\ UpdatesKept' /\ ReplicationVersioned'
         /\ \A n \in Nodes : Current(n) => Current(n)'
<1>1. BucketTypeOK'
  BY DEF BucketIInv, BucketTypeOK
<1>2. LegacyOK'
  BY DEF BucketIInv, LegacyOK
<1>3. UpdatesKept' /\ ReplicationVersioned'
  BY DEF BucketIInv, UpdatesKept, Persisted, Loaded, ReplicationVersioned
<1>4. \A n \in Nodes : Current(n) => Current(n)'
  <2>1. Persisted' = Persisted
    BY DEF Persisted, Loaded
  <2> QED BY <2>1 DEF Current
<1> QED BY <1>1, <1>2, <1>3, <1>4

\* The document is read as d from now on, while the bucket exists: after a migration, a
\* load that migrates, or an update that is saved or fails.
LEMMA DocumentStep ==
  ASSUME BucketIInv, exists, exists' = exists, mix' = mix, bucketMishaps' \in 0..MaxMissed, rules' = rules,
         NEW d \in Documents, document' \in Documents \cup {NoDocument}, Loaded(document)' = d,
         d.lock = "default" => d.versioning = "enabled", d.replication => d.versioning = "enabled",
         ackedChanges' \subseteq Changes, ackedChanges' \subseteq d.policy, missed' \subseteq Nodes,
         legacy' = FALSE \/ (legacy' = legacy /\ ackedChanges' = ackedChanges),
         cached' \in [Nodes -> Documents \cup {NoDocument}]
  PROVE  BucketTypeOK' /\ LegacyOK' /\ UpdatesKept' /\ ReplicationVersioned'
<1>1. document' # NoDocument => document' = d
  BY DEF Loaded
<1>2. Persisted' = d
  BY DEF Persisted
<1>3. BucketTypeOK'
  BY <1>1 DEF BucketIInv, BucketTypeOK
<1>4. LegacyOK'
  BY DEF BucketIInv, LegacyOK
<1>5. UpdatesKept' /\ ReplicationVersioned'
  BY <1>1, <1>2 DEF UpdatesKept, ReplicationVersioned
<1> QED BY <1>3, <1>4, <1>5

\* The nodes that are told nothing although the document changes count as missed: the
\* others have no copy, or the right one.
LEMMA ToldFacts ==
  ASSUME NEW m \in Nodes, NEW d, m \notin Untold(d), cached'[m] = cached[m], exists', Loaded(document)' = Loaded(d)
  PROVE  Current(m)'
BY DEF Untold, Current, Persisted

\* loadConfig publishes the migrated document in the cache of its node.
LEMMA LoadStep ==
  ASSUME BucketIInv, NEW n \in Nodes, LoadConfig(n), exists' = exists, mix' = mix,
         bucketMishaps' = bucketMishaps, rules' = rules, ackedChanges' = ackedChanges
  PROVE  /\ BucketTypeOK' /\ LegacyOK' /\ UpdatesKept' /\ ReplicationVersioned'
         /\ Current(n)'
         /\ \A m \in Nodes \ missed' : Current(m)' \/ (m \notin missed /\ (Current(m) => Current(m)'))
<1>1. /\ exists /\ legacy' = FALSE /\ document' = MigratedDocument
      /\ cached' = [cached EXCEPT ![n] = Migrated] /\ missed' = MissMigration \ {n}
  BY DEF LoadConfig, Migrates
<1>2. document' \in Documents \cup {NoDocument} /\ Loaded(document)' = Migrated
  BY <1>1, MigratedDocumentFacts DEF Loaded
<1>3. /\ cached \in [Nodes -> Documents \cup {NoDocument}] /\ ackedChanges \subseteq Changes /\ missed \subseteq Nodes
      /\ bucketMishaps \in 0..MaxMissed
  BY DEF BucketIInv, BucketTypeOK
<1>4. /\ cached' \in [Nodes -> Documents \cup {NoDocument}] /\ cached'[n] = Migrated
      /\ \A m \in Nodes : m # n => cached'[m] = cached[m]
  BY <1>1, <1>3, MigratedFacts
<1>5. BucketTypeOK' /\ LegacyOK' /\ UpdatesKept' /\ ReplicationVersioned'
  <2> PICK d : d = Migrated
    OBVIOUS
  <2>1. /\ d \in Documents /\ Loaded(document)' = d /\ (d.lock = "default" => d.versioning = "enabled")
        /\ d.replication => d.versioning = "enabled"
        /\ ackedChanges' \subseteq Changes /\ ackedChanges' \subseteq d.policy
    BY <1>1, <1>2, <1>3, MigratedFacts
  <2>2. missed' \subseteq Nodes
    BY <1>1, <1>3 DEF MissMigration, Untold
  <2> QED BY <1>1, <1>2, <1>3, <1>4, <2>1, <2>2, DocumentStep
<1>6. Current(n)'
  BY <1>1, <1>2, <1>4 DEF Current, Persisted
<1>7. ASSUME NEW m \in Nodes \ missed', m # n PROVE Current(m)' \/ (m \notin missed /\ (Current(m) => Current(m)'))
  <2>1. CASE legacy
    <3>1. m \notin Untold(Migrated)
      BY <1>1, <1>7, <2>1 DEF MissMigration
    <3>2. Loaded(Migrated) = Migrated
      BY MigratedFacts DEF Loaded
    <3> QED BY <1>1, <1>2, <1>4, <1>7, <3>1, <3>2, ToldFacts
  <2>2. CASE ~legacy
    <3>1. document' = document /\ m \notin missed
      BY <1>1, <1>7, <2>2 DEF MigratedDocument, MissMigration
    <3>2. Persisted' = Persisted
      BY <3>1 DEF Persisted, Loaded
    <3> QED BY <1>1, <1>4, <1>7, <3>1, <3>2 DEF Current
  <2> QED BY <2>1, <2>2
<1> QED BY <1>5, <1>6, <1>7

\* convertLegacyConfigs saved the document and failed to remove the legacy file.
LEMMA MigrationFailsStep ==
  ASSUME BucketIInv, exists, MigrationFails, mix' = mix
  PROVE  /\ BucketTypeOK' /\ LegacyOK' /\ UpdatesKept' /\ ReplicationVersioned'
         /\ (\A m \in Nodes \ missed' : Current(m)') /\ exists' = exists
<1>1. /\ legacy /\ bucketMishaps < MaxMissed /\ document' = Migrated /\ bucketMishaps' = bucketMishaps + 1
      /\ missed' = missed \cup Untold(Migrated)
      /\ UNCHANGED <<exists, legacy, cached, rules, ackedChanges>>
  BY DEF MigrationFails
<1>2. Loaded(Migrated) = Migrated /\ Loaded(document)' = Migrated
  BY <1>1, MigratedFacts DEF Loaded
<1>3. /\ cached \in [Nodes -> Documents \cup {NoDocument}] /\ ackedChanges \subseteq Changes /\ missed \subseteq Nodes
      /\ bucketMishaps \in 0..MaxMissed
  BY DEF BucketIInv, BucketTypeOK
<1>4. bucketMishaps' \in 0..MaxMissed
  <2>1. MaxMissed \in Nat
    BY BucketAssumption
  <2> QED BY SMT, <1>1, <1>3, <2>1
<1>5. BucketTypeOK' /\ LegacyOK' /\ UpdatesKept' /\ ReplicationVersioned'
  <2> PICK d : d = Migrated
    OBVIOUS
  <2>1. /\ d \in Documents /\ document' = d /\ (d.lock = "default" => d.versioning = "enabled")
        /\ d.replication => d.versioning = "enabled"
        /\ Loaded(document)' = d
        /\ ackedChanges' \subseteq Changes /\ ackedChanges' \subseteq d.policy
    BY <1>1, <1>2, <1>3, MigratedFacts
  <2>2. missed' \subseteq Nodes
    BY <1>1, <1>3 DEF Untold
  <2>3. cached' \in [Nodes -> Documents \cup {NoDocument}] /\ document' \in Documents \cup {NoDocument}
    BY <1>1, <1>3, <2>1
  <2>4. exists' = exists /\ rules' = rules /\ legacy' = legacy /\ ackedChanges' = ackedChanges
    BY <1>1
  <2> QED BY <1>4, <2>1, <2>2, <2>3, <2>4, DocumentStep
<1>6. \A m \in Nodes \ missed' : Current(m)'
  BY <1>1, <1>2, ToldFacts
<1> QED BY <1>1, <1>5, <1>6

\* A request that waits, or is over, owes no node anything.
LEMMA NothingOwed ==
  ASSUME NEW c, c.at # "notify", c.at # "remove"
  PROVE  \A n : ~PendingBy(c, n)
BY DEF PendingBy

\* A request that is over owes nothing.
LEMMA OverFacts == Over.at = "over" /\ ~InProgress(Over) /\ Over \in {Waiting, Over} \cup Asked \cup Telling
BY DEF Over, InProgress

\* Loads outside requests.
LEMMA LoadIInv ==
  ASSUME BucketIInv, NEW n \in Nodes, LoadOnMiss(n) \/ LoadOnMissFails(n), mix' = mix
  PROVE  BucketIInv'
<1>1. change' = change /\ exists' = exists
  BY DEF LoadOnMiss, LoadOnMissFails, MigrationFails
<1>2. ChangesOK'
  BY <1>1 DEF BucketIInv, ChangesOK
<1>3. CASE LoadOnMiss(n)
  <2>1. /\ LoadConfig(n) /\ UNCHANGED <<exists, rules, change, ackedChanges, bucketMishaps>>
    BY <1>3 DEF LoadOnMiss
  <2>2. /\ BucketTypeOK' /\ LegacyOK' /\ UpdatesKept' /\ ReplicationVersioned'
        /\ \A m \in Nodes \ missed' : Current(m)' \/ (m \notin missed /\ (Current(m) => Current(m)'))
    BY <2>1, LoadStep
  <2>3. CachesFollow'
    BY <1>1, <2>2 DEF BucketIInv, CachesFollow
  <2> QED BY <1>2, <2>2, <2>3 DEF BucketIInv
<1>4. CASE LoadOnMissFails(n)
  <2>1. /\ BucketTypeOK' /\ LegacyOK' /\ UpdatesKept' /\ ReplicationVersioned' /\ (\A m \in Nodes \ missed' : Current(m)')
    BY <1>4, MigrationFailsStep DEF LoadOnMissFails
  <2>2. CachesFollow'
    BY <2>1 DEF CachesFollow
  <2> QED BY <1>2, <2>1, <2>2 DEF BucketIInv
<1> QED BY <1>3, <1>4

\* A request arrives at a node.
LEMMA ArriveIInv ==
  ASSUME BucketIInv, NEW r \in Changes, NEW n \in Nodes, NEW kind \in mix, NEW value \in ValuesOf(kind),
         Arrive(r, n, kind, value), mix' = mix
  PROVE  BucketIInv'
<1> PICK c : c = [at |-> IF kind = "policy" THEN "read" ELSE "commit",
                  node |-> n, kind |-> kind, value |-> value, seen |-> {}]
  OBVIOUS
<1>1. /\ change[r] = Waiting /\ change' = [change EXCEPT ![r] = c]
      /\ UNCHANGED <<exists, document, legacy, cached, rules, ackedChanges, missed, bucketMishaps>>
  BY DEF Arrive
<1>2. kind \in ChangeKinds
  BY BucketAssumption DEF BucketIInv, BucketTypeOK, ChangeKinds
<1>3. value \in ChangeValues
  BY <1>2 DEF ValuesOf, ChangeValues, ChangeKinds
<1>4. c \in Asked /\ c.value \in ValuesOf(c.kind)
  BY <1>2, <1>3 DEF Asked
<1>5. ChangesOK' /\ change'[r] = c /\ \A s \in Changes : s # r => change'[s] = change[s]
  BY <1>1, <1>4, OneRequest DEF BucketIInv
<1>6. /\ BucketTypeOK' /\ LegacyOK' /\ UpdatesKept' /\ ReplicationVersioned'
      /\ \A m \in Nodes : Current(m) => Current(m)'
  BY <1>1, SettingsStay DEF BucketIInv, BucketTypeOK
<1>7. CachesFollow'
  <2>1. \A m : ~PendingBy(change[r], m)
    <3>1. change[r].at = "new"
      <4>1. Waiting.at = "new"
        BY DEF Waiting
      <4> QED BY <1>1, <4>1
    <3> QED BY <3>1, NothingOwed
  <2> QED BY <1>1, <1>5, <1>6, <2>1, CachesStep DEF BucketIInv
<1> QED BY <1>5, <1>6, <1>7 DEF BucketIInv

\* A request ends without any effect on the settings.
LEMMA OverIInv ==
  ASSUME BucketIInv, NEW r \in Changes, \A m : ~PendingBy(change[r], m), change' = [change EXCEPT ![r] = Over],
         mix' = mix, rules' \in [Nodes -> BOOLEAN],
         UNCHANGED <<exists, document, legacy, cached, ackedChanges, missed, bucketMishaps>>
  PROVE  BucketIInv'
<1>1. ChangesOK' /\ change'[r] = Over /\ \A s \in Changes : s # r => change'[s] = change[s]
  BY OneRequest, OverFacts DEF BucketIInv
<1>2. /\ BucketTypeOK' /\ LegacyOK' /\ UpdatesKept' /\ ReplicationVersioned'
      /\ \A m \in Nodes : Current(m) => Current(m)'
  BY SettingsStay DEF BucketIInv, BucketTypeOK
<1>3. CachesFollow'
  BY <1>1, <1>2, CachesStep DEF BucketIInv
<1> QED BY <1>1, <1>2, <1>3 DEF BucketIInv

\* ... or after a migration that failed.
LEMMA FailedIInv ==
  ASSUME BucketIInv, exists, NEW r \in Changes, MigrationFails, change' = [change EXCEPT ![r] = Over], mix' = mix
  PROVE  BucketIInv'
<1>1. ChangesOK'
  BY OneRequest, OverFacts DEF BucketIInv
<1>2. /\ BucketTypeOK' /\ LegacyOK' /\ UpdatesKept' /\ ReplicationVersioned' /\ (\A m \in Nodes \ missed' : Current(m)')
  BY MigrationFailsStep
<1> QED BY <1>1, <1>2 DEF BucketIInv, CachesFollow

\* A conditional policy change reads the policy it will add to.
LEMMA ReadRevisionIInv ==
  ASSUME BucketIInv, NEW r \in Changes, ReadRevision(r), mix' = mix
  PROVE  BucketIInv'
<1>1. change[r].at = "read"
  BY DEF ReadRevision, Stage
<1>2. change[r] \in Asked /\ \A m : ~PendingBy(change[r], m)
  <2>1. change[r] \in Asked
    BY <1>1, ChangeCases DEF BucketIInv
  <2> QED BY <1>1, <2>1, NothingOwed
<1>3. CASE exists /\ MigrationFails /\ change' = [change EXCEPT ![r] = Over]
  BY <1>3, FailedIInv
<1>4. CASE ~exists /\ change' = [change EXCEPT ![r] = Over]
           /\ UNCHANGED <<exists, document, legacy, cached, rules, ackedChanges, missed, bucketMishaps>>
  BY <1>2, <1>4, OverIInv DEF BucketIInv, BucketTypeOK
<1>5. CASE LoadConfig(change[r].node) /\ UNCHANGED bucketMishaps
           /\ change' = [change EXCEPT ![r].at = "commit", ![r].seen = Migrated.policy]
           /\ UNCHANGED <<exists, rules, ackedChanges>>
  <2> PICK n : n = change[r].node
    OBVIOUS
  <2> PICK c : c = [[change[r] EXCEPT !.at = "commit"] EXCEPT !.seen = Migrated.policy]
    OBVIOUS
  <2>1. n \in Nodes
    BY <1>2 DEF Asked
  <2>2. Migrated.policy \subseteq Changes \cup {OldPolicy}
    BY MigratedFacts DEF Documents
  <2>3. c \in Asked /\ c.value = change[r].value /\ c.kind = change[r].kind
    BY <1>2, <2>2 DEF Asked
  <2>4. change' = [change EXCEPT ![r] = c]
    BY <1>5 DEF BucketIInv, ChangesOK
  <2>5. c.value \in ValuesOf(c.kind)
    BY <1>1, <2>3 DEF BucketIInv, ChangesOK, InProgress
  <2>6. ChangesOK' /\ change'[r] = c /\ \A s \in Changes : s # r => change'[s] = change[s]
    BY <2>3, <2>4, <2>5, OneRequest DEF BucketIInv
  <2>7. /\ BucketTypeOK' /\ LegacyOK' /\ UpdatesKept' /\ ReplicationVersioned'
        /\ \A m \in Nodes \ missed' : Current(m)' \/ (m \notin missed /\ (Current(m) => Current(m)'))
    BY <1>5, <2>1, LoadStep
  <2>8. CachesFollow'
    BY <1>2, <1>5, <2>6, <2>7, CachesStep DEF BucketIInv
  <2> QED BY <2>6, <2>7, <2>8 DEF BucketIInv
<1> QED BY <1>3, <1>4, <1>5 DEF ReadRevision

\* The document an update saves.
LEMMA UpdatedFacts ==
  ASSUME NEW r \in Changes, change[r] \in Asked, change[r].value \in ValuesOf(change[r].kind),
         change[r].kind \notin {"make", "delete"}, NEW d \in Documents, NEW a \in SUBSET Changes,
         a \subseteq d.policy, d.replication => d.versioning = "enabled",
         d.lock = "default" => d.versioning = "enabled", CommitAllows(r, d)
  PROVE  LET u == Updated(r, d)
         IN /\ u \in Documents /\ (u.lock = "default" => u.versioning = "enabled")
            /\ u.replication => u.versioning = "enabled"
            /\ change[r].kind = "policy" => a \cup {r} \subseteq u.policy
            /\ change[r].kind = "policyset" => {r} \subseteq u.policy
            /\ change[r].kind \notin {"policy", "policyset"} => a \subseteq u.policy
<1> PICK c : c = change[r]
  OBVIOUS
<1>1. c.kind \in ChangeKinds /\ c.seen \subseteq Changes \cup {OldPolicy} /\ c.value \in ValuesOf(c.kind)
  BY DEF Asked
<1>2. CASE c.kind = "policy"
  <2> PICK e : e = [d EXCEPT !.policy = c.seen \cup {r}]
    OBVIOUS
  <2>1. e \in Documents /\ e.policy = c.seen \cup {r} /\ e.lock = d.lock /\ e.replication = d.replication
        /\ e.versioning = d.versioning
    BY <1>1 DEF Documents
  <2>2. Updated(r, d) = Parsed(e) /\ d.policy = c.seen
    BY <1>2 DEF Updated, CommitAllows
  <2>3. /\ Parsed(e) \in Documents /\ Parsed(e).policy = c.seen \cup {r} /\ Parsed(e).replication = d.replication
        /\ Parsed(e).lock = "default" => Parsed(e).versioning = "enabled"
        /\ d.versioning = "enabled" => Parsed(e).versioning = "enabled"
    BY <2>1, ParsedKeeps
  <2>4. a \cup {r} \subseteq Parsed(e).policy
    BY <2>2, <2>3
  <2> QED BY <1>2, <2>2, <2>3, <2>4
<1>3. CASE c.kind = "policyset"
  <2> PICK e : e = [d EXCEPT !.policy = {r}]
    OBVIOUS
  <2>1. e \in Documents /\ e.policy = {r} /\ e.lock = d.lock /\ e.replication = d.replication
        /\ e.versioning = d.versioning
    BY <1>1 DEF Documents
  <2>2. Updated(r, d) = Parsed(e)
    BY <1>3 DEF Updated
  <2> QED BY ZenonT(60), <1>3, <2>1, <2>2, ParsedKeeps
<1>4. CASE c.kind = "versioning"
  <2> PICK e : e = [d EXCEPT !.versioning = c.value]
    OBVIOUS
  <2>0. c.value \in {"enabled", "suspended"}
    BY <1>1, <1>4 DEF ValuesOf
  <2>1. e \in Documents /\ e.policy = d.policy /\ e.lock = d.lock /\ e.replication = d.replication
        /\ e.versioning = c.value
    BY <2>0 DEF Documents
  <2>2. Updated(r, d) = Parsed(e) /\ (c.value = "suspended" => d.lock = "" /\ ~d.replication)
    BY <1>4 DEF Updated, CommitAllows
  <2>3. /\ Parsed(e) \in Documents /\ Parsed(e).policy = d.policy /\ Parsed(e).replication = d.replication
        /\ Parsed(e).lock = "default" => Parsed(e).versioning = "enabled"
        /\ c.value = "enabled" => Parsed(e).versioning = "enabled"
    BY <2>1, ParsedKeeps
  <2>4. Parsed(e).replication => Parsed(e).versioning = "enabled"
    BY <2>0, <2>2, <2>3
  <2> QED BY <1>4, <2>2, <2>3, <2>4
<1>5. CASE c.kind = "lock"
  <2> PICK e : e = [d EXCEPT !.lock = c.value]
    OBVIOUS
  <2>0. c.value \in {"default", "rule"}
    BY <1>1, <1>5 DEF ValuesOf
  <2>1. e \in Documents /\ e.policy = d.policy /\ e.versioning = d.versioning /\ e.replication = d.replication
    BY <2>0 DEF Documents
  <2>2. Updated(r, d) = Parsed(e)
    BY <1>5 DEF Updated
  <2> QED BY ZenonT(60), <1>5, <2>1, <2>2, ParsedKeeps
<1>6. CASE c.kind = "replication"
  <2> PICK e : e = [d EXCEPT !.replication = c.value]
    OBVIOUS
  <2>0. c.value \in BOOLEAN
    BY <1>1, <1>6 DEF ValuesOf
  <2>1. e \in Documents /\ e.policy = d.policy /\ e.versioning = d.versioning /\ e.lock = d.lock
        /\ e.replication = c.value
    BY <2>0 DEF Documents
  <2>2. Updated(r, d) = Parsed(e) /\ (c.value => d.versioning = "enabled")
    BY <1>6 DEF Updated, CommitAllows
  <2> QED BY ZenonT(60), <1>6, <2>1, <2>2, ParsedKeeps
<1>7. CASE c.kind = "rules"
  <2> PICK e : e = [d EXCEPT !.events = c.value]
    OBVIOUS
  <2>0. c.value \in BOOLEAN
    BY <1>1, <1>7 DEF ValuesOf
  <2>1. e \in Documents /\ e.policy = d.policy /\ e.versioning = d.versioning /\ e.lock = d.lock
        /\ e.replication = d.replication
    BY <2>0 DEF Documents
  <2>2. Updated(r, d) = Parsed(e)
    BY <1>7 DEF Updated
  <2> QED BY ZenonT(60), <1>7, <2>1, <2>2, ParsedKeeps
<1> QED BY <1>1, <1>2, <1>3, <1>4, <1>5, <1>6, <1>7 DEF ChangeKinds

\* A request that committed will tell all other nodes.
LEMMA NotifyingFacts ==
  ASSUME NEW r \in Changes, change[r] \in Asked
  PROVE  /\ Notifying(r) \in Telling /\ Notifying(r).kind = change[r].kind /\ Notifying(r).value = change[r].value
         /\ \A m \in Nodes : m # change[r].node => PendingBy(Notifying(r), m)
<1>1. Peers(change[r].node) \subseteq Nodes /\ \A m \in Nodes : m # change[r].node => m \in Peers(change[r].node)
  BY DEF Peers
<1>2. /\ Notifying(r) \in Telling /\ Notifying(r).kind = change[r].kind /\ Notifying(r).value = change[r].value
      /\ Notifying(r).at = "notify" /\ Notifying(r).left = Peers(change[r].node)
  BY <1>1 DEF Notifying, Telling, Asked
<1> QED BY <1>1, <1>2 DEF PendingBy

\* update: the read-modify-write under the transaction lock commits, fails in its save or in the
\* migration, is refused, or finds no bucket.
LEMMA UpdateIInv ==
  ASSUME BucketIInv, NEW r \in Changes, Update(r), mix' = mix
  PROVE  BucketIInv'
<1> PICK n : n = change[r].node
  OBVIOUS
<1> PICK u : u = Updated(r, Migrated)
  OBVIOUS
<1>1. change[r].at = "commit" /\ change[r].kind \notin {"make", "delete"}
  BY DEF Update, Stage
<1>2. change[r] \in Asked /\ (\A m : ~PendingBy(change[r], m)) /\ change[r].value \in ValuesOf(change[r].kind)
  <2>1. change[r] \in Asked
    BY <1>1, ChangeCases DEF BucketIInv
  <2>2. \A m : ~PendingBy(change[r], m)
    BY <1>1, NothingOwed
  <2> QED BY <1>1, <2>1, <2>2 DEF BucketIInv, ChangesOK, InProgress
<1>3. n \in Nodes /\ change[r].kind \in ChangeKinds
  BY <1>2 DEF Asked
<1>4. /\ cached \in [Nodes -> Documents \cup {NoDocument}] /\ ackedChanges \subseteq Changes /\ missed \subseteq Nodes
      /\ bucketMishaps \in 0..MaxMissed /\ rules \in [Nodes -> BOOLEAN]
  BY DEF BucketIInv, BucketTypeOK
<1>9. CommitAllows(r, Migrated) /\ exists =>
        /\ u \in Documents /\ (u.lock = "default" => u.versioning = "enabled")
        /\ u.replication => u.versioning = "enabled"
        /\ change[r].kind = "policy" => ackedChanges \cup {r} \subseteq u.policy
        /\ change[r].kind = "policyset" => {r} \subseteq u.policy
        /\ change[r].kind \notin {"policy", "policyset"} => ackedChanges \subseteq u.policy
  <2> SUFFICES ASSUME CommitAllows(r, Migrated), exists
               PROVE  /\ u \in Documents /\ (u.lock = "default" => u.versioning = "enabled")
                      /\ u.replication => u.versioning = "enabled"
                      /\ change[r].kind = "policy" => ackedChanges \cup {r} \subseteq u.policy
                      /\ change[r].kind = "policyset" => {r} \subseteq u.policy
                      /\ change[r].kind \notin {"policy", "policyset"} => ackedChanges \subseteq u.policy
    OBVIOUS
  <2> PICK d : d = Migrated
    OBVIOUS
  <2>1. /\ d \in Documents /\ (d.lock = "default" => d.versioning = "enabled")
        /\ d.replication => d.versioning = "enabled"
        /\ ackedChanges \subseteq d.policy /\ CommitAllows(r, d) /\ u = Updated(r, d)
    BY MigratedFacts
  <2> QED BY <1>1, <1>2, <1>4, <2>1, UpdatedFacts
<1>10. MissMigration \subseteq Nodes /\ missed \subseteq MissMigration
  BY <1>4 DEF MissMigration, Untold
<1>5. CASE /\ exists /\ CommitAllows(r, Migrated) /\ legacy' = FALSE /\ document' = u
           /\ cached' = [cached EXCEPT ![n] = u] /\ missed' = MissMigration \ {n} /\ ackedChanges' = AckedAfter(r)
           /\ change' = [change EXCEPT ![r] = Notifying(r)] /\ UNCHANGED <<exists, rules, bucketMishaps>>
  <2>1. /\ u \in Documents /\ (u.lock = "default" => u.versioning = "enabled")
        /\ u.replication => u.versioning = "enabled"
    BY <1>5, <1>9
  <2>2. ackedChanges' \subseteq Changes /\ ackedChanges' \subseteq u.policy
    <3>1. CASE change[r].kind = "policy"
      BY <1>4, <1>5, <1>9, <3>1 DEF AckedAfter
    <3>2. CASE change[r].kind = "policyset"
      BY <1>4, <1>5, <1>9, <3>2 DEF AckedAfter
    <3>3. CASE change[r].kind \notin {"policy", "policyset"}
      <4>1. ackedChanges' = ackedChanges
        BY <1>5, <3>3 DEF AckedAfter
      <4> QED BY <1>4, <1>5, <1>9, <3>3, <4>1
    <3> QED BY <3>1, <3>2, <3>3
  <2>3. cached' \in [Nodes -> Documents \cup {NoDocument}] /\ cached'[n] = u /\ Loaded(document)' = u
    BY <1>3, <1>4, <1>5, <2>1, NoDocumentApart DEF Loaded
  <2>4. BucketTypeOK' /\ LegacyOK' /\ UpdatesKept' /\ ReplicationVersioned'
    <3>1. exists' = exists /\ bucketMishaps' \in 0..MaxMissed /\ rules' = rules /\ missed' \subseteq Nodes
      BY <1>4, <1>5, <1>10
    <3> QED BY <1>5, <2>1, <2>2, <2>3, <3>1, DocumentStep
  <2>5. /\ ChangesOK' /\ change'[r] = Notifying(r) /\ \A s \in Changes : s # r => change'[s] = change[s]
    <3> PICK c : c = Notifying(r)
      OBVIOUS
    <3>1. c \in Telling /\ c.kind = change[r].kind /\ c.value = change[r].value
      BY <1>2, NotifyingFacts
    <3>2. c.value \in ValuesOf(c.kind) /\ c \in {Waiting, Over} \cup Asked \cup Telling
      BY <1>2, <3>1
    <3> QED BY <1>5, <3>2, OneRequest DEF BucketIInv
  <2>6. CachesFollow'
    <3>1. Current(n)'
      BY <1>5, <2>3 DEF Current, Persisted
    <3>2. \A m \in Nodes : m # n => PendingBy(change'[r], m)
      BY <1>2, <2>5, NotifyingFacts
    <3> QED BY <1>5, <3>1, <3>2 DEF CachesFollow
  <2> QED BY <2>4, <2>5, <2>6 DEF BucketIInv
<1>11. CASE /\ exists /\ CommitAllows(r, Migrated) /\ legacy' = FALSE
            /\ bucketMishaps < MaxMissed /\ bucketMishaps' = bucketMishaps + 1
            /\ document' \in {MigratedDocument, u} /\ missed' = MissMigration \cup Untold(document')
            /\ ackedChanges' = KeptAfter(r) /\ change' = [change EXCEPT ![r] = Over]
            /\ UNCHANGED <<exists, cached, rules>>
  <2> PICK d : d = Loaded(document')
    OBVIOUS
  <2>1. document' \in Documents \cup {NoDocument} /\ d \in {Migrated, u} /\ Loaded(document)' = d
    BY <1>9, <1>11, MigratedDocumentFacts, NoDocumentApart DEF Loaded
  <2>2. ackedChanges' \subseteq Changes /\ ackedChanges' \subseteq d.policy
    <3>1. ackedChanges \subseteq Migrated.policy
      BY <1>11, MigratedFacts
    <3>2. ackedChanges' \subseteq u.policy /\ ackedChanges' \subseteq ackedChanges
      BY <1>9, <1>11 DEF KeptAfter
    <3> QED BY <1>4, <2>1, <3>1, <3>2
  <2>3. d \in Documents /\ (d.lock = "default" => d.versioning = "enabled") /\ (d.replication => d.versioning = "enabled")
    BY <1>9, <1>11, <2>1, MigratedFacts
  <2>4. bucketMishaps' \in 0..MaxMissed
    <3>1. MaxMissed \in Nat
      BY BucketAssumption
    <3> QED BY SMT, <1>4, <1>11, <3>1
  <2>5. BucketTypeOK' /\ LegacyOK' /\ UpdatesKept' /\ ReplicationVersioned'
    <3>1. missed' \subseteq Nodes
      BY <1>10, <1>11 DEF Untold
    <3> QED BY <1>4, <1>11, <2>1, <2>2, <2>3, <2>4, <3>1, DocumentStep
  <2>6. ChangesOK'
    BY <1>11, OneRequest, OverFacts DEF BucketIInv
  <2>7. CachesFollow'
    <3>1. ASSUME NEW m \in Nodes \ missed' PROVE Current(m)'
      <4>1. m \notin Untold(document')
        BY <1>11, <3>1
      <4>2. Loaded(document)' = Loaded(document')
        BY DEF Loaded
      <4> QED BY <1>11, <3>1, <4>1, <4>2, ToldFacts
    <3> QED BY <3>1 DEF CachesFollow
  <2> QED BY <2>5, <2>6, <2>7 DEF BucketIInv
<1>6. CASE /\ exists /\ legacy' = FALSE /\ document' = MigratedDocument /\ missed' = MissMigration
           /\ change' = [change EXCEPT ![r] = Over]
           /\ UNCHANGED <<exists, cached, rules, ackedChanges, bucketMishaps>>
  <2>1. document' \in Documents \cup {NoDocument} /\ Loaded(document)' = Migrated
    BY <1>6, MigratedDocumentFacts DEF Loaded
  <2>2. BucketTypeOK' /\ LegacyOK' /\ UpdatesKept' /\ ReplicationVersioned'
    <3> PICK d : d = Migrated
      OBVIOUS
    <3>1. /\ d \in Documents /\ Loaded(document)' = d /\ (d.lock = "default" => d.versioning = "enabled")
          /\ d.replication => d.versioning = "enabled"
          /\ ackedChanges' \subseteq Changes /\ ackedChanges' \subseteq d.policy
      BY <1>4, <1>6, <2>1, MigratedFacts
    <3> QED BY <1>4, <1>6, <1>10, <2>1, <3>1, DocumentStep
  <2>3. ChangesOK' /\ \A s \in Changes : s # r => change'[s] = change[s]
    BY <1>6, OneRequest, OverFacts DEF BucketIInv
  <2>4. ASSUME NEW m \in Nodes \ missed' PROVE Current(m)' \/ (m \notin missed /\ (Current(m) => Current(m)'))
    <3>1. CASE legacy
      <4>1. m \notin Untold(Migrated)
        BY <1>6, <2>4, <3>1 DEF MissMigration
      <4>2. Loaded(Migrated) = Migrated
        BY MigratedFacts DEF Loaded
      <4> QED BY <1>6, <2>1, <2>4, <4>1, <4>2, ToldFacts
    <3>2. CASE ~legacy
      <4>1. document' = document /\ m \notin missed
        BY <1>6, <2>4, <3>2 DEF MigratedDocument, MissMigration
      <4> QED BY <1>6, <2>4, <4>1 DEF Current, Persisted, Loaded
    <3> QED BY <3>1, <3>2
  <2>5. CachesFollow'
    BY <1>2, <1>6, <2>3, <2>4, CachesStep DEF BucketIInv
  <2> QED BY <2>2, <2>3, <2>5 DEF BucketIInv
<1>7. CASE exists /\ MigrationFails /\ change' = [change EXCEPT ![r] = Over]
  BY <1>7, FailedIInv
<1>8. CASE ~exists /\ change' = [change EXCEPT ![r] = Over]
           /\ UNCHANGED <<exists, document, legacy, cached, rules, ackedChanges, missed, bucketMishaps>>
  BY <1>2, <1>4, <1>8, OverIInv
<1> QED BY <1>5, <1>6, <1>7, <1>8, <1>11 DEF Update, Migrates

\* MakeBucketWithLocation saves the new document, fails to, or finds that the bucket exists.
LEMMA MakeBucketIInv ==
  ASSUME BucketIInv, NEW r \in Changes, MakeBucket(r), mix' = mix
  PROVE  BucketIInv'
<1> PICK n : n = change[r].node
  OBVIOUS
<1> PICK e : e = [NewDocument EXCEPT !.lock = change[r].value]
  OBVIOUS
<1> PICK d : d = Parsed(e)
  OBVIOUS
<1>1. change[r].at = "commit" /\ change[r].kind = "make" /\ UNCHANGED <<legacy, rules>>
  BY DEF MakeBucket, Stage
<1>2. change[r] \in Asked /\ (\A m : ~PendingBy(change[r], m)) /\ change[r].value \in ValuesOf(change[r].kind)
  <2>1. change[r] \in Asked
    BY <1>1, ChangeCases DEF BucketIInv
  <2>2. \A m : ~PendingBy(change[r], m)
    BY <1>1, NothingOwed
  <2> QED BY <1>1, <2>1, <2>2 DEF BucketIInv, ChangesOK, InProgress
<1>3. n \in Nodes /\ change[r].value \in {"", "default"}
  BY <1>1, <1>2 DEF Asked, ValuesOf
<1>4. /\ cached \in [Nodes -> Documents \cup {NoDocument}] /\ missed \subseteq Nodes
      /\ bucketMishaps \in 0..MaxMissed /\ rules \in [Nodes -> BOOLEAN]
  BY DEF BucketIInv, BucketTypeOK
<1>5. CASE exists /\ change' = [change EXCEPT ![r] = Over]
           /\ UNCHANGED <<exists, document, cached, ackedChanges, missed, bucketMishaps>>
  BY <1>1, <1>2, <1>4, <1>5, OverIInv
<1>7. d \in Documents /\ ~d.replication /\ (d.lock = "default" => d.versioning = "enabled")
  <2>1. e \in Documents /\ ~e.replication
    BY <1>3, NewDocumentType DEF Documents
  <2> QED BY <2>1, ParsedKeeps
<1>6. CASE /\ exists' = TRUE /\ document' = d /\ ackedChanges' = {} /\ cached' = [cached EXCEPT ![n] = d]
           /\ missed' = missed \ {n} /\ change' = [change EXCEPT ![r] = Notifying(r)] /\ UNCHANGED bucketMishaps
  <2>4. cached' \in [Nodes -> Documents \cup {NoDocument}] /\ cached'[n] = d /\ Persisted' = d
    BY <1>3, <1>4, <1>6, <1>7, NoDocumentApart DEF Persisted, Loaded
  <2>6. BucketTypeOK'
    BY <1>1, <1>4, <1>6, <1>7, <2>4 DEF BucketIInv, BucketTypeOK
  <2>7. LegacyOK' /\ UpdatesKept' /\ ReplicationVersioned'
    BY <1>6, <1>7 DEF LegacyOK, UpdatesKept, ReplicationVersioned
  <2>8. ChangesOK' /\ change'[r] = Notifying(r)
    <3> PICK c : c = Notifying(r)
      OBVIOUS
    <3>1. c \in Telling /\ c.kind = change[r].kind /\ c.value = change[r].value
      BY <1>2, NotifyingFacts
    <3>2. c.value \in ValuesOf(c.kind) /\ c \in {Waiting, Over} \cup Asked \cup Telling
      BY <1>2, <3>1
    <3> QED BY <1>6, <3>2, OneRequest DEF BucketIInv
  <2>9. CachesFollow'
    <3>1. Current(n)'
      BY <1>6, <2>4 DEF Current
    <3>2. \A m \in Nodes : m # n => PendingBy(change'[r], m)
      BY <1>2, <2>8, NotifyingFacts
    <3> QED BY <1>6, <3>1, <3>2 DEF CachesFollow
  <2> QED BY <2>6, <2>7, <2>8, <2>9 DEF BucketIInv
<1>8. CASE /\ bucketMishaps < MaxMissed /\ bucketMishaps' = bucketMishaps + 1
           /\ exists' = TRUE /\ document' \in {document, d} /\ ackedChanges' = {}
           /\ missed' = missed \cup Untold(document') /\ change' = [change EXCEPT ![r] = Over]
           /\ UNCHANGED cached
  <2>1. bucketMishaps' \in 0..MaxMissed
    <3>1. MaxMissed \in Nat
      BY BucketAssumption
    <3> QED BY SMT, <1>4, <1>8, <3>1
  <2>2. missed' \subseteq Nodes
    BY <1>4, <1>8 DEF Untold
  <2>3. BucketTypeOK'
    BY <1>1, <1>7, <1>8, <2>1, <2>2 DEF BucketIInv, BucketTypeOK
  <2>4. LegacyOK' /\ UpdatesKept' /\ ReplicationVersioned'
    BY <1>7, <1>8 DEF BucketIInv, LegacyOK, UpdatesKept, ReplicationVersioned
  <2>5. ChangesOK'
    BY <1>8, OneRequest, OverFacts DEF BucketIInv
  <2>6. ASSUME NEW m \in Nodes \ missed' PROVE Current(m)'
    <3>1. m \notin Untold(document') /\ Loaded(document)' = Loaded(document')
      BY <1>8, <2>6 DEF Loaded
    <3> QED BY <1>8, <2>6, <3>1, ToldFacts
  <2> QED BY <2>3, <2>4, <2>5, <2>6 DEF BucketIInv, CachesFollow
<1> QED BY <1>5, <1>6, <1>8 DEF MakeBucket

\* DeleteBucket removes the document with the bucket, or leaves it behind when that fails.
LEMMA DeleteBucketIInv ==
  ASSUME BucketIInv, NEW r \in Changes, DeleteBucket(r), mix' = mix
  PROVE  BucketIInv'
<1> PICK n : n = change[r].node
  OBVIOUS
<1>1. /\ change[r].at = "commit" /\ change[r].kind = "delete" /\ UNCHANGED <<legacy, cached, rules, missed>>
  BY DEF DeleteBucket, Stage
<1>2. change[r] \in Asked /\ (\A m : ~PendingBy(change[r], m)) /\ change[r].value \in ValuesOf(change[r].kind)
  <2>1. change[r] \in Asked
    BY <1>1, ChangeCases DEF BucketIInv
  <2>2. \A m : ~PendingBy(change[r], m)
    BY <1>1, NothingOwed
  <2> QED BY <1>1, <2>1, <2>2 DEF BucketIInv, ChangesOK, InProgress
<1>3. n \in Nodes
  BY <1>2 DEF Asked
<1>4. bucketMishaps \in 0..MaxMissed /\ rules \in [Nodes -> BOOLEAN] /\ MaxMissed \in Nat
  BY BucketAssumption DEF BucketIInv, BucketTypeOK
<1>5. CASE ~exists
  BY <1>1, <1>2, <1>4, <1>5, OverIInv DEF DeleteBucket
<1>6. CASE exists
  <2> PICK c : c = [Notifying(r) EXCEPT !.at = "remove"]
    OBVIOUS
  <2>1. /\ exists' = FALSE /\ ackedChanges' = {} /\ change' = [change EXCEPT ![r] = c]
        /\ document' = NoDocument \/ document' = document
        /\ bucketMishaps' = bucketMishaps \/ (bucketMishaps < MaxMissed /\ bucketMishaps' = bucketMishaps + 1)
    BY <1>6 DEF DeleteBucket
  <2>2. bucketMishaps' \in 0..MaxMissed
    BY SMT, <1>4, <2>1
  <2>3. BucketTypeOK'
    BY <1>1, <2>1, <2>2 DEF BucketIInv, BucketTypeOK
  <2>4. LegacyOK' /\ UpdatesKept' /\ ReplicationVersioned'
    BY <1>1, <2>1 DEF BucketIInv, LegacyOK, UpdatesKept, ReplicationVersioned
  <2>5. /\ c \in Telling /\ c.kind = "delete" /\ c.value = change[r].value /\ c.at = "remove" /\ c.node = n
        /\ c.left = Peers(n)
    <3>1. Peers(n) \subseteq Nodes
      BY DEF Peers
    <3> QED BY <1>1, <1>2, <3>1 DEF Notifying, Telling, Asked
  <2>6. ChangesOK' /\ change'[r] = c
    <3>1. c.value \in ValuesOf(c.kind) /\ c \in {Waiting, Over} \cup Asked \cup Telling
      BY <1>1, <1>2, <2>5
    <3> QED BY <2>1, <3>1, OneRequest DEF BucketIInv
  <2>7. \A m \in Nodes : PendingBy(change'[r], m)
    BY <2>5, <2>6 DEF PendingBy, Peers
  <2>8. CachesFollow'
    BY <2>5, <2>6, <2>7 DEF CachesFollow
  <2> QED BY <2>3, <2>4, <2>6, <2>8 DEF BucketIInv
<1> QED BY <1>5, <1>6

\* A request that goes on telling nodes: n has been told or lost, or nothing changed for it.
LEMMA TellingOn ==
  ASSUME ChangesOK, NEW r \in Changes, change[r] \in Telling, NEW c \in Telling,
         c.kind = change[r].kind, c.value = change[r].value, change' = [change EXCEPT ![r] = c]
  PROVE  ChangesOK' /\ change'[r] = c /\ \A s \in Changes : s # r => change'[s] = change[s]
<1>1. InProgress(change[r])
  BY DEF Telling, InProgress
<1>2. c.value \in ValuesOf(c.kind)
  BY <1>1 DEF ChangesOK
<1> QED BY <1>2, OneRequest

\* globalBucketMetadataSys.Remove on the node that deleted the bucket.
LEMMA RemoveOwnIInv ==
  ASSUME BucketIInv, NEW r \in Changes, RemoveOwn(r), mix' = mix
  PROVE  BucketIInv'
<1> PICK n : n = change[r].node
  OBVIOUS
<1> PICK c : c = [change[r] EXCEPT !.at = "notify"]
  OBVIOUS
<1>1. /\ change[r].at = "remove" /\ cached' = [cached EXCEPT ![n] = NoDocument]
      /\ change' = [change EXCEPT ![r] = c]
      /\ UNCHANGED <<exists, document, legacy, rules, ackedChanges, missed, bucketMishaps>>
  BY DEF RemoveOwn, Stage
<1>2. change[r] \in Telling
  BY <1>1, ChangeCases DEF BucketIInv
<1>3. /\ c \in Telling /\ c.kind = change[r].kind /\ c.value = change[r].value /\ c.left = change[r].left
      /\ c.at = "notify"
  BY <1>2 DEF Telling
<1>4. cached \in [Nodes -> Documents \cup {NoDocument}] /\ n \in Nodes
  BY <1>2 DEF BucketIInv, BucketTypeOK, Telling
<1>5. /\ cached' \in [Nodes -> Documents \cup {NoDocument}] /\ cached'[n] = NoDocument
      /\ \A m \in Nodes : m # n => cached'[m] = cached[m]
  BY <1>1, <1>4
<1>6. BucketTypeOK' /\ LegacyOK' /\ UpdatesKept' /\ ReplicationVersioned' /\ \A m \in Nodes : Current(m) => Current(m)'
  BY <1>1, <1>5, SettingsStay DEF BucketIInv, BucketTypeOK, Current
<1>7. ChangesOK' /\ change'[r] = c /\ \A s \in Changes : s # r => change'[s] = change[s]
  BY <1>1, <1>2, <1>3, TellingOn DEF BucketIInv
<1>8. CachesFollow'
  <2>1. Current(n)'
    BY <1>5 DEF Current
  <2>2. \A m \in Nodes : m # n /\ PendingBy(change[r], m) => PendingBy(change'[r], m)
    BY <1>1, <1>3, <1>7 DEF PendingBy
  <2> QED BY <1>1, <1>3, <1>6, <1>7, <2>1, <2>2, CachesStep DEF BucketIInv
<1> QED BY <1>6, <1>7, <1>8 DEF BucketIInv

\* Peer p is off the list of request r.
LEMMA NotifiedFacts ==
  ASSUME NEW r \in Changes, NEW p \in Nodes, NEW c \in Telling, BucketIInv, change[r] \in Telling, change[r].at = "notify",
         c.at = "notify", c.kind = change[r].kind, c.value = change[r].value, c.left = change[r].left \ {p},
         change' = [change EXCEPT ![r] = c]
  PROVE  /\ ChangesOK' /\ change'[r] = c /\ \A s \in Changes : s # r => change'[s] = change[s]
         /\ \A m \in Nodes : m # p /\ PendingBy(change[r], m) => PendingBy(change'[r], m)
<1>3. ChangesOK' /\ change'[r] = c /\ \A s \in Changes : s # r => change'[s] = change[s]
  BY TellingOn DEF BucketIInv
<1>4. \A m \in Nodes : m # p /\ PendingBy(change[r], m) => PendingBy(change'[r], m)
  BY <1>3 DEF PendingBy
<1> QED BY <1>3, <1>4

\* ... when its call did not load rules.
LEMMA NotifiedOnly ==
  ASSUME BucketIInv, NEW r \in Changes, change[r].at = "notify", NEW p \in Nodes, change' = Notified(r, p)
  PROVE  /\ ChangesOK' /\ change'[r].kind = change[r].kind
         /\ \A s \in Changes : s # r => change'[s] = change[s]
         /\ \A m \in Nodes : m # p /\ PendingBy(change[r], m) => PendingBy(change'[r], m)
<1> PICK c : c = [change[r] EXCEPT !.left = @ \ {p}]
  OBVIOUS
<1>1. change[r] \in Telling
  BY ChangeCases DEF BucketIInv
<1>2. /\ c \in Telling /\ c.kind = change[r].kind /\ c.value = change[r].value /\ c.left = change[r].left \ {p}
      /\ c.at = "notify"
  BY <1>1 DEF Telling
<1>3. change' = [change EXCEPT ![r] = c]
  BY DEF Notified
<1>4. ChangesOK' /\ change'[r] = c /\ \A s \in Changes : s # r => change'[s] = change[s]
  BY <1>1, <1>2, <1>3, TellingOn DEF BucketIInv
<1>5. \A m \in Nodes : m # p /\ PendingBy(change[r], m) => PendingBy(change'[r], m)
  BY <1>2, <1>4 DEF PendingBy
<1> QED BY <1>2, <1>4, <1>5

\* Of two updates of one entry the second counts.
LEMMA ExceptTwice ==
  ASSUME NEW f, NEW x \in DOMAIN f, NEW a, NEW b
  PROVE  [[f EXCEPT ![x] = a] EXCEPT ![x] = b] = [f EXCEPT ![x] = b]
OBVIOUS

\* A peer drops the metadata of a deleted bucket.
LEMMA PeerRemovesIInv ==
  ASSUME BucketIInv, NEW r \in Changes, NEW p \in Nodes, PeerRemoves(r, p), mix' = mix
  PROVE  BucketIInv'
<1>1. /\ change[r].at = "notify" /\ cached' = [cached EXCEPT ![p] = NoDocument] /\ change' = Notified(r, p)
      /\ UNCHANGED <<exists, document, legacy, rules, ackedChanges, missed, bucketMishaps>>
  BY DEF PeerRemoves, Stage
<1>3. /\ ChangesOK' /\ change'[r].kind = change[r].kind
      /\ \A s \in Changes : s # r => change'[s] = change[s]
      /\ \A m \in Nodes : m # p /\ PendingBy(change[r], m) => PendingBy(change'[r], m)
  BY <1>1, NotifiedOnly
<1>4. cached \in [Nodes -> Documents \cup {NoDocument}]
  BY DEF BucketIInv, BucketTypeOK
<1>5. /\ cached' \in [Nodes -> Documents \cup {NoDocument}] /\ cached'[p] = NoDocument
      /\ \A m \in Nodes : m # p => cached'[m] = cached[m]
  BY <1>1, <1>4
<1>6. BucketTypeOK' /\ LegacyOK' /\ UpdatesKept' /\ ReplicationVersioned' /\ \A m \in Nodes : Current(m) => Current(m)'
  BY <1>1, <1>5, SettingsStay DEF BucketIInv, BucketTypeOK, Current
<1>7. CachesFollow'
  <2>1. Current(p)'
    BY <1>5 DEF Current
  <2> QED BY <1>1, <1>3, <1>6, <2>1, CachesStep DEF BucketIInv
<1> QED BY <1>3, <1>6, <1>7 DEF BucketIInv

\* A peer loads the metadata it was told about.
LEMMA PeerLoadsIInv ==
  ASSUME BucketIInv, NEW r \in Changes, NEW p \in Nodes, PeerLoads(r, p), mix' = mix
  PROVE  BucketIInv'
<1>1. /\ change[r].at = "notify" /\ change[r].kind # "delete" /\ UNCHANGED <<exists, rules, ackedChanges>>
  BY DEF PeerLoads, Stage
<1>2. change[r] \in Telling
  BY <1>1, ChangeCases DEF BucketIInv
<1>3. CASE exists
  <2> PICK l : l = change[r].loaded \cup ToAdd(p)
    OBVIOUS
  <2> PICK c : c = [change[r] EXCEPT !.left = @ \ {p}, !.loaded = l]
    OBVIOUS
  <2>1. /\ LoadConfig(p) /\ bucketMishaps' = bucketMishaps
        /\ change' = [Notified(r, p) EXCEPT ![r].loaded = @ \cup ToAdd(p)]
    BY <1>3 DEF PeerLoads
  <2>2. l \in SUBSET (Nodes \X BOOLEAN)
    <3>1. Migrated.events \in BOOLEAN
      BY MigratedFacts DEF Documents
    <3>2. ToAdd(p) \subseteq Nodes \X BOOLEAN
      BY SMT, <3>1 DEF ToAdd
    <3> QED BY <1>2, <3>2 DEF Telling
  <2>3. change' = [change EXCEPT ![r] = c]
    <3> PICK e : e = [change[r] EXCEPT !.left = @ \ {p}]
      OBVIOUS
    <3> PICK f : f = [change EXCEPT ![r] = e]
      OBVIOUS
    <3>1. f = Notified(r, p) /\ DOMAIN f = Changes /\ f[r] = e /\ DOMAIN change = Changes
      BY DEF Notified, BucketIInv, ChangesOK
    <3>2. e.loaded = change[r].loaded
      BY <1>2 DEF Telling
    <3>3. [e EXCEPT !.loaded = @ \cup ToAdd(p)] = c
      BY SMT, <1>2, <3>2 DEF Telling
    <3>4. change' = [f EXCEPT ![r] = c]
      BY <2>1, <3>1, <3>2, <3>3
    <3> QED BY <3>1, <3>4, ExceptTwice
  <2>8. /\ c \in Telling /\ c.kind = change[r].kind /\ c.value = change[r].value /\ c.left = change[r].left \ {p}
        /\ c.at = "notify"
    BY <1>1, <1>2, <2>2 DEF Telling
  <2>4. /\ ChangesOK' /\ change'[r] = c /\ c.kind = change[r].kind
        /\ \A s \in Changes : s # r => change'[s] = change[s]
        /\ \A m \in Nodes : m # p /\ PendingBy(change[r], m) => PendingBy(change'[r], m)
    BY ZenonT(60), <1>1, <1>2, <2>8, <2>3, NotifiedFacts
  <2>5. /\ BucketTypeOK' /\ LegacyOK' /\ UpdatesKept' /\ ReplicationVersioned'
        /\ Current(p)'
        /\ \A m \in Nodes \ missed' : Current(m)' \/ (m \notin missed /\ (Current(m) => Current(m)'))
    BY <1>1, <2>1, LoadStep
  <2>7. CachesFollow'
    BY <1>1, <2>4, <2>5, CachesStep DEF BucketIInv
  <2> QED BY <2>4, <2>5, <2>7 DEF BucketIInv
<1>4. CASE ~exists
  <2>1. change' = Notified(r, p) /\ UNCHANGED <<document, legacy, cached, missed, bucketMishaps>>
    BY <1>4 DEF PeerLoads
  <2>3. ChangesOK' /\ change'[r].kind = change[r].kind /\ \A s \in Changes : s # r => change'[s] = change[s]
    BY <1>1, <2>1, NotifiedOnly
  <2>4. BucketTypeOK' /\ LegacyOK' /\ UpdatesKept' /\ ReplicationVersioned'
    BY <1>1, <2>1, SettingsStay DEF BucketIInv, BucketTypeOK
  <2>5. CachesFollow'
    BY SMTT(60), <1>1, <1>4, <2>1, <2>3 DEF BucketIInv, CachesFollow, Current
  <2> QED BY <2>3, <2>4, <2>5 DEF BucketIInv
<1> QED BY <1>3, <1>4

\* A peer adds the event rules it loaded.
LEMMA PeerAddsRulesIInv ==
  ASSUME BucketIInv, NEW r \in Changes, PeerAddsRules(r), mix' = mix
  PROVE  BucketIInv'
<1>1. PICK l \in change[r].loaded : /\ rules' = [rules EXCEPT ![l[1]] = l[2]]
                                    /\ change' = [change EXCEPT ![r].loaded = @ \ {l}]
  BY DEF PeerAddsRules
<1> PICK c : c = [change[r] EXCEPT !.loaded = @ \ {l}]
  OBVIOUS
<1>2. /\ change[r].at = "notify" /\ change' = [change EXCEPT ![r] = c]
      /\ UNCHANGED <<exists, document, legacy, cached, ackedChanges, missed, bucketMishaps>>
  BY <1>1 DEF PeerAddsRules, Stage
<1>3. change[r] \in Telling
  BY <1>2, ChangeCases DEF BucketIInv
<1>4. /\ c \in Telling /\ c.kind = change[r].kind /\ c.value = change[r].value /\ c.left = change[r].left
      /\ c.at = "notify"
  BY <1>2, <1>3 DEF Telling
<1>5. rules' \in [Nodes -> BOOLEAN]
  <2>1. l \in Nodes \X BOOLEAN
    BY <1>3 DEF Telling
  <2>2. l[2] \in BOOLEAN
    BY SMT, <2>1
  <2> QED BY <1>1, <2>2 DEF BucketIInv, BucketTypeOK
<1>6. ChangesOK' /\ change'[r] = c /\ \A s \in Changes : s # r => change'[s] = change[s]
  BY <1>2, <1>3, <1>4, TellingOn DEF BucketIInv
<1>7. BucketTypeOK' /\ LegacyOK' /\ UpdatesKept' /\ ReplicationVersioned' /\ \A m \in Nodes : Current(m) => Current(m)'
  BY <1>2, <1>5, SettingsStay DEF BucketIInv, BucketTypeOK
<1>8. CachesFollow'
  <2>1. \A m \in Nodes : PendingBy(change[r], m) => PendingBy(change'[r], m)
    BY <1>2, <1>4, <1>6 DEF PendingBy
  <2> QED BY <1>2, <1>4, <1>6, <1>7, <2>1, CachesStep DEF BucketIInv
<1> QED BY <1>6, <1>7, <1>8 DEF BucketIInv

\* A peer was not reached.
LEMMA PeerMissedIInv ==
  ASSUME BucketIInv, NEW r \in Changes, NEW p \in Nodes, PeerMissed(r, p), mix' = mix
  PROVE  BucketIInv'
<1>1. /\ change[r].at = "notify" /\ change' = Notified(r, p) /\ missed' = missed \cup {p}
      /\ bucketMishaps < MaxMissed /\ bucketMishaps' = bucketMishaps + 1
      /\ UNCHANGED <<exists, document, legacy, cached, rules, ackedChanges>>
  BY DEF PeerMissed, Stage
<1>2. bucketMishaps' \in 0..MaxMissed
  <2>1. bucketMishaps \in 0..MaxMissed /\ MaxMissed \in Nat
    BY BucketAssumption DEF BucketIInv, BucketTypeOK
  <2> QED BY SMT, <1>1, <2>1
<1>3. /\ ChangesOK' /\ change'[r].kind = change[r].kind
      /\ \A s \in Changes : s # r => change'[s] = change[s]
      /\ \A m \in Nodes : m # p /\ PendingBy(change[r], m) => PendingBy(change'[r], m)
  BY <1>1, NotifiedOnly
<1>4. BucketTypeOK' /\ LegacyOK' /\ UpdatesKept' /\ ReplicationVersioned' /\ \A m \in Nodes : Current(m) => Current(m)'
  BY <1>1, <1>2, SettingsStay DEF BucketIInv, BucketTypeOK
<1>5. CachesFollow'
  <2>1. \A m \in Nodes \ missed' : m # p /\ m \notin missed
    BY <1>1
  <2> QED BY <1>1, <1>3, <1>4, <2>1, CachesStep DEF BucketIInv
<1> QED BY <1>3, <1>4, <1>5 DEF BucketIInv

\* The request is answered; a notification request adds the rules of its own node.
LEMMA AnswerIInv ==
  ASSUME BucketIInv, NEW r \in Changes, Answer(r), mix' = mix
  PROVE  BucketIInv'
<1>1. /\ change[r].at = "notify" /\ change[r].left = {} /\ change' = [change EXCEPT ![r] = Over]
      /\ UNCHANGED <<exists, document, legacy, cached, ackedChanges, missed, bucketMishaps>>
      /\ rules' = IF change[r].kind = "rules" THEN [rules EXCEPT ![change[r].node] = change[r].value] ELSE rules
  BY DEF Answer, Stage
<1>2. \A m : ~PendingBy(change[r], m)
  BY <1>1 DEF PendingBy
<1>3. rules \in [Nodes -> BOOLEAN]
  BY DEF BucketIInv, BucketTypeOK
<1>4. CASE change[r].kind = "rules"
  <2>1. change[r].value \in BOOLEAN
    BY <1>1, <1>4 DEF BucketIInv, ChangesOK, InProgress, ValuesOf
  <2>2. rules' \in [Nodes -> BOOLEAN]
    BY <1>1, <1>3, <1>4, <2>1
  <2> QED BY <1>1, <1>2, <2>2, OverIInv
<1>5. CASE change[r].kind # "rules"
  BY <1>1, <1>2, <1>3, <1>5, OverIInv
<1> QED BY <1>4, <1>5

\* A node restarts and takes its requests with it.
LEMMA RestartNodeIInv ==
  ASSUME BucketIInv, NEW n \in Nodes, RestartNode(n), mix' = mix
  PROVE  BucketIInv'
<1> PICK dead : dead = {r \in Changes : change[r].at \notin {"new", "over"} /\ change[r].node = n}
  OBVIOUS
<1> PICK owed : owed = UNION {IF change[r].at \in {"notify", "remove"} THEN change[r].left ELSE {} : r \in dead}
  OBVIOUS
<1>1. /\ bucketMishaps < MaxMissed /\ bucketMishaps' = bucketMishaps + 1
      /\ change' = [r \in Changes |-> IF r \in dead THEN Over
                           ELSE IF change[r].at = "notify"
                                THEN [change[r] EXCEPT !.loaded = {l \in @ : l[1] # n}]
                                ELSE change[r]]
      /\ missed' = (missed \cup owed) \ {n} /\ cached' = [cached EXCEPT ![n] = NoDocument]
      /\ rules' = [rules EXCEPT ![n] = exists /\ Persisted.events]
      /\ UNCHANGED <<exists, document, legacy, ackedChanges>>
  BY DEF RestartNode
<1>2. bucketMishaps' \in 0..MaxMissed
  <2>1. bucketMishaps \in 0..MaxMissed /\ MaxMissed \in Nat
    BY BucketAssumption DEF BucketIInv, BucketTypeOK
  <2> QED BY SMT, <1>1, <2>1
<1>3. rules' \in [Nodes -> BOOLEAN]
  BY <1>1 DEF BucketIInv, BucketTypeOK
<1>4. /\ cached' \in [Nodes -> Documents \cup {NoDocument}] /\ cached'[n] = NoDocument
      /\ \A m \in Nodes : m # n => cached'[m] = cached[m]
  BY <1>1 DEF BucketIInv, BucketTypeOK
<1>5. missed' \subseteq Nodes
  <2>1. \A r \in dead : (IF change[r].at \in {"notify", "remove"} THEN change[r].left ELSE {}) \subseteq Nodes
    <3> SUFFICES ASSUME NEW r \in dead, change[r].at \in {"notify", "remove"} PROVE change[r].left \subseteq Nodes
      OBVIOUS
    <3>1. change[r] \in Telling
      BY ChangeCases DEF BucketIInv
    <3> QED BY <3>1 DEF Telling
  <2>2. owed \subseteq Nodes
    BY <2>1
  <2> QED BY <1>1, <2>2 DEF BucketIInv, BucketTypeOK
<1>6. BucketTypeOK' /\ LegacyOK' /\ UpdatesKept' /\ ReplicationVersioned' /\ \A m \in Nodes : Current(m) => Current(m)'
  BY <1>1, <1>2, <1>3, <1>4, <1>5, SettingsStay
<1>7. ASSUME NEW r \in Changes
      PROVE  /\ change'[r] \in {Waiting, Over} \cup Asked \cup Telling
             /\ InProgress(change'[r]) => change'[r].value \in ValuesOf(change'[r].kind)
             /\ r \notin dead => /\ change'[r].kind = change[r].kind
                                 /\ \A m \in Nodes : PendingBy(change[r], m) => PendingBy(change'[r], m)
  <2>1. CASE r \in dead
    BY <1>1, <2>1, OverFacts
  <2>2. CASE r \notin dead /\ change[r].at = "notify"
    <3> PICK c : c = [change[r] EXCEPT !.loaded = {l \in @ : l[1] # n}]
      OBVIOUS
    <3>1. change'[r] = c /\ change[r] \in Telling
      BY <1>1, <2>2, ChangeCases DEF BucketIInv
    <3>2. /\ c \in Telling /\ c.kind = change[r].kind /\ c.value = change[r].value /\ c.left = change[r].left
          /\ c.at = "notify"
      BY <2>2, <3>1 DEF Telling
    <3>3. change[r].value \in ValuesOf(change[r].kind)
      BY <2>2 DEF BucketIInv, ChangesOK, InProgress
    <3>4. \A m \in Nodes : PendingBy(change[r], m) => PendingBy(change'[r], m)
      BY <2>2, <3>1, <3>2 DEF PendingBy
    <3> QED BY <3>1, <3>2, <3>3, <3>4
  <2>3. CASE r \notin dead /\ change[r].at # "notify"
    <3>1. change'[r] = change[r]
      BY <1>1, <2>3
    <3> QED BY <3>1 DEF BucketIInv, ChangesOK
  <2> QED BY <2>1, <2>2, <2>3
<1>8. ChangesOK'
  BY <1>1, <1>7 DEF ChangesOK
<1>9. CachesFollow'
  <2> SUFFICES ASSUME NEW m \in Nodes \ missed', ~Current(m)'
               PROVE  \E s \in Changes : PendingBy(change'[s], m) /\ (~exists' => change'[s].kind = "delete")
    BY DEF CachesFollow
  <2>1. m # n
    BY <1>4 DEF Current
  <2>2. m \notin missed /\ ~Current(m) /\ m \notin owed
    BY <1>1, <1>6, <2>1
  <2>3. PICK s \in Changes : PendingBy(change[s], m) /\ (~exists => change[s].kind = "delete")
    BY <2>2 DEF BucketIInv, CachesFollow
  <2>4. s \notin dead
    BY <2>1, <2>2, <2>3 DEF PendingBy
  <2> QED BY <1>1, <1>7, <2>3, <2>4
<1> QED BY <1>6, <1>8, <1>9 DEF BucketIInv

\* Every step preserves the invariant.
LEMMA BucketNextIInv ==
  ASSUME BucketIInv, [BucketNext]_bucketVars
  PROVE  BucketIInv'
<1>1. CASE UNCHANGED bucketVars
  <2>1. /\ BucketTypeOK' /\ ChangesOK' /\ LegacyOK'
    BY <1>1 DEF BucketIInv, BucketTypeOK, ChangesOK, LegacyOK, bucketVars
  <2>2. UpdatesKept' /\ ReplicationVersioned'
    BY <1>1 DEF BucketIInv, UpdatesKept, ReplicationVersioned, Persisted, Loaded, bucketVars
  <2>3. CachesFollow'
    BY <1>1 DEF BucketIInv, CachesFollow, Current, Persisted, Loaded, bucketVars
  <2> QED BY <2>1, <2>2, <2>3 DEF BucketIInv
<1>2. CASE BucketNext
  <2>0. mix' = mix
    BY <1>2 DEF BucketNext
  <2>1. CASE \E n \in Nodes : LoadOnMiss(n) \/ LoadOnMissFails(n) \/ RestartNode(n)
    BY <2>0, <2>1, LoadIInv, RestartNodeIInv
  <2>2. CASE \E r \in Changes, n \in Nodes, kind \in mix : \E value \in ValuesOf(kind) : Arrive(r, n, kind, value)
    BY <2>0, <2>2, ArriveIInv
  <2>3. CASE \E r \in Changes : \/ ReadRevision(r) \/ Update(r) \/ MakeBucket(r) \/ DeleteBucket(r)
                                \/ RemoveOwn(r) \/ PeerAddsRules(r) \/ Answer(r)
    BY <2>0, <2>3, ReadRevisionIInv, UpdateIInv, MakeBucketIInv, DeleteBucketIInv, RemoveOwnIInv,
       PeerAddsRulesIInv, AnswerIInv
  <2>4. CASE \E r \in Changes, p \in Nodes : PeerRemoves(r, p) \/ PeerLoads(r, p) \/ PeerMissed(r, p)
    BY <2>0, <2>4, PeerRemovesIInv, PeerLoadsIInv, PeerMissedIInv
  <2> QED BY <1>2, <2>1, <2>2, <2>3, <2>4 DEF BucketNext, BucketStep
<1> QED BY <1>1, <1>2

\* No history of requests, failed saves and migrations, lost calls and restarts breaks the
\* invariant, also when a bucket was deleted and its legacy settings file left.
THEOREM BucketInvariantHolds == BucketSpec => []BucketIInv
BY BucketInitIInv, BucketNextIInv, PTL DEF BucketSpec

\* No acknowledged policy statement is lost, replication keeps its versioning, and a cache differs
\* from the persisted settings only where a notification is owed, was lost, or is never sent because
\* a save failed or a file of a deleted bucket was migrated (update, loadConfig): BucketIInv implies it.
THEOREM SettingsSoundHolds == BucketSpec => []SettingsSound
<1>1. BucketIInv => SettingsSound
  BY DEF BucketIInv, SettingsSound, CachesFollow, CacheCurrent, Current, PendingBy
<1> QED BY <1>1, BucketInvariantHolds, PTL
=============================================================================
