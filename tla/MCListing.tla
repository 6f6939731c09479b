----------------------------- MODULE MCListing ------------------------------
(* Bucket listings and the update tracker they rest on, in three instances:   *)
(* listings over two cycles of the scanner; listings within one cycle while   *)
(* servers restart and calls fail; and the tracker and the scanner alone over *)
(* more cycles, with restarts and failures.  A behaviour is one of them.      *)
EXTENDS Metacache

CONSTANTS LongCycle   \* MaxCycle of the tracker alone

VARIABLE which

Failing == INSTANCE Metacache WITH MaxCycle <- 1, MaxTrackMishaps <- 1
Tracking == INSTANCE UpdateTracker WITH MaxCycle <- LongCycle, MaxTrackMishaps <- 1, DirCycles <- 2, HealInclude <- 4

ListingInit ==
  /\ which \in {"listing", "failing", "tracking"}
  /\ ListInit /\ (which # "tracking" => leader # Owner)

ListingNext ==
  /\ UNCHANGED which
  /\ \/ which = "listing" /\ ListNext
     \/ which = "failing" /\ Failing!ListNext
     \/ which = "tracking" /\ Tracking!TrackNext /\ UNCHANGED listVars

ListingSpec == ListingInit /\ [][ListingNext]_<<allListVars, which>>

\* The type invariants of the update tracker and of the listing cache.
ListingTypeOK ==
  CASE which = "listing" -> TrackTypeOK /\ ListTypeOK
    [] which = "failing" -> Failing!TrackTypeOK /\ Failing!ListTypeOK
    [] which = "tracking" -> Tracking!TrackTypeOK
=============================================================================
