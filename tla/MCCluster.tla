----------------------------- MODULE MCCluster ------------------------------
(* What the servers keep beside the objects: the lock table of one server     *)
(* (LocalLocker), heal sequences (HealSequences), the heal of a new drive     *)
(* (DriveHeal), the lists of partially written objects (MRF), the queue of an *)
(* event target (EventStore), the dynamic timeouts of locks (DynamicTimeout)  *)
(* and the settings of buckets (BucketMetadata).  A behaviour is one of any   *)
(* of them, chosen in the initial state, and the others keep still.           *)
EXTENDS LocalLocker, HealSequences, DriveHeal, MRF, EventStore, DynamicTimeout, BucketMetadata, TLC

\* w1 is a bulk delete that locks both resources, w2 a writer and r1 and r2
\* readers of single ones.
MCResOf == [u \in UIDs |-> IF u = "w1" THEN Resources ELSE IF u = "w2" THEN {"b"} ELSE {"a"}]
MCFirstOf == [u \in UIDs |-> IF u = "w2" THEN "b" ELSE "a"]

\* The whole system, and a bucket.
HealPaths == {<<>>, <<"b">>}

\* Heal sequences of two items that run to their end, and of one item that
\* administrators stop and force to start again.
Serving == INSTANCE HealSequences WITH MaxStops <- 0
Stopping == INSTANCE HealSequences WITH MaxItems <- 1

VARIABLE which   \* the component that runs

clusterVars == <<which, vars, healVars, driveVars, mrfVars, eventVars, timeoutVars, bucketVars>>

ClusterInit ==
  /\ which \in {"locker", "sequences", "stops", "drive", "mrf", "events", "timeout", "buckets"}
  /\ Init /\ HealInit /\ DriveInit /\ MRFInit /\ EventInit /\ TimeoutInit
  /\ BucketInit /\ (which # "buckets" => "make" \in mix)

\* The components that do not run keep still.
OthersStill ==
  /\ UNCHANGED which
  /\ which # "locker" => UNCHANGED vars
  /\ which \notin {"sequences", "stops"} => UNCHANGED healVars
  /\ which # "drive" => UNCHANGED driveVars
  /\ which # "mrf" => UNCHANGED mrfVars
  /\ which # "events" => UNCHANGED eventVars
  /\ which # "timeout" => UNCHANGED timeoutVars
  /\ which # "buckets" => UNCHANGED bucketVars

ClusterNext ==
  /\ \/ which = "locker" /\ Next
     \/ which = "sequences" /\ Serving!HealNext
     \/ which = "stops" /\ Stopping!HealNext
     \/ which = "drive" /\ DriveNext
     \/ which = "mrf" /\ MRFNext
     \/ which = "events" /\ EventNext
     \/ which = "timeout" /\ TimeoutNext
     \/ which = "buckets" /\ BucketNext
  /\ OthersStill

ClusterSpec == ClusterInit /\ [][ClusterNext]_clusterVars

AdminSymmetry == Permutations(Admins)

\* The type invariants of the components: what their variables range over in
\* the states their handlers reach.
ClusterTypeOK ==
  /\ TypeOK /\ HealTypeOK /\ DriveTypeOK /\ MRFTypeOK
  /\ EventTypeOK /\ TimeoutTypeOK /\ BucketTypeOK
=============================================================================
