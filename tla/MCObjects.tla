----------------------------- MODULE MCObjects ------------------------------
(* What is kept of one object: its journal on a drive (XLMetaV2), its move to *)
(* a tier (Transition), multipart uploads of it (Multipart), its replication  *)
(* (Replication), its file and fs.json in the file-system backend (FSObject), *)
(* a read of its shards (DegradedRead) and its place among the server pools   *)
(* (ServerPools).  The components do not interact; a behaviour is one of any  *)
(* of them, chosen in the initial state, and the others keep still.           *)
EXTENDS XLMetaV2, Transition, Multipart, Replication, FSObject, DegradedRead, ServerPools, FiniteSetsExt

VARIABLE which   \* the component that runs

objectsVars == <<which, xlVars, tierVars, mpVars, repVars, fsVars, readVars, poolVars>>

\* A component that does not run starts in a given one of its initial states.
ObjectsInit ==
  /\ which \in {"journal", "tier", "multipart", "replication", "file", "read", "pools"}
  /\ XLInit /\ (which # "journal" => mode = "off")
  /\ MPInit /\ (which # "multipart" => versioned)
  /\ FSInit /\ (which # "file" => fileData = 0)
  /\ PoolInit /\ (which # "pools" => /\ Holders = {} /\ deployment = [sharedLockers |-> TRUE, versioned |-> TRUE]
                                     /\ \A p \in Pools : free[p] = Max(FirstFree))
  /\ ReadInit /\ (which # "read" => online = Positions /\ ~prefer[1] /\ \A p \in 1..NParts : Sick(p) = {})
  /\ TierInit /\ RepInit

\* The components that do not run keep still.
OthersStill ==
  /\ UNCHANGED which
  /\ which # "journal" => UNCHANGED xlVars
  /\ which # "tier" => UNCHANGED tierVars
  /\ which # "multipart" => UNCHANGED mpVars
  /\ which # "replication" => UNCHANGED repVars
  /\ which # "file" => UNCHANGED fsVars
  /\ which # "read" => UNCHANGED readVars
  /\ which # "pools" => UNCHANGED poolVars

ObjectsNext ==
  /\ \/ which = "journal" /\ XLNext
     \/ which = "tier" /\ TierNext
     \/ which = "multipart" /\ MPNext
     \/ which = "replication" /\ RepNext
     \/ which = "file" /\ FSNext
     \/ which = "read" /\ ReadNext
     \/ which = "pools" /\ PoolNext
  /\ OthersStill

ObjectsSpec == ObjectsInit /\ [][ObjectsNext]_objectsVars

\* The type invariants of the seven components: what their variables range over
\* in the states their handlers reach.
ObjectsTypeOK ==
  XLTypeOK /\ TierTypeOK /\ MPTypeOK /\ RepTypeOK /\ FSTypeOK /\ ReadTypeOK /\ PoolTypeOK
=============================================================================
