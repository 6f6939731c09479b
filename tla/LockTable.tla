----------------------------- MODULE LockTable ------------------------------
(* What one lock node promises (dsync.NetLocker): for every resource, how     *)
(* many entries each UID has.  A grant adds one on all the resources of the   *)
(* UID, and needs them free, or free of writers; nothing else adds entries,   *)
(* and entries may go at any time.  Dsync relies on this of every node.       *)
EXTENDS Naturals

CONSTANTS UIDs, Writers, Resources,
          ResOf   \* the resources a UID locks together

VARIABLE count

Init == count = [r \in Resources |-> [u \in UIDs |-> 0]]

Free(r) == \A u \in UIDs : count[r][u] = 0
NoWriter(r) == \A u \in Writers : count[r][u] = 0

Grant(u) ==
  /\ \A r \in ResOf[u] : IF u \in Writers THEN Free(r) ELSE NoWriter(r)
  /\ count' = [r \in Resources |->
                 IF r \in ResOf[u] THEN [count[r] EXCEPT ![u] = @ + 1] ELSE count[r]]

\* A release, an expiry, a forced unlock.
Forget ==
  /\ \A r \in Resources, u \in UIDs : count'[r][u] <= count[r][u]
  /\ count' = [r \in Resources |-> [u \in UIDs |-> count'[r][u]]]

Next == Forget \/ \E u \in UIDs : Grant(u)

Spec == Init /\ [][Next]_count
=============================================================================
