---------------------------- MODULE LocalLocker -----------------------------
(* One lock node: cmd/local-locker.go, with the maintenance loop that expires *)
(* entries.  A resource maps to the slice of its entries in order of arrival; *)
(* <<>> stands for a resource that is not in the map.  Calls arrive in any    *)
(* order and any number of times, as the clients in Dsync send them.          *)
EXTENDS Integers, Sequences, FiniteSets, SequencesExt

CONSTANTS UIDs, Writers, Resources,
          ResOf,      \* UID -> the resources of its lock
          FirstOf,    \* UID -> args.Resources[0]
          MaxEntries  \* bound: entries of one resource

ASSUME LockerAssumption ==
  /\ Writers \subseteq UIDs
  /\ ResOf \in [UIDs -> SUBSET Resources]
  /\ \A u \in UIDs : FirstOf[u] \in ResOf[u] /\ (u \notin Writers => ResOf[u] = {FirstOf[u]})

VARIABLES lockMap,
          fresh   \* history: UIDs granted or refreshed within the last interval

vars == <<lockMap, fresh>>

\* stale: TimeLastRefresh is more than lockValidityDuration ago.
Entry == [uid : UIDs, stale : BOOLEAN]

\* A slice holds the entry of one writer or entries of readers.
TypeOK ==
  /\ \A r \in Resources :
       /\ lockMap[r] \in Seq(Entry)
       /\ \A i \in DOMAIN lockMap[r] : lockMap[r][i].uid \in Writers => Len(lockMap[r]) = 1
  /\ fresh \subseteq UIDs

Init == lockMap = [r \in Resources |-> <<>>] /\ fresh = {}

-----------------------------------------------------------------------------
IsWriteLock(s) == Len(s) = 1 /\ s[1].uid \in Writers

NewEntry(u) == [uid |-> u, stale |-> FALSE]

\* removeEntry: the first entry of the UID.
RemoveEntry(s, u) ==
  LET i == SelectInSeq(s, LAMBDA e : e.uid = u) IN IF i = 0 THEN s ELSE RemoveAt(s, i)

\* Mutant of CanTakeLock: only the first resource is looked at.
CanTakeLockFirst(u) == lockMap[FirstOf[u]] = <<>>

CanTakeLock(u) == \A r \in ResOf[u] : lockMap[r] = <<>>

CanTakeUnlock(u) == \A r \in ResOf[u] : IsWriteLock(lockMap[r])

Lock(u) ==
  /\ u \in Writers
  /\ CanTakeLock(u)
  /\ lockMap' = [r \in Resources |-> IF r \in ResOf[u] THEN <<NewEntry(u)>> ELSE lockMap[r]]
  /\ fresh' = fresh \cup {u}

Unlock(u) ==
  /\ u \in Writers
  /\ CanTakeUnlock(u)
  /\ lockMap' = [r \in Resources |-> IF r \in ResOf[u] THEN RemoveEntry(lockMap[r], u) ELSE lockMap[r]]
  /\ UNCHANGED fresh

RLock(u) ==
  /\ u \notin Writers
  /\ ~IsWriteLock(lockMap[FirstOf[u]])
  /\ Len(lockMap[FirstOf[u]]) < MaxEntries
  /\ lockMap' = [lockMap EXCEPT ![FirstOf[u]] = Append(@, NewEntry(u))]
  /\ fresh' = fresh \cup {u}

RUnlock(u) ==
  /\ u \notin Writers
  /\ ~IsWriteLock(lockMap[FirstOf[u]])
  /\ lockMap' = [lockMap EXCEPT ![FirstOf[u]] = RemoveEntry(@, u)]
  /\ UNCHANGED fresh

ForceUnlock(R) ==
  /\ lockMap' = [r \in Resources |-> IF r \in R THEN <<>> ELSE lockMap[r]]
  /\ UNCHANGED fresh

\* Refresh answers TRUE: the first entry of the UID on the first resource.
Refresh(u) ==
  LET r == FirstOf[u]
      i == SelectInSeq(lockMap[r], LAMBDA e : e.uid = u)
  IN /\ i # 0
     /\ lockMap' = [lockMap EXCEPT ![r] = [@ EXCEPT ![i] = NewEntry(u)]]
     /\ fresh' = fresh \cup {u}

-----------------------------------------------------------------------------
(* expireOldLocks.  The loop ranges over the slice as it was, whose array the *)
(* removals shift in place: st.arr is the array, its first st.len elements    *)
(* the slice lris, and st.gone says that the map entry was deleted.           *)

Shift(st, k) ==
  [st EXCEPT !.arr = [j \in DOMAIN st.arr |-> IF k <= j /\ j < st.len THEN st.arr[j + 1] ELSE st.arr[j]],
             !.len = @ - 1]

\* One turn of the loop: removeEntry with the UID found at position i.
ExpireEntry(st, i) ==
  LET k == SelectInSeq(SubSeq(st.arr, 1, st.len), LAMBDA e : e.uid = st.arr[i].uid)
  IN IF ~st.arr[i].stale \/ k = 0 THEN st
     ELSE IF st.len = 1 THEN [st EXCEPT !.gone = TRUE]
     ELSE Shift(st, k)

Expired(s) ==
  LET end == FoldLeftDomain(ExpireEntry, [arr |-> s, len |-> Len(s), gone |-> FALSE], s)
  IN IF end.gone THEN <<>> ELSE SubSeq(end.arr, 1, end.len)

ExpireOldLocks ==
  /\ lockMap' = [r \in Resources |-> Expired(lockMap[r])]
  /\ UNCHANGED fresh

\* lockValidityDuration passes without a call.
Tick ==
  /\ lockMap' = [r \in Resources |-> [i \in DOMAIN lockMap[r] |-> [lockMap[r][i] EXCEPT !.stale = TRUE]]]
  /\ fresh' = {}

Next ==
  \/ \E u \in UIDs : Lock(u) \/ Unlock(u) \/ RLock(u) \/ RUnlock(u) \/ Refresh(u)
  \/ \E R \in SUBSET Resources : ForceUnlock(R)
  \/ ExpireOldLocks
  \/ Tick

Spec == Init /\ [][Next]_vars

-----------------------------------------------------------------------------
(* Properties *)

Holds(s, u) == \E i \in DOMAIN s : s[i].uid = u

\* Abstractly, a node counts the entries of each UID.
Table == INSTANCE LockTable WITH
  count <- [r \in Resources |-> [u \in UIDs |-> Cardinality({i \in DOMAIN lockMap[r] : lockMap[r][i].uid = u})]]

\* The node keeps the promises Dsync builds on: group locks are granted whole
\* or not at all and never over an entry they exclude, and the removals that
\* shift slices in place, the expiry loop's included, add no entry.
IsLockTable == Table!Spec

\* A release leaves the entries of the other UIDs alone, also when a resource
\* of a group lock has meanwhile expired and been locked by somebody else.
ReleaseKeepsOthers ==
  [][\A r \in Resources : \A i \in DOMAIN lockMap[r] :
       \A u \in UIDs \ {lockMap[r][i].uid} :
         Unlock(u) \/ RUnlock(u) => \E j \in DOMAIN lockMap'[r] : lockMap'[r][j] = lockMap[r][i]]_vars

\* A UID whose single entry on a resource is not stale keeps it when the other
\* entries of the slice expire around it.
FreshEntryKept ==
  \A r \in Resources : \A i \in DOMAIN lockMap[r] :
    LET u == lockMap[r][i].uid
    IN ~lockMap[r][i].stale /\ (\A j \in DOMAIN lockMap[r] \ {i} : lockMap[r][j].uid # u)
         => Holds(Expired(lockMap[r]), u)

\* Every pass of the expiry loop over a slice with stale entries removes one,
\* though not all: the loop skips the entry after each one it removes.
ExpiryProgress ==
  \A r \in Resources :
    (\E i \in DOMAIN lockMap[r] : lockMap[r][i].stale) => Len(Expired(lockMap[r])) < Len(lockMap[r])

\* A pass of expireOldLocks over a slice that it shifts while it ranges over it
\* drops no fresh entry and at least one stale one.
ExpirySound == FreshEntryKept /\ ExpiryProgress

\* A granted lock is kept: the table implements LockTable through all its handlers,
\* a release leaves the locks of others alone, and so does a pass of the expiry.
LocksKept == IsLockTable /\ ReleaseKeepsOthers /\ []ExpirySound

\* A lock that was granted or refreshed within the interval survives a pass on
\* all of its resources.
RefreshedLockKept ==
  \A u \in fresh : \A r \in ResOf[u] : Holds(lockMap[r], u) => Holds(Expired(lockMap[r]), u)
=============================================================================
