------------------------------- MODULE NSLock -------------------------------
(* The namespace lock of a single-node deployment: cmd/namespace-lock.go      *)
(* (nsLockMap, localLockInstance) over the in-process read/write mutex of     *)
(* pkg/lsync.  An nsLock lives in the map while somebody refers to it; the    *)
(* reference is taken under lockMapMutex, the lock itself is awaited outside  *)
(* of it, so a waiter keeps a pointer to an object that others may delete.    *)
(* Each critical section of lockMapMutex is one action.                       *)
EXTENDS Integers, FiniteSets

CONSTANTS Procs,    \* goroutines, each with one localLockInstance at a time
          Paths,    \* resources of one volume, ordered as sort.Strings orders them
          Objs,     \* heap identities of nsLock objects
          NoObj     \* the nil pointer

ASSUME ConstantsAssumption ==
  /\ IsFiniteSet(Procs)
  /\ Paths \subseteq Nat
  /\ Paths # {}
  /\ NoObj \notin Objs

VARIABLES lockMap,   \* nsLockMap.lockMap
          heap,      \* the nsLock objects: ref, and LRWMutex.ref / isWriteLock
          pc,        \* where each goroutine is in GetLock/GetRLock/Unlock/RUnlock
          readLock,  \* the readLock constant of the call in progress
          paths,     \* li.paths
          held,      \* the paths with success[i] = 1, or still to be unlocked
          cur,       \* the path nsLockMap.lock is working on
          ptr        \* its local variable nsLk

vars == <<lockMap, heap, pc, readLock, paths, held, cur, ptr>>

AnyPath == CHOOSE r \in Paths : TRUE   \* value of cur outside nsLockMap.lock

PCs == {"idle", "next", "wait", "failed", "rollback", "locked", "unlock", "panic"}

\* A new nsLock with its first reference, its mutex free.
NewLock == [ref |-> 1, lref |-> 0, w |-> FALSE]

\* Type invariant of nsLockMap and its mutexes; no count goes below zero.
TypeOK ==
  /\ lockMap \in [Paths -> Objs \cup {NoObj}]
  /\ heap \in [Objs -> [ref : Nat, lref : Nat, w : BOOLEAN]]
  /\ pc \in [Procs -> PCs]
  /\ readLock \in [Procs -> BOOLEAN]
  /\ paths \in [Procs -> SUBSET Paths]
  /\ held \in [Procs -> SUBSET Paths]
  /\ cur \in [Procs -> Paths]
  /\ ptr \in [Procs -> Objs \cup {NoObj}]

Init ==
  /\ lockMap = [r \in Paths |-> NoObj]
  /\ heap = [o \in Objs |-> NewLock]
  /\ pc = [p \in Procs |-> "idle"]
  /\ readLock = [p \in Procs |-> FALSE]
  /\ paths = [p \in Procs |-> {}]
  /\ held = [p \in Procs |-> {}]
  /\ cur = [p \in Procs |-> AnyPath]
  /\ ptr = [p \in Procs |-> NoObj]

-----------------------------------------------------------------------------
(* pkg/lsync/lrwmutex.go *)

\* Mutant of CanLock: a writer does not look at the readers.
CanLockNoReaderCheck(l, rd) == ~l.w

\* LRWMutex.lock: may the mutex l be taken for reading (rd) or writing?
CanLock(l, rd) == IF rd THEN ~l.w ELSE l.lref = 0 /\ ~l.w

AfterLock(l, rd) ==
  IF rd THEN [l EXCEPT !.lref = @ + 1] ELSE [ref |-> l.ref, lref |-> 1, w |-> TRUE]

\* LRWMutex.unlock: does it find a lock of that kind to release?
CanUnlock(l, rd) == IF rd THEN ~l.w /\ l.lref > 0 ELSE l.w /\ l.lref = 1

AfterUnlock(l, rd) ==
  IF rd THEN [l EXCEPT !.lref = @ - 1] ELSE [ref |-> l.ref, lref |-> 0, w |-> FALSE]

-----------------------------------------------------------------------------
(* cmd/namespace-lock.go *)

\* Mutant of IsFirst: NewNSLock without sort.Strings.
IsFirstUnsorted(r, S) == r \in S

\* The loops over li.paths follow the sorted order.
IsFirst(r, S) == r \in S /\ \A s \in S : r <= s

\* Mutant of TakeRef: a goroutine that finds the entry is not counted.
TakeRefUncounted(l) == l

\* nsLk.ref++
TakeRef(l) == [l EXCEPT !.ref = @ + 1]

\* Mutants of DropRef: the entry is never deleted; ref-- happens twice; the
\* entry is deleted one reference too early.
DropRefKeepsEntry(r, o, l) ==
  /\ heap' = [heap EXCEPT ![o] = [l EXCEPT !.ref = @ - 1]]
  /\ UNCHANGED lockMap
\* n.lockMap[r].ref--, and the entry leaves the map with its last reference.
DropRef(r, o, l) ==
  /\ heap' = [heap EXCEPT ![o] = [l EXCEPT !.ref = @ - 1]]
  /\ lockMap' = IF l.ref - 1 = 0 THEN [lockMap EXCEPT ![r] = NoObj] ELSE lockMap

\* NewNSLock, and GetLock or GetRLock called on the instance.
GetLock(p, S, rd) ==
  /\ pc[p] = "idle"
  /\ S # {}
  /\ pc' = [pc EXCEPT ![p] = "next"]
  /\ paths' = [paths EXCEPT ![p] = S]
  /\ readLock' = [readLock EXCEPT ![p] = rd]
  /\ UNCHANGED <<lockMap, heap, held, cur, ptr>>

\* nsLockMap.lock up to the end of its first critical section: find or create
\* the nsLock and count this goroutine among its users.
LockRef(p, r) ==
  /\ pc[p] = "next"
  /\ IsFirst(r, paths[p] \ held[p])
  /\ \E o \in Objs :
       /\ IF lockMap[r] # NoObj
            THEN /\ o = lockMap[r]
                 /\ heap' = [heap EXCEPT ![o] = TakeRef(@)]
            ELSE /\ \A s \in Paths : lockMap[s] # o
                 /\ \A q \in Procs : ptr[q] # o
                 /\ heap' = [heap EXCEPT ![o] = NewLock]
       /\ lockMap' = [lockMap EXCEPT ![r] = o]
       /\ ptr' = [ptr EXCEPT ![p] = o]
  /\ cur' = [cur EXCEPT ![p] = r]
  /\ pc' = [pc EXCEPT ![p] = "wait"]
  /\ UNCHANGED <<readLock, paths, held>>

\* A turn of LRWMutex.lockLoop that gets the lock; one that does not changes
\* nothing.  The last path makes the caller the owner of the whole instance.
LockTaken(p) ==
  /\ pc[p] = "wait"
  /\ CanLock(heap[ptr[p]], readLock[p])
  /\ heap' = [heap EXCEPT ![ptr[p]] = AfterLock(@, readLock[p])]
  /\ held' = [held EXCEPT ![p] = @ \cup {cur[p]}]
  /\ pc' = [pc EXCEPT ![p] = IF held[p] \cup {cur[p]} = paths[p] THEN "locked" ELSE "next"]
  /\ ptr' = [ptr EXCEPT ![p] = NoObj]
  /\ cur' = [cur EXCEPT ![p] = AnyPath]
  /\ UNCHANGED <<lockMap, readLock, paths>>

\* retryCtx.Done(): the caller's context is cancelled or the timeout passed.
LockTimeout(p) ==
  /\ pc[p] = "wait"
  /\ pc' = [pc EXCEPT ![p] = "failed"]
  /\ UNCHANGED <<lockMap, heap, readLock, paths, held, cur, ptr>>

\* The second critical section of nsLockMap.lock.  It goes through the map, not
\* through nsLk: a missing entry is a nil dereference.
LockFailed(p) ==
  /\ pc[p] = "failed"
  /\ ptr' = [ptr EXCEPT ![p] = NoObj]
  /\ cur' = [cur EXCEPT ![p] = AnyPath]
  /\ LET r == cur[p]
         o == lockMap[r]
     IN IF o = NoObj
          THEN pc' = [pc EXCEPT ![p] = "panic"] /\ UNCHANGED <<lockMap, heap>>
          ELSE pc' = [pc EXCEPT ![p] = "rollback"] /\ DropRef(r, o, heap[o])
  /\ UNCHANGED <<readLock, paths, held>>

\* nsLockMap.unlock of one path: nothing to do when the map has no entry, a
\* panic when the mutex is not locked that way.
UnlockPath(p, r) ==
  /\ held' = [held EXCEPT ![p] = @ \ {r}]
  /\ LET o == lockMap[r]
     IN IF o = NoObj
          THEN UNCHANGED <<lockMap, heap, pc>>
        ELSE IF CanUnlock(heap[o], readLock[p])
          THEN DropRef(r, o, AfterUnlock(heap[o], readLock[p])) /\ UNCHANGED pc
          ELSE pc' = [pc EXCEPT ![p] = "panic"] /\ UNCHANGED <<lockMap, heap>>
  /\ UNCHANGED <<readLock, paths, cur, ptr>>

\* GetLock gives back the paths it already holds when a later one times out.
Rollback(p, r) ==
  /\ pc[p] = "rollback"
  /\ IsFirst(r, held[p])
  /\ UnlockPath(p, r)

\* Unlock / RUnlock called by the owner, and their loop over the paths.
Unlock(p) ==
  /\ pc[p] = "locked"
  /\ pc' = [pc EXCEPT ![p] = "unlock"]
  /\ UNCHANGED <<lockMap, heap, readLock, paths, held, cur, ptr>>

UnlockNext(p, r) ==
  /\ pc[p] = "unlock"
  /\ IsFirst(r, held[p])
  /\ UnlockPath(p, r)

Return(p) ==
  /\ pc[p] \in {"rollback", "unlock"}
  /\ held[p] = {}
  /\ pc' = [pc EXCEPT ![p] = "idle"]
  /\ paths' = [paths EXCEPT ![p] = {}]
  /\ UNCHANGED <<lockMap, heap, readLock, held, cur, ptr>>

-----------------------------------------------------------------------------
Call(p) == \E S \in SUBSET Paths, rd \in BOOLEAN : GetLock(p, S, rd)

\* What a goroutine does by itself once it has called GetLock.
Step(p) ==
  \/ \E r \in Paths : LockRef(p, r) \/ Rollback(p, r) \/ UnlockNext(p, r)
  \/ LockTaken(p)
  \/ LockFailed(p)
  \/ Unlock(p)
  \/ Return(p)

Next == \E p \in Procs : Call(p) \/ Step(p) \/ LockTimeout(p)

Spec == Init /\ [][Next]_vars

\* Goroutines keep running and owners unlock; timeouts may or may not fire.
FairSpec == Spec /\ \A p \in Procs : WF_vars(Step(p))

-----------------------------------------------------------------------------
(* Properties *)

\* The goroutines that count as users of path r.
Users(r) == {p \in Procs : r \in held[p] \/ (ptr[p] # NoObj /\ cur[p] = r)}

Holders(r) == {p \in Procs : r \in held[p]}

\* Two goroutines that hold the same path both hold it for reading, whatever
\* deletions and re-creations of the map entry happened in between.
MutualExclusion ==
  \A p, q \in Procs : p # q /\ held[p] \cap held[q] # {} => readLock[p] /\ readLock[q]

\* No unlock panics and the reference count code never meets a missing entry.
NoPanic == \A p \in Procs : pc[p] # "panic"

\* ref counts exactly the goroutines that wait for or hold the path, so the
\* entry leaves the map when, and only when, the last of them is gone: no leak,
\* and no deletion under a waiter.
RefCountExact ==
  \A r \in Paths :
    IF lockMap[r] = NoObj THEN Users(r) = {}
    ELSE heap[lockMap[r]].ref = Cardinality(Users(r)) /\ Users(r) # {}

\* The object a goroutine blocks on is the one later goroutines will find in
\* the map for that path: they all exclude each other on one mutex.
WaitsOnMapEntry == \A p \in Procs : ptr[p] # NoObj => lockMap[cur[p]] = ptr[p]

\* As long as somebody waits, somebody gets its whole set of paths or gives up:
\* without timeouts the sorted acquisition of NewNSLock leaves no circular wait.
SomeoneGetsLock ==
  (\E p \in Procs : pc[p] \in {"next", "wait"}) ~> (\E p \in Procs : pc[p] \in {"locked", "failed"})
=============================================================================
