---------------------------- MODULE QueueProofs -----------------------------
(* TLAPS proofs about what a server counts in shared memory: the namespace    *)
(* locks (NSLock), the list of recently failed writes (MRF), the store of     *)
(* events that a target did not take (EventStore), and timeouts that adapt    *)
(* (DynamicTimeout).                                                          *)
EXTENDS MRF, EventStore, DynamicTimeout, NSLock, FiniteSetTheorems, TLAPS

(* Zenon is the default prover here; the steps that need arithmetic or the    *)
(* theory of functions and records cite SMT.                                  *)
USE Zenon

-----------------------------------------------------------------------------
(* The namespace locks of a server.  The inductive invariant ties the map,    *)
(* the reference counts and the mutex words to what the goroutines do.        *)

\* What the program counter says about the other local variables.
PhaseOK ==
  \A p \in Procs :
    /\ pc[p] # "panic"
    /\ pc[p] \in {"wait", "failed"} <=> ptr[p] # NoObj
    /\ pc[p] \in {"wait", "failed"} => cur[p] \notin held[p]
    /\ pc[p] = "idle" => held[p] = {}

\* An nsLock is in the map under one path only.
MapInjective ==
  \A r, s \in Paths : lockMap[r] = lockMap[s] /\ lockMap[r] # NoObj => r = s

\* The mutex word agrees with the set of goroutines that hold the path.
WordOK(r) ==
  LET l == heap[lockMap[r]] IN
    lockMap[r] # NoObj =>
      /\ l.lref = Cardinality(Holders(r))
      /\ l.w => \E p \in Procs : Holders(r) = {p} /\ ~readLock[p]
      /\ ~l.w => \A p \in Holders(r) : readLock[p]

RefOK(r) ==
  IF lockMap[r] = NoObj THEN Users(r) = {}
  ELSE heap[lockMap[r]].ref = Cardinality(Users(r)) /\ Users(r) # {}

WordsOK == \A r \in Paths : WordOK(r)

IInv == TypeOK /\ PhaseOK /\ WaitsOnMapEntry /\ MapInjective /\ RefCountExact /\ WordsOK

-----------------------------------------------------------------------------
(* Finite sets of goroutines. *)

\* Every set of goroutines is finite and has a natural number of elements.
LEMMA ProcSetsFinite ==
  ASSUME NEW S \in SUBSET Procs
  PROVE  IsFiniteSet(S) /\ Cardinality(S) \in Nat
BY FS_Subset, FS_CardinalityType, ConstantsAssumption

\* One more goroutine counts one more.
LEMMA CardAdd ==
  ASSUME NEW S \in SUBSET Procs, NEW p \in Procs, p \notin S
  PROVE  Cardinality(S \cup {p}) = Cardinality(S) + 1
BY FS_AddElement, ProcSetsFinite

\* One goroutine less counts one less, and none is left exactly at zero.
LEMMA CardRemove ==
  ASSUME NEW S \in SUBSET Procs, NEW p \in S
  PROVE  /\ Cardinality(S \ {p}) = Cardinality(S) - 1
         /\ Cardinality(S) - 1 = 0 <=> S \ {p} = {}
<1>1. Cardinality(S \ {p}) = Cardinality(S) - 1
  BY FS_RemoveElement, ProcSetsFinite
<1>2. Cardinality(S \ {p}) = 0 <=> S \ {p} = {}
  BY FS_EmptySet, ProcSetsFinite
<1> QED BY <1>1, <1>2

\* A set that counts one element and contains p is {p}.
LEMMA CardOne ==
  ASSUME NEW p \in Procs
  PROVE  Cardinality({p}) = 1
BY FS_Singleton

-----------------------------------------------------------------------------
(* The nsLock record. *)

LockRec == [ref : Nat, lref : Nat, w : BOOLEAN]

\* Updating one field of an nsLock leaves the others alone.
LEMMA RecExcept ==
  ASSUME NEW l \in LockRec, NEW n \in Nat
  PROVE  /\ [l EXCEPT !.ref = n] \in LockRec
         /\ [l EXCEPT !.ref = n].ref = n
         /\ [l EXCEPT !.ref = n].lref = l.lref
         /\ [l EXCEPT !.ref = n].w = l.w
BY DEF LockRec

\* Taking a reference changes nothing but the count.
LEMMA TakeRefRec ==
  ASSUME NEW l \in LockRec
  PROVE  /\ TakeRef(l) \in LockRec
         /\ TakeRef(l).ref = l.ref + 1
         /\ TakeRef(l).lref = l.lref
         /\ TakeRef(l).w = l.w
<1>1. l.ref + 1 \in Nat
  BY SMT DEF LockRec
<1> QED BY <1>1, RecExcept DEF TakeRef

\* LRWMutex.lock changes the mutex and not the reference count.
LEMMA AfterLockRec ==
  ASSUME NEW l \in LockRec, NEW rd \in BOOLEAN
  PROVE  /\ AfterLock(l, rd) \in LockRec
         /\ AfterLock(l, rd).ref = l.ref
         /\ AfterLock(l, rd).lref = IF rd THEN l.lref + 1 ELSE 1
         /\ AfterLock(l, rd).w = IF rd THEN l.w ELSE TRUE
<1>1. CASE rd
  BY SMT, <1>1 DEF LockRec, AfterLock
<1>2. CASE ~rd
  BY <1>2 DEF LockRec, AfterLock
<1> QED BY <1>1, <1>2

\* LRWMutex.unlock changes the mutex and not the reference count.
LEMMA AfterUnlockRec ==
  ASSUME NEW l \in LockRec, NEW rd \in BOOLEAN, CanUnlock(l, rd)
  PROVE  /\ AfterUnlock(l, rd) \in LockRec
         /\ AfterUnlock(l, rd).ref = l.ref
         /\ AfterUnlock(l, rd).lref = IF rd THEN l.lref - 1 ELSE 0
         /\ AfterUnlock(l, rd).w = IF rd THEN l.w ELSE FALSE
<1>1. CASE rd
  <2>1. l.lref - 1 \in Nat
    BY SMT, <1>1 DEF LockRec, CanUnlock
  <2> QED BY <1>1, <2>1 DEF LockRec, AfterUnlock
<1>2. CASE ~rd
  BY <1>2 DEF LockRec, AfterUnlock
<1> QED BY <1>1, <1>2

-----------------------------------------------------------------------------
\* The idle value of cur is a path.
LEMMA AnyPathType == AnyPath \in Paths
BY ConstantsAssumption DEF AnyPath

\* The initial states satisfy the inductive invariant.
LEMMA InitIInv == Init => IInv
<1> SUFFICES ASSUME Init PROVE IInv
  OBVIOUS
<1>1. TypeOK
  BY AnyPathType DEF Init, TypeOK, NewLock, PCs
<1>2. PhaseOK /\ WaitsOnMapEntry /\ MapInjective
  BY DEF Init, PhaseOK, WaitsOnMapEntry, MapInjective
<1>3. RefCountExact /\ WordsOK
  BY DEF Init, RefCountExact, WordsOK, WordOK, Users, Holders
<1> QED BY <1>1, <1>2, <1>3 DEF IInv

\* Actions that touch neither the map, the heap nor what is held or awaited.
LEMMA LocalStep ==
  ASSUME IInv, NEW p \in Procs,
         UNCHANGED <<lockMap, heap, held, cur, ptr>>,
         \A q \in Procs \ {p} : readLock'[q] = readLock[q],
         held[p] = {} \/ readLock'[p] = readLock[p]
  PROVE  (WaitsOnMapEntry /\ MapInjective /\ RefCountExact /\ WordsOK)'
<1>1. \A r : Users(r)' = Users(r) /\ Holders(r)' = Holders(r)
  BY DEF Users, Holders
<1>2. (WaitsOnMapEntry /\ MapInjective /\ RefCountExact)'
  BY <1>1 DEF IInv, WaitsOnMapEntry, MapInjective, RefCountExact
<1>3. \A r : \A q \in Holders(r) : readLock'[q] = readLock[q]
  BY DEF Holders
<1>4. WordsOK'
  BY ZenonT(40), <1>1, <1>3 DEF IInv, WordsOK, WordOK
<1> QED BY <1>2, <1>4
-----------------------------------------------------------------------------
(* One lemma per action that changes the map or the heap. *)

\* Taking a reference: the entry found, or a fresh one, counts p as well.
LEMMA LockRefIInv ==
  ASSUME IInv, NEW p \in Procs, NEW r \in Paths, LockRef(p, r)
  PROVE  IInv'
<1> USE DEF IInv
<1>1. PICK o \in Objs :
        /\ IF lockMap[r] # NoObj
             THEN /\ o = lockMap[r]
                  /\ heap' = [heap EXCEPT ![o] = TakeRef(@)]
             ELSE /\ \A s \in Paths : lockMap[s] # o
                  /\ \A q \in Procs : ptr[q] # o
                  /\ heap' = [heap EXCEPT ![o] = NewLock]
        /\ lockMap' = [lockMap EXCEPT ![r] = o]
        /\ ptr' = [ptr EXCEPT ![p] = o]
  BY DEF LockRef
<1>2. /\ pc[p] = "next" /\ pc' = [pc EXCEPT ![p] = "wait"]
      /\ cur' = [cur EXCEPT ![p] = r] /\ r \notin held[p]
      /\ UNCHANGED <<readLock, paths, held>>
  BY DEF LockRef, IsFirst
<1>3. o # NoObj /\ ptr[p] = NoObj
  BY <1>2, ConstantsAssumption DEF PhaseOK
<1>4. TypeOK'
  <2>1. heap[o] \in LockRec
    BY DEF TypeOK, LockRec
  <2>2. NewLock \in LockRec
    BY DEF NewLock, LockRec
  <2>3. heap' \in [Objs -> LockRec]
    <3>1. TakeRef(heap[o]) \in LockRec
      BY <2>1, TakeRefRec
    <3>2. heap \in [Objs -> LockRec]
      BY DEF TypeOK, LockRec
    <3> QED BY <2>2, <3>1, <3>2, <1>1
  <2> QED BY <2>3, <1>1, <1>2 DEF TypeOK, PCs, LockRec
<1>5. PhaseOK'
  BY <1>1, <1>2, <1>3 DEF PhaseOK, TypeOK
<1>6. MapInjective'
  BY <1>1 DEF MapInjective, TypeOK
<1>7. WaitsOnMapEntry'
  <2> SUFFICES ASSUME NEW q \in Procs, ptr'[q] # NoObj PROVE lockMap'[cur'[q]] = ptr'[q]
    BY DEF WaitsOnMapEntry
  <2>1. CASE q = p
    BY <2>1, <1>1, <1>2 DEF TypeOK
  <2>2. CASE q # p
    <3>1. ptr[q] # NoObj /\ lockMap[cur[q]] = ptr[q] /\ cur'[q] = cur[q] /\ ptr'[q] = ptr[q]
      BY <2>2, <1>1, <1>2 DEF WaitsOnMapEntry, TypeOK
    <3> QED BY ZenonT(40), <3>1, <1>1 DEF TypeOK
  <2> QED BY <2>1, <2>2
<1>8. /\ Users(r)' = Users(r) \cup {p} /\ p \notin Users(r)
      /\ \A s \in Paths \ {r} : Users(s)' = Users(s)
      /\ \A s \in Paths : Holders(s)' = Holders(s)
  BY SMT, <1>1, <1>2, <1>3 DEF Users, Holders, TypeOK
<1>9. \A s \in Paths \ {r} : lockMap'[s] = lockMap[s] /\ (lockMap[s] # NoObj => heap'[lockMap[s]] = heap[lockMap[s]])
  BY SMT, <1>1 DEF MapInjective, TypeOK
<1>10. RefCountExact'
  <2>1. Users(r) \subseteq Procs
    BY DEF Users
  <2>2. Cardinality(Users(r)') = Cardinality(Users(r)) + 1
    BY <2>1, <1>8, CardAdd
  <2>3. lockMap[r] = NoObj => Cardinality(Users(r)) = 0
    BY FS_EmptySet DEF RefCountExact
  <2>4. heap'[lockMap'[r]].ref = Cardinality(Users(r)')
    <3>1. CASE lockMap[r] # NoObj
      <4>1. heap'[lockMap'[r]] = TakeRef(heap[o]) /\ heap[o] \in LockRec
        BY <3>1, <1>1 DEF TypeOK, LockRec
      <4>2. heap[o].ref = Cardinality(Users(r))
        BY <3>1, <1>1 DEF RefCountExact
      <4> QED BY <4>1, <4>2, <2>2, TakeRefRec
    <3>2. CASE lockMap[r] = NoObj
      BY SMT, <3>2, <2>2, <2>3, <1>1 DEF NewLock, TypeOK
    <3> QED BY <3>1, <3>2
  <2>5. \A s \in Paths \ {r} :
          IF lockMap'[s] = NoObj THEN Users(s)' = {}
          ELSE heap'[lockMap'[s]].ref = Cardinality(Users(s)') /\ Users(s)' # {}
    BY SMT, <1>8, <1>9 DEF RefCountExact
  <2>6. lockMap'[r] # NoObj /\ Users(r)' # {}
    BY <1>1, <1>3, <1>8 DEF TypeOK
  <2> QED BY <2>4, <2>5, <2>6 DEF RefCountExact
<1>11. WordsOK'
  <2>1. \A s \in Paths \ {r} : WordOK(s)'
    BY SMT, <1>8, <1>9, <1>2 DEF WordsOK, WordOK
  <2>2. CASE lockMap[r] # NoObj
    <3>1. /\ heap'[lockMap'[r]].lref = heap[lockMap[r]].lref
          /\ heap'[lockMap'[r]].w = heap[lockMap[r]].w
      <4>1. heap'[lockMap'[r]] = TakeRef(heap[o]) /\ heap[o] \in LockRec
        BY <2>2, <1>1 DEF TypeOK, LockRec
      <4> QED BY ZenonT(40), <4>1, <2>2, <1>1, TakeRefRec
    <3>2. WordOK(r)'
      BY <2>2, <3>1, <1>8, <1>2 DEF WordsOK, WordOK
    <3> QED BY <2>1, <3>2 DEF WordsOK
  <2>3. CASE lockMap[r] = NoObj
    <3>1. Holders(r) = {}
      BY <2>3 DEF RefCountExact, Users, Holders
    <3>2. heap'[lockMap'[r]] = NewLock
      BY <2>3, <1>1 DEF TypeOK
    <3>3. heap'[lockMap'[r]].lref = 0 /\ heap'[lockMap'[r]].w = FALSE
      BY SMT, <3>2 DEF NewLock
    <3>4. WordOK(r)'
      BY <3>1, <3>3, <1>8, FS_EmptySet DEF WordOK
    <3> QED BY <2>1, <3>4 DEF WordsOK
  <2> QED BY <2>2, <2>3
<1> QED BY <1>4, <1>5, <1>6, <1>7, <1>10, <1>11

\* Getting the mutex: p moves from the waiters of cur[p] to its holders.
LEMMA LockTakenIInv ==
  ASSUME IInv, NEW p \in Procs, LockTaken(p)
  PROVE  IInv'
<1> USE DEF IInv
<1>0. PICK r \in Paths, o \in Objs : r = cur[p] /\ o = ptr[p]
  BY DEF LockTaken, PhaseOK, TypeOK
<1>1. pc[p] = "wait" /\ o = lockMap[r] /\ o # NoObj /\ r \notin held[p]
  BY <1>0 DEF LockTaken, PhaseOK, WaitsOnMapEntry, TypeOK
<1>2. /\ heap' = [heap EXCEPT ![o] = AfterLock(@, readLock[p])]
      /\ CanLock(heap[o], readLock[p])
      /\ held' = [held EXCEPT ![p] = @ \cup {r}]
      /\ pc' = [pc EXCEPT ![p] = IF held[p] \cup {r} = paths[p] THEN "locked" ELSE "next"]
      /\ ptr' = [ptr EXCEPT ![p] = NoObj]
      /\ cur' = [cur EXCEPT ![p] = AnyPath]
      /\ UNCHANGED <<lockMap, readLock, paths>>
  BY <1>0, <1>1 DEF LockTaken
<1>3. heap[o] \in [ref : Nat, lref : Nat, w : BOOLEAN] /\ readLock[p] \in BOOLEAN
  BY <1>1 DEF TypeOK
<1>4. /\ heap'[o].ref = heap[o].ref
      /\ heap'[o].lref = IF readLock[p] THEN heap[o].lref + 1 ELSE 1
      /\ heap'[o].w = IF readLock[p] THEN heap[o].w ELSE TRUE
      /\ heap'[o] \in [ref : Nat, lref : Nat, w : BOOLEAN]
      /\ \A x \in Objs \ {o} : heap'[x] = heap[x]
  <2>1. heap'[o] = AfterLock(heap[o], readLock[p]) /\ \A x \in Objs \ {o} : heap'[x] = heap[x]
    BY <1>2 DEF TypeOK
  <2>2. heap[o] \in LockRec
    BY <1>3 DEF LockRec
  <2> DEFINE l == AfterLock(heap[o], readLock[p])
  <2>3. /\ l \in LockRec
        /\ l.ref = heap[o].ref
        /\ l.lref = IF readLock[p] THEN heap[o].lref + 1 ELSE 1
        /\ l.w = IF readLock[p] THEN heap[o].w ELSE TRUE
    BY <2>2, <1>3, AfterLockRec
  <2>4. heap'[o] = l
    BY <2>1
  <2> HIDE DEF l
  <2> QED BY <2>1, <2>3, <2>4 DEF LockRec
<1>5. TypeOK'
  BY ZenonT(40), <1>1, <1>2, <1>4, AnyPathType DEF TypeOK, PCs
<1>6. PhaseOK' /\ WaitsOnMapEntry' /\ MapInjective'
  BY ZenonT(40), <1>0, <1>1, <1>2 DEF PhaseOK, TypeOK, WaitsOnMapEntry, MapInjective
<1>7. /\ Holders(r)' = Holders(r) \cup {p} /\ p \notin Holders(r)
      /\ \A s \in Paths \ {r} : Holders(s)' = Holders(s)
      /\ \A s \in Paths : Users(s)' = Users(s)
  BY ZenonT(40), <1>0, <1>1, <1>2 DEF Users, Holders, TypeOK
<1>8. \A s \in Paths \ {r} : lockMap[s] # NoObj => heap'[lockMap[s]] = heap[lockMap[s]]
  BY ZenonT(40), <1>1, <1>4 DEF MapInjective, TypeOK
<1>9. RefCountExact'
  BY SMTT(30), <1>1, <1>2, <1>4, <1>7, <1>8 DEF RefCountExact
<1>10. WordsOK'
  <2>1. \A s \in Paths \ {r} : WordOK(s)'
    BY SMT, <1>2, <1>7, <1>8 DEF WordsOK, WordOK
  <2>2. Holders(r) \subseteq Procs
    BY DEF Holders
  <2>3. Cardinality(Holders(r)') = Cardinality(Holders(r)) + 1
    BY <2>2, <1>7, CardAdd
  <2>4. WordOK(r)
    BY <1>1 DEF WordsOK
  <2>5. CASE readLock[p]
    <3>1. ~heap[o].w
      BY <2>5, <1>2 DEF CanLock
    <3>2. WordOK(r)'
      BY <2>3, <2>4, <2>5, <3>1, <1>1, <1>2, <1>4, <1>7 DEF WordOK
    <3> QED BY <2>1, <3>2 DEF WordsOK
  <2>6. CASE ~readLock[p]
    <3>1. heap[o].lref = 0
      BY <2>6, <1>2 DEF CanLock
    <3>2. Holders(r) = {}
      BY <3>1, <2>4, <2>2, <1>1, FS_EmptySet, ProcSetsFinite DEF WordOK
    <3>3. Holders(r)' = {p}
      BY <3>2, <1>7
    <3>4. WordOK(r)'
      BY <3>3, <2>6, <1>1, <1>2, <1>4, CardOne DEF WordOK
    <3> QED BY <2>1, <3>4 DEF WordsOK
  <2> QED BY <2>5, <2>6
<1> QED BY <1>5, <1>6, <1>9, <1>10

\* Dropping one reference of path r, after which p is no longer a user of it:
\* common to the failed attempt, the rollback and the unlock.
LEMMA DropRefPreserves ==
  ASSUME IInv, NEW p \in Procs, NEW r \in Paths, NEW l, lockMap[r] # NoObj,
         l \in [ref : Nat, lref : Nat, w : BOOLEAN],
         l.ref = heap[lockMap[r]].ref,
         DropRef(r, lockMap[r], l),
         p \in Users(r), Users(r)' = Users(r) \ {p},
         \A s \in Paths \ {r} : Users(s)' = Users(s)
  PROVE  /\ lockMap' \in [Paths -> Objs \cup {NoObj}]
         /\ heap' \in [Objs -> [ref : Nat, lref : Nat, w : BOOLEAN]]
         /\ MapInjective' /\ RefCountExact'
         /\ \A s \in Paths \ {r} : /\ lockMap'[s] = lockMap[s]
                                   /\ lockMap[s] # NoObj => heap'[lockMap[s]] = heap[lockMap[s]]
         /\ lockMap'[r] # NoObj => /\ lockMap'[r] = lockMap[r]
                                   /\ heap'[lockMap[r]].lref = l.lref
                                   /\ heap'[lockMap[r]].w = l.w
         /\ Users(r)' # {} => lockMap'[r] = lockMap[r]
<1> DEFINE o == lockMap[r]
<1> USE DEF IInv
<1>1. /\ heap' = [heap EXCEPT ![o] = [l EXCEPT !.ref = @ - 1]]
      /\ lockMap' = IF l.ref - 1 = 0 THEN [lockMap EXCEPT ![r] = NoObj] ELSE lockMap
  BY DEF DropRef
<1>2. o \in Objs
  BY DEF TypeOK
<1>3. Users(r) \subseteq Procs
  BY DEF Users
<1>4. /\ Cardinality(Users(r)') = l.ref - 1
      /\ l.ref - 1 = 0 <=> Users(r)' = {}
      /\ l.ref - 1 \in Nat
  <2>1. l.ref = Cardinality(Users(r)) /\ Users(r)' \subseteq Procs
    BY <1>3 DEF RefCountExact
  <2> QED BY SMTT(30), <2>1, <1>3, CardRemove, ProcSetsFinite
<1>5. /\ heap'[o].ref = l.ref - 1 /\ heap'[o].lref = l.lref /\ heap'[o].w = l.w
      /\ heap'[o] \in LockRec
      /\ \A x \in Objs \ {o} : heap'[x] = heap[x]
  <2>1. heap'[o] = [l EXCEPT !.ref = l.ref - 1] /\ l \in LockRec
    BY <1>1, <1>2 DEF TypeOK, LockRec
  <2>2. \A x \in Objs \ {o} : heap'[x] = heap[x]
    BY <1>1, <1>2 DEF TypeOK
  <2> QED BY SMT, <2>1, <2>2, <1>4, RecExcept
<1>6. /\ lockMap' \in [Paths -> Objs \cup {NoObj}]
      /\ heap' \in [Objs -> LockRec]
      /\ \A s \in Paths \ {r} : lockMap'[s] = lockMap[s]
  <2>1. heap' \in [Objs -> LockRec]
    <3>1. heap' = [x \in Objs |-> heap'[x]] /\ \A x \in Objs : heap'[x] \in LockRec
      BY <1>1, <1>2, <1>5 DEF TypeOK, LockRec
    <3> QED BY <3>1
  <2> QED BY <2>1, <1>1, <1>2 DEF TypeOK
<1>7. MapInjective'
  BY <1>1 DEF MapInjective, TypeOK
<1>8. \A s \in Paths \ {r} : lockMap[s] # NoObj => heap'[lockMap[s]] = heap[lockMap[s]]
  BY <1>5 DEF MapInjective, TypeOK
<1>9. IF lockMap'[r] = NoObj THEN Users(r)' = {}
      ELSE heap'[lockMap'[r]].ref = Cardinality(Users(r)') /\ Users(r)' # {}
  BY <1>1, <1>4, <1>5, <1>2 DEF TypeOK
<1>10. RefCountExact'
  <2> SUFFICES ASSUME NEW s \in Paths
               PROVE  IF lockMap'[s] = NoObj THEN Users(s)' = {}
                      ELSE heap'[lockMap'[s]].ref = Cardinality(Users(s)') /\ Users(s)' # {}
    BY DEF RefCountExact
  <2>1. CASE s = r
    BY <2>1, <1>9
  <2>2. CASE s # r
    BY SMT, <2>2, <1>6, <1>8 DEF RefCountExact
  <2> QED BY <2>1, <2>2
<1>11. /\ lockMap'[r] # NoObj => lockMap'[r] = lockMap[r]
       /\ Users(r)' # {} => lockMap'[r] = lockMap[r]
  BY <1>1, <1>4 DEF TypeOK
<1> QED BY <1>5, <1>6, <1>7, <1>8, <1>10, <1>11 DEF LockRec

\* Giving up after a timeout: p is no longer a waiter of cur[p].
LEMMA LockFailedIInv ==
  ASSUME IInv, NEW p \in Procs, LockFailed(p)
  PROVE  IInv'
<1> USE DEF IInv
<1>1. PICK r \in Paths : r = cur[p]
  BY DEF TypeOK
<1>2. /\ pc[p] = "failed" /\ ptr[p] # NoObj /\ r \notin held[p]
      /\ lockMap[r] = ptr[p] /\ lockMap[r] # NoObj
  BY <1>1 DEF LockFailed, PhaseOK, WaitsOnMapEntry
<1>3. /\ pc' = [pc EXCEPT ![p] = "rollback"]
      /\ DropRef(r, lockMap[r], heap[lockMap[r]])
      /\ ptr' = [ptr EXCEPT ![p] = NoObj]
      /\ cur' = [cur EXCEPT ![p] = AnyPath]
      /\ UNCHANGED <<readLock, paths, held>>
  BY <1>1, <1>2 DEF LockFailed
<1>4. /\ p \in Users(r) /\ Users(r)' = Users(r) \ {p}
      /\ \A s \in Paths \ {r} : Users(s)' = Users(s)
      /\ \A s \in Paths : Holders(s)' = Holders(s)
  BY <1>1, <1>2, <1>3 DEF Users, Holders, TypeOK
<1>5. heap[lockMap[r]] \in [ref : Nat, lref : Nat, w : BOOLEAN]
  BY <1>2 DEF TypeOK
<1>6. /\ lockMap' \in [Paths -> Objs \cup {NoObj}]
      /\ heap' \in [Objs -> [ref : Nat, lref : Nat, w : BOOLEAN]]
      /\ MapInjective' /\ RefCountExact'
      /\ \A s \in Paths \ {r} : /\ lockMap'[s] = lockMap[s]
                                /\ lockMap[s] # NoObj => heap'[lockMap[s]] = heap[lockMap[s]]
      /\ lockMap'[r] # NoObj => /\ lockMap'[r] = lockMap[r]
                                /\ heap'[lockMap[r]].lref = heap[lockMap[r]].lref
                                /\ heap'[lockMap[r]].w = heap[lockMap[r]].w
      /\ Users(r)' # {} => lockMap'[r] = lockMap[r]
  BY <1>2, <1>3, <1>4, <1>5, DropRefPreserves
<1>7. TypeOK'
  BY <1>3, <1>6, AnyPathType DEF TypeOK, PCs
<1>8. PhaseOK'
  BY <1>2, <1>3 DEF PhaseOK, TypeOK
<1>9. WaitsOnMapEntry'
  <2> SUFFICES ASSUME NEW q \in Procs, ptr'[q] # NoObj PROVE lockMap'[cur'[q]] = ptr'[q]
    BY DEF WaitsOnMapEntry
  <2>1. q # p /\ ptr'[q] = ptr[q] /\ cur'[q] = cur[q] /\ lockMap[cur[q]] = ptr[q] /\ cur[q] \in Paths
    BY <1>3 DEF WaitsOnMapEntry, TypeOK
  <2>2. cur[q] = r => q \in Users(r)'
    BY <2>1, <1>3 DEF Users
  <2> QED BY <2>1, <2>2, <1>6
<1>10. WordsOK'
  <2>1. \A s \in Paths \ {r} : WordOK(s)'
    BY SMTT(30), <1>3, <1>4, <1>6 DEF WordsOK, WordOK
  <2>2. WordOK(r)'
    BY SMT, <1>3, <1>4, <1>6 DEF WordsOK, WordOK
  <2> QED BY <2>1, <2>2 DEF WordsOK
<1> QED BY <1>6, <1>7, <1>8, <1>9, <1>10

\* Unlocking a path one holds: the entry is there, the mutex is locked the way
\* p locked it, so there is no panic, and p is no longer a holder.
LEMMA UnlockPathIInv ==
  ASSUME IInv, NEW p \in Procs, NEW r \in Paths, r \in held[p],
         pc[p] \in {"rollback", "unlock"}, UnlockPath(p, r)
  PROVE  IInv'
<1> USE DEF IInv
<1>1. PICK o : o = lockMap[r]
  OBVIOUS
<1>2. p \in Holders(r) /\ p \in Users(r) /\ ptr[p] = NoObj
  BY DEF Holders, Users, PhaseOK
<1>3. o # NoObj /\ o \in Objs /\ heap[o] \in LockRec /\ readLock[p] \in BOOLEAN
  BY <1>1, <1>2 DEF RefCountExact, TypeOK, LockRec
<1>4. /\ heap[o].lref = Cardinality(Holders(r))
      /\ heap[o].w => \E q \in Procs : Holders(r) = {q} /\ ~readLock[q]
      /\ ~heap[o].w => \A q \in Holders(r) : readLock[q]
  BY <1>1, <1>3 DEF WordsOK, WordOK
<1>5. Holders(r) \subseteq Procs
  BY DEF Holders
<1>6. Cardinality(Holders(r)) \in Nat /\ Cardinality(Holders(r)) > 0
  BY SMT, <1>2, <1>5, ProcSetsFinite, FS_EmptySet
<1>7. CanUnlock(heap[o], readLock[p])
  <2>1. CASE readLock[p]
    BY <2>1, <1>2, <1>3, <1>4, <1>6 DEF CanUnlock
  <2>2. CASE ~readLock[p]
    <3>1. heap[o].w
      BY <2>2, <1>2, <1>3, <1>4 DEF LockRec
    <3>2. Holders(r) = {p}
      BY <3>1, <1>2, <1>4
    <3> QED BY <2>2, <3>1, <3>2, <1>4, CardOne DEF CanUnlock
  <2> QED BY <2>1, <2>2
<1> DEFINE l == AfterUnlock(heap[o], readLock[p])
<1>8. /\ DropRef(r, lockMap[r], l)
      /\ held' = [held EXCEPT ![p] = @ \ {r}]
      /\ UNCHANGED <<pc, readLock, paths, cur, ptr>>
  BY <1>1, <1>3, <1>7 DEF UnlockPath
<1>9. /\ l \in LockRec /\ l.ref = heap[o].ref
      /\ l.lref = IF readLock[p] THEN heap[o].lref - 1 ELSE 0
      /\ l.w = IF readLock[p] THEN heap[o].w ELSE FALSE
  BY <1>3, <1>7, AfterUnlockRec
<1>10. /\ Users(r)' = Users(r) \ {p} /\ Holders(r)' = Holders(r) \ {p}
       /\ \A s \in Paths \ {r} : Users(s)' = Users(s) /\ Holders(s)' = Holders(s)
  BY <1>2, <1>8 DEF Users, Holders, TypeOK
<1> HIDE DEF l
<1>11. /\ lockMap' \in [Paths -> Objs \cup {NoObj}]
       /\ heap' \in [Objs -> [ref : Nat, lref : Nat, w : BOOLEAN]]
       /\ MapInjective' /\ RefCountExact'
       /\ \A s \in Paths \ {r} : /\ lockMap'[s] = lockMap[s]
                                 /\ lockMap[s] # NoObj => heap'[lockMap[s]] = heap[lockMap[s]]
       /\ lockMap'[r] # NoObj => /\ lockMap'[r] = lockMap[r]
                                 /\ heap'[lockMap[r]].lref = l.lref
                                 /\ heap'[lockMap[r]].w = l.w
       /\ Users(r)' # {} => lockMap'[r] = lockMap[r]
  BY <1>1, <1>2, <1>3, <1>8, <1>9, <1>10, DropRefPreserves DEF LockRec
<1>12. TypeOK'
  BY <1>8, <1>11 DEF TypeOK
<1>13. PhaseOK'
  BY <1>8 DEF PhaseOK, TypeOK
<1>14. WaitsOnMapEntry'
  <2> SUFFICES ASSUME NEW q \in Procs, ptr'[q] # NoObj PROVE lockMap'[cur'[q]] = ptr'[q]
    BY DEF WaitsOnMapEntry
  <2>1. ptr'[q] = ptr[q] /\ cur'[q] = cur[q] /\ lockMap[cur[q]] = ptr[q] /\ cur[q] \in Paths
    BY <1>8 DEF WaitsOnMapEntry, TypeOK
  <2>2. cur[q] = r => q \in Users(r)'
    BY <2>1, <1>8 DEF Users
  <2> QED BY <2>1, <2>2, <1>11
<1>15. WordsOK'
  <2>1. \A s \in Paths \ {r} : WordOK(s)'
    BY SMT, <1>8, <1>10, <1>11 DEF WordsOK, WordOK
  <2>2. Cardinality(Holders(r)') = Cardinality(Holders(r)) - 1
    BY <1>2, <1>5, <1>10, CardRemove
  <2>3. CASE readLock[p]
    <3>1. ~heap[o].w
      BY <2>3, <1>2, <1>4
    <3>2. WordOK(r)'
      BY <2>2, <2>3, <3>1, <1>4, <1>8, <1>9, <1>10, <1>11 DEF WordOK
    <3> QED BY <2>1, <3>2 DEF WordsOK
  <2>4. CASE ~readLock[p]
    <3>1. Holders(r) = {p}
      BY <2>4, <1>2, <1>3, <1>4 DEF LockRec
    <3>2. Holders(r)' = {}
      BY <3>1, <1>10
    <3>3. WordOK(r)'
      BY <2>4, <3>2, <1>9, <1>11, FS_EmptySet DEF WordOK
    <3> QED BY <2>1, <3>3 DEF WordsOK
  <2> QED BY <2>3, <2>4
<1> QED BY <1>11, <1>12, <1>13, <1>14, <1>15

-----------------------------------------------------------------------------
\* Every step preserves the inductive invariant: one case per action.
LEMMA NextIInv == IInv /\ [Next]_vars => IInv'
<1> SUFFICES ASSUME IInv, [Next]_vars PROVE IInv'
  OBVIOUS
<1>1. ASSUME NEW p \in Procs, NEW S \in SUBSET Paths, NEW rd \in BOOLEAN, GetLock(p, S, rd)
      PROVE  IInv'
  <2>1. TypeOK' /\ PhaseOK'
    BY <1>1 DEF GetLock, IInv, TypeOK, PhaseOK, PCs
  <2>2. /\ held[p] = {} /\ \A q \in Procs \ {p} : readLock'[q] = readLock[q]
        /\ UNCHANGED <<lockMap, heap, held, cur, ptr>>
    BY <1>1 DEF GetLock, IInv, PhaseOK, TypeOK
  <2> QED BY <2>1, <2>2, LocalStep DEF IInv
<1>2. ASSUME NEW p \in Procs, LockTimeout(p) \/ Unlock(p) \/ Return(p)
      PROVE  IInv'
  <2>1. TypeOK' /\ PhaseOK'
    BY ZenonT(40), <1>2 DEF LockTimeout, Unlock, Return, IInv, TypeOK, PhaseOK, PCs
  <2>2. UNCHANGED <<lockMap, heap, readLock, held, cur, ptr>>
    BY <1>2 DEF LockTimeout, Unlock, Return
  <2> QED BY <2>1, <2>2, LocalStep DEF IInv
<1>3. ASSUME NEW p \in Procs, NEW r \in Paths, Rollback(p, r) \/ UnlockNext(p, r)
      PROVE  IInv'
  BY <1>3, UnlockPathIInv DEF Rollback, UnlockNext, IsFirst
<1>4. CASE UNCHANGED vars
  <2>1. TypeOK' /\ PhaseOK' /\ WaitsOnMapEntry' /\ MapInjective'
    BY <1>4 DEF vars, IInv, TypeOK, PhaseOK, WaitsOnMapEntry, MapInjective
  <2>2. \A r : Users(r)' = Users(r) /\ Holders(r)' = Holders(r)
    BY <1>4 DEF vars, Users, Holders
  <2>3. RefCountExact' /\ WordsOK'
    BY <1>4, <2>2 DEF vars, IInv, RefCountExact, WordsOK, WordOK
  <2> QED BY <2>1, <2>3 DEF IInv
<1> QED BY <1>1, <1>2, <1>3, <1>4, LockRefIInv, LockTakenIInv, LockFailedIInv
        DEF Next, Call, Step

\* Two holders of one path that are not both readers contradict the mutex word.
LEMMA IInvExcludes == IInv => MutualExclusion
<1> SUFFICES ASSUME IInv, NEW p \in Procs, NEW q \in Procs, p # q, NEW r \in held[p] \cap held[q]
             PROVE  readLock[p] /\ readLock[q]
  BY DEF MutualExclusion
<1>1. r \in Paths /\ p \in Holders(r) /\ q \in Holders(r) /\ p \in Users(r)
  BY DEF IInv, TypeOK, Holders, Users
<1>2. lockMap[r] # NoObj /\ lockMap[r] \in Objs
  BY <1>1 DEF IInv, RefCountExact, TypeOK
<1>3. ~heap[lockMap[r]].w
  BY SMT, <1>1, <1>2 DEF IInv, WordsOK, WordOK
<1> QED BY <1>1, <1>2, <1>3 DEF IInv, WordsOK, WordOK

\* The inductive invariant holds in every reachable state.
THEOREM InvariantHolds == Spec => []IInv
BY InitIInv, NextIInv, PTL DEF Spec

\* Type correctness of the lock map, the nsLock objects and the goroutines.
THEOREM TypeCorrect == Spec => []TypeOK
<1>1. IInv => TypeOK
  BY DEF IInv
<1> QED BY <1>1, InvariantHolds, PTL

\* Writers of a path exclude everybody else, for any number of goroutines and
\* any sequence of timeouts, rollbacks, deletions and re-creations of entries.
THEOREM MutualExclusionHolds == Spec => []MutualExclusion
BY IInvExcludes, InvariantHolds, PTL

\* A goroutine that waits or gives up does so on the object that is in the map:
\* no unlock deletes an entry that somebody still points to.
THEOREM WaitsOnMapEntryHolds == Spec => []WaitsOnMapEntry
<1>1. IInv => WaitsOnMapEntry
  BY DEF IInv
<1> QED BY <1>1, InvariantHolds, PTL

\* No unlock panics on a mutex that is not held, and no entry is missing from
\* the map when its reference count is decremented.
THEOREM NoPanicHolds == Spec => []NoPanic
<1>1. IInv => NoPanic
  BY DEF IInv, PhaseOK, NoPanic
<1> QED BY <1>1, InvariantHolds, PTL

\* The reference count of an entry is the number of goroutines that wait for or
\* hold its path, so the entry is deleted by the last of them and by no other.
THEOREM RefCountsHold == Spec => []RefCountExact
<1>1. IInv => RefCountExact
  BY DEF IInv
<1> QED BY <1>1, InvariantHolds, PTL

-----------------------------------------------------------------------------
(* Recently failed writes.  An operation is in a channel, in the list, about   *)
(* to be listed, or being healed, until the drive has it.                      *)

\* What a send puts in a channel.
LEMMA RangeAppend ==
  ASSUME NEW S, NEW q \in Seq(S), NEW x \in S
  PROVE  Range(Append(q, x)) = Range(q) \cup {x}
<1>2. ASSUME NEW y \in Range(Append(q, x)) PROVE y \in Range(q) \cup {x}
  BY SMT, <1>2 DEF Range
<1>3. ASSUME NEW y \in Range(q) PROVE y \in Range(Append(q, x))
  BY SMT, <1>3 DEF Range
<1>4. x \in Range(Append(q, x))
  <2>1. Len(q) + 1 \in DOMAIN Append(q, x) /\ Append(q, x)[Len(q) + 1] = x
    BY SMT
  <2> QED BY <2>1 DEF Range
<1> QED BY <1>2, <1>3, <1>4

\* What a receive takes out of a channel.
LEMMA RangeTail ==
  ASSUME NEW S, NEW q \in Seq(S), q # <<>>
  PROVE  /\ Head(q) \in S /\ Tail(q) \in Seq(S) /\ Len(Tail(q)) < Len(q)
         /\ Range(q) = Range(Tail(q)) \cup {Head(q)}
<1>1. Head(q) \in S /\ Tail(q) \in Seq(S) /\ Len(Tail(q)) < Len(q)
  BY SMT
<1>2. ASSUME NEW y \in Range(q) PROVE y \in Range(Tail(q)) \cup {Head(q)}
  <2>1. PICK i \in DOMAIN q : y = q[i]
    BY <1>2 DEF Range
  <2>2. i = 1 \/ (i - 1 \in DOMAIN Tail(q) /\ y = Tail(q)[i - 1])
    BY SMT, <2>1
  <2>3. Head(q) = q[1]
    BY SMT
  <2> QED BY <2>1, <2>2, <2>3 DEF Range
<1>3. ASSUME NEW y \in Range(Tail(q)) PROVE y \in Range(q)
  <2>1. PICK i \in DOMAIN Tail(q) : y = Tail(q)[i]
    BY <1>3 DEF Range
  <2>2. i + 1 \in DOMAIN q /\ y = q[i + 1]
    BY SMT, <2>1
  <2> QED BY <2>2 DEF Range
<1>4. Head(q) \in Range(q)
  <2>1. 1 \in DOMAIN q /\ q[1] = Head(q)
    BY SMT
  <2> QED BY <2>1 DEF Range
<1> QED BY <1>1, <1>2, <1>3, <1>4

Ops == 1..Len(partial)
\* Where operations wait for the collector.
InChannel(id) == (\E s \in Sets : id \in Range(opCh[s])) \/ id \in Range(agg)
Channels ==
  /\ opCh \in [Sets -> Seq(OpIds)] /\ \A s \in Sets : Len(opCh[s]) <= ChanCap
  /\ agg \in Seq(OpIds) /\ Len(agg) <= AggCap
  /\ \A id : InChannel(id) => id \in Ops
Marks ==
  /\ lacking \subseteq Ops /\ mrfOps \subseteq Ops /\ todo \subseteq Ops
  /\ atHealer \subseteq Ops /\ dropped \subseteq Ops /\ unhealed \subseteq Ops
  /\ \A x, y \in atHealer : x = y
MRFRest ==
  /\ partial \in Seq([set : Sets, drive : Drives]) /\ Len(partial) <= MaxPartials
  /\ down \subseteq Sets \X Drives /\ outages \in 0..MaxOutages
  /\ event \subseteq Sets /\ sweeping \in BOOLEAN
Followed == \A id \in lacking : InChannel(id) \/ id \in mrfOps \/ id \in atHealer \/ id \in dropped \/ id \in unhealed

MRFIInv == MRFRest /\ Channels /\ Marks /\ Followed /\ ListBounded

\* The invariant gives the types and the property.
LEMMA MRFIInvImplies == MRFIInv => MRFTypeOK /\ ListSound
<1> SUFFICES ASSUME MRFIInv PROVE MRFTypeOK /\ ListSound
  OBVIOUS
<1>1. UNION {lacking, mrfOps, todo, atHealer, dropped, unhealed} \subseteq 1..Len(partial)
  BY DEF MRFIInv, Marks, Ops
<1>2. Cardinality(atHealer) <= 1
  <2>1. CASE atHealer = {}
    <3>1. Cardinality(atHealer) = 0
      BY <2>1, FS_EmptySet
    <3> QED BY SMT, <3>1
  <2>2. CASE atHealer # {}
    <3>0. PICK x \in atHealer : TRUE
      BY <2>2
    <3>1. atHealer = {x}
      BY <3>0 DEF MRFIInv, Marks
    <3>2. Cardinality(atHealer) = 1
      BY <3>1, FS_Singleton
    <3> QED BY SMT, <3>2
  <2> QED BY <2>1, <2>2
<1>3. MRFTypeOK
  BY <1>1, <1>2 DEF MRFIInv, MRFRest, Channels, MRFTypeOK
<1>4. NothingForgotten
  <2> SUFFICES ASSUME NEW id \in lacking,
                      id \notin Range(agg) /\ id \notin mrfOps /\ id \notin atHealer /\ id \notin dropped /\ id \notin unhealed
               PROVE  id \in UNION {Range(opCh[s]) : s \in Sets}
    BY SMT DEF NothingForgotten
  <2>1. PICK s \in Sets : id \in Range(opCh[s])
    BY DEF MRFIInv, Followed, InChannel
  <2> QED BY <2>1
<1> QED BY <1>3, <1>4 DEF ListSound, MRFIInv

\* Nothing is lacking, queued or marked at start-up.
LEMMA MRFInitIInv == MRFInit => MRFIInv
<1> SUFFICES ASSUME MRFInit PROVE MRFIInv
  OBVIOUS
<1>1. Range(<<>>) = {} /\ <<>> \in Seq(OpIds) /\ Len(<<>>) = 0 /\ <<>> \in Seq([set : Sets, drive : Drives])
  BY SMT DEF Range
<1>2. 0 <= ChanCap /\ 0 <= AggCap /\ 0 <= MaxPartials /\ 0 \in 0..MaxOutages /\ 0 <= ListCap + 1
  <2>1. {ChanCap, AggCap, ListCap, MaxPartials, MaxOutages} \subseteq Nat
    BY MRFAssumption
  <2>2. ChanCap \in Nat /\ AggCap \in Nat /\ ListCap \in Nat /\ MaxPartials \in Nat /\ MaxOutages \in Nat
    BY <2>1
  <2> QED BY SMT, <2>2
<1>3. MRFRest
  BY <1>1, <1>2 DEF MRFInit, MRFRest
<1>4. opCh \in [Sets -> Seq(OpIds)] /\ \A s \in Sets : opCh[s] = <<>>
  BY <1>1 DEF MRFInit
<1>5. Channels
  BY <1>1, <1>2, <1>4 DEF MRFInit, Channels, InChannel
<1>6. ListBounded
  BY <1>2, FS_EmptySet DEF MRFInit, ListBounded
<1>7. Marks /\ Followed
  BY DEF MRFInit, Marks, Followed
<1> QED BY <1>3, <1>5, <1>6, <1>7 DEF MRFIInv

\* Drives come and go.
LEMMA DrivesIInv ==
  ASSUME MRFIInv, NEW s \in Sets, NEW d \in Drives,
         DriveFails(s, d) \/ ConnectDrive(s, d) \/ DriveReturns(s, d)
  PROVE  MRFIInv'
<1>1. UNCHANGED <<partial, lacking, opCh, agg, mrfOps, todo, sweeping, atHealer, dropped, unhealed>>
  BY DEF DriveFails, ConnectDrive, DriveReturns
<1>2. outages' \in 0..MaxOutages
  <2>1. outages' = outages \/ (outages < MaxOutages /\ outages' = outages + 1)
    BY DEF DriveFails, ConnectDrive, DriveReturns
  <2>2. MaxOutages \in Nat /\ outages \in 0..MaxOutages
    BY MRFAssumption DEF MRFIInv, MRFRest
  <2> QED BY SMT, <2>1, <2>2
<1>3. down' \subseteq Sets \X Drives /\ event' \subseteq Sets
  <2>1. <<s, d>> \in Sets \X Drives
    BY SMT
  <2>2. (down' \subseteq down \/ down' = down \cup {<<s, d>>}) /\ event' \subseteq event \cup {s}
    BY DEF DriveFails, ConnectDrive, DriveReturns
  <2> QED BY <2>1, <2>2 DEF MRFIInv, MRFRest
<1> QED BY <1>1, <1>2, <1>3 DEF MRFIInv, MRFRest, Channels, InChannel, Marks, Ops, Followed, ListBounded

\* A partial operation is queued, or dropped at a full channel.
LEMMA PartialIInv ==
  ASSUME MRFIInv, NEW s \in Sets, NEW d \in Drives, PartialOperation(s, d)
  PROVE  MRFIInv'
<1> PICK id : id = Len(partial) + 1
  OBVIOUS
<1>1. /\ id \in OpIds /\ partial' = Append(partial, [set |-> s, drive |-> d])
      /\ lacking' = lacking \cup {id}
      /\ UNCHANGED <<down, outages, agg, mrfOps, event, todo, sweeping, atHealer, unhealed>>
  BY DEF PartialOperation
<1>2. /\ opCh' = IF Len(opCh[s]) = ChanCap THEN opCh ELSE [opCh EXCEPT ![s] = Append(@, id)]
      /\ dropped' = IF Len(opCh[s]) = ChanCap THEN dropped \cup {id} ELSE dropped
  BY DEF PartialOperation
<1>3. /\ partial' \in Seq([set : Sets, drive : Drives]) /\ Len(partial') = id
      /\ Len(partial') <= MaxPartials
  <2>1. [set |-> s, drive |-> d] \in [set : Sets, drive : Drives]
    OBVIOUS
  <2>2. partial' \in Seq([set : Sets, drive : Drives]) /\ Len(partial') = id
    BY SMT, <1>1, <2>1 DEF MRFIInv, MRFRest
  <2>3. id <= MaxPartials
    BY SMT, <1>1, MRFAssumption DEF OpIds
  <2> QED BY <2>2, <2>3
<1>4. Ops \subseteq Ops' /\ id \in Ops'
  <2>1. Len(partial) \in Nat
    BY SMT DEF MRFIInv, MRFRest
  <2> QED BY SMT, <1>3, <2>1 DEF Ops
<1>5. MRFRest'
  BY <1>1, <1>3 DEF MRFIInv, MRFRest
<1>6. Channels' /\ (id \in dropped' \/ InChannel(id)') /\ (\A x : InChannel(x) => InChannel(x)')
  <2>1. CASE Len(opCh[s]) = ChanCap
    <3>1. opCh' = opCh /\ dropped' = dropped \cup {id}
      BY <1>2, <2>1
    <3> QED BY <1>1, <1>4, <3>1 DEF MRFIInv, Channels, InChannel
  <2>2. CASE Len(opCh[s]) # ChanCap
    <3>1. opCh' = [opCh EXCEPT ![s] = Append(@, id)]
      BY <1>2, <2>2
    <3>2. opCh[s] \in Seq(OpIds) /\ opCh \in [Sets -> Seq(OpIds)] /\ Len(opCh[s]) <= ChanCap /\ ChanCap \in Nat
      BY MRFAssumption DEF MRFIInv, Channels
    <3>3. /\ Append(opCh[s], id) \in Seq(OpIds) /\ Len(Append(opCh[s], id)) = Len(opCh[s]) + 1
          /\ Range(Append(opCh[s], id)) = Range(opCh[s]) \cup {id}
      <4>1. Append(opCh[s], id) \in Seq(OpIds) /\ Len(Append(opCh[s], id)) = Len(opCh[s]) + 1
        BY SMT, <1>1, <3>2
      <4>2. Range(Append(opCh[s], id)) = Range(opCh[s]) \cup {id}
        BY SMT, <1>1, <3>2, RangeAppend
      <4> QED BY <4>1, <4>2
    <3>4. Len(opCh[s]) \in Nat
      BY SMT, <3>2
    <3>5. Len(Append(opCh[s], id)) <= ChanCap
      BY SMT, <2>2, <3>2, <3>3, <3>4
    <3>6. /\ opCh' \in [Sets -> Seq(OpIds)] /\ opCh'[s] = Append(opCh[s], id)
          /\ \A r \in Sets : r # s => opCh'[r] = opCh[r]
      BY <3>1, <3>2, <3>3
    <3>7. \A r \in Sets : Len(opCh'[r]) <= ChanCap
      BY <3>5, <3>6 DEF MRFIInv, Channels
    <3>8. \A r \in Sets : Range(opCh[r]) \subseteq Range(opCh'[r]) /\ Range(opCh'[r]) \subseteq Range(opCh[r]) \cup {id}
      BY <3>3, <3>6
    <3>9. InChannel(id)' /\ (\A x : InChannel(x) => InChannel(x)') /\ (\A x : InChannel(x)' => InChannel(x) \/ x = id)
      BY <1>1, <3>3, <3>6, <3>8 DEF InChannel
    <3> QED BY <1>1, <1>4, <3>6, <3>7, <3>9 DEF MRFIInv, Channels
  <2> QED BY <2>1, <2>2
<1>7. Marks'
  BY <1>1, <1>2, <1>4 DEF MRFIInv, Marks
<1>8. Followed'
  BY <1>1, <1>2, <1>6 DEF MRFIInv, Followed
<1> QED BY <1>1, <1>5, <1>6, <1>7, <1>8 DEF MRFIInv, ListBounded

\* The head of a channel moves to the common channel, or is dropped there.
LEMMA AggregateIInv ==
  ASSUME MRFIInv, NEW s \in Sets, Aggregate(s)
  PROVE  MRFIInv'
<1> PICK id : id = Head(opCh[s])
  OBVIOUS
<1>1. /\ opCh[s] # <<>> /\ opCh' = [opCh EXCEPT ![s] = Tail(@)]
      /\ agg' = IF Len(agg) = AggCap THEN agg ELSE Append(agg, id)
      /\ dropped' = IF Len(agg) = AggCap THEN dropped \cup {id} ELSE dropped
      /\ UNCHANGED <<partial, down, outages, lacking, mrfOps, event, todo, sweeping, atHealer, unhealed>>
  BY DEF Aggregate
<1>2. /\ opCh[s] \in Seq(OpIds) /\ opCh \in [Sets -> Seq(OpIds)] /\ Len(opCh[s]) <= ChanCap
      /\ agg \in Seq(OpIds) /\ Len(agg) <= AggCap
  BY DEF MRFIInv, Channels
<1>3. ChanCap \in Nat /\ AggCap \in Nat /\ Len(opCh[s]) \in Nat /\ Len(agg) \in Nat
  <2>1. ChanCap \in Nat /\ AggCap \in Nat
    BY MRFAssumption
  <2> QED BY SMT, <1>2, <2>1
<1>4. /\ id \in OpIds /\ Tail(opCh[s]) \in Seq(OpIds) /\ Len(Tail(opCh[s])) < Len(opCh[s])
      /\ Range(opCh[s]) = Range(Tail(opCh[s])) \cup {id}
  <2>1. ASSUME NEW q \in Seq(OpIds), q # <<>>
        PROVE  /\ Head(q) \in OpIds /\ Tail(q) \in Seq(OpIds) /\ Len(Tail(q)) < Len(q)
               /\ Range(q) = Range(Tail(q)) \cup {Head(q)}
    BY <2>1, RangeTail
  <2> QED BY <1>1, <1>2, <2>1
<1>5. Len(Tail(opCh[s])) <= ChanCap
  <2>1. Len(Tail(opCh[s])) \in Nat
    BY SMT, <1>4
  <2> QED BY SMT, <1>2, <1>3, <1>4, <2>1
<1>6. /\ opCh' \in [Sets -> Seq(OpIds)] /\ opCh'[s] = Tail(opCh[s])
      /\ \A r \in Sets : r # s => opCh'[r] = opCh[r]
  BY <1>1, <1>2, <1>4
<1>7. \A r \in Sets : Len(opCh'[r]) <= ChanCap
  BY <1>5, <1>6 DEF MRFIInv, Channels
<1>8. \A r \in Sets : Range(opCh'[r]) \subseteq Range(opCh[r]) /\ Range(opCh[r]) \subseteq Range(opCh'[r]) \cup {id}
  BY <1>4, <1>6
<1>9. id \in Ops
  <2>1. InChannel(id)
    BY <1>4 DEF InChannel
  <2> QED BY <2>1 DEF MRFIInv, Channels
<1>10. /\ agg' \in Seq(OpIds) /\ Len(agg') <= AggCap
       /\ Range(agg) \subseteq Range(agg') /\ Range(agg') \subseteq Range(agg) \cup {id}
       /\ id \in Range(agg') \/ id \in dropped'
  <2>1. CASE Len(agg) = AggCap
    BY <1>1, <1>2, <2>1
  <2>2. CASE Len(agg) # AggCap
    <3>1. agg' = Append(agg, id)
      BY <1>1, <2>2
    <3>2. agg' \in Seq(OpIds) /\ Len(agg') = Len(agg) + 1 /\ Range(agg') = Range(agg) \cup {id}
      <4>1. agg' \in Seq(OpIds) /\ Len(agg') = Len(agg) + 1
        BY SMT, <1>2, <1>4, <3>1
      <4>2. Range(Append(agg, id)) = Range(agg) \cup {id}
        BY SMT, <1>2, <1>4, RangeAppend
      <4> QED BY <3>1, <4>1, <4>2
    <3>3. Len(agg') <= AggCap
      BY SMT, <1>2, <1>3, <2>2, <3>2
    <3> QED BY <3>2, <3>3
  <2> QED BY <2>1, <2>2
<1>11. /\ \A x : InChannel(x) => InChannel(x)' \/ x \in dropped'
       /\ \A x : InChannel(x)' => InChannel(x) \/ x = id
  BY <1>8, <1>10 DEF InChannel
<1>12. Channels'
  BY <1>1, <1>6, <1>7, <1>9, <1>10, <1>11 DEF MRFIInv, Channels, Ops
<1>13. dropped \subseteq dropped' /\ dropped' \subseteq dropped \cup {id}
  BY <1>1
<1>14. Marks'
  BY <1>1, <1>9, <1>13 DEF MRFIInv, Marks, Ops
<1>15. Followed'
  BY <1>1, <1>11, <1>13 DEF MRFIInv, Followed
<1> QED BY <1>1, <1>12, <1>14, <1>15 DEF MRFIInv, MRFRest, ListBounded

\* The collector adds an operation to the list, or drops it at a full list.
LEMMA CollectIInv == ASSUME MRFIInv, Collect PROVE MRFIInv'
<1> PICK id : id = Head(agg)
  OBVIOUS
<1>1. /\ agg # <<>> /\ agg' = Tail(agg)
      /\ mrfOps' = IF ListFull THEN mrfOps ELSE mrfOps \cup {id}
      /\ dropped' = IF ListFull THEN dropped \cup {id} ELSE dropped
      /\ UNCHANGED <<partial, down, outages, lacking, opCh, event, todo, sweeping, atHealer, unhealed>>
  BY DEF Collect
<1>2. agg \in Seq(OpIds) /\ Len(agg) <= AggCap /\ AggCap \in Nat /\ ListCap \in Nat
  BY MRFAssumption DEF MRFIInv, Channels
<1>3. /\ id \in OpIds /\ agg' \in Seq(OpIds) /\ Len(agg') < Len(agg)
      /\ Range(agg) = Range(agg') \cup {id}
  BY <1>1, <1>2, RangeTail
<1>4. Len(agg') <= AggCap
  <2>1. Len(agg') \in Nat /\ Len(agg) \in Nat
    BY SMT, <1>2, <1>3
  <2> QED BY SMT, <1>2, <1>3, <2>1
<1>5. id \in Ops
  <2>1. InChannel(id)
    BY <1>3 DEF InChannel
  <2> QED BY <2>1 DEF MRFIInv, Channels
<1>6. /\ \A x : InChannel(x) => InChannel(x)' \/ x \in mrfOps' \/ x \in dropped'
      /\ \A x : InChannel(x)' => InChannel(x)
  BY <1>1, <1>3 DEF InChannel
<1>7. Channels'
  BY <1>1, <1>3, <1>4, <1>6 DEF MRFIInv, Channels, Ops
<1>8. Marks' /\ Followed'
  BY <1>1, <1>5, <1>6 DEF MRFIInv, Marks, Ops, Followed
<1>9. ListBounded'
  <2>1. CASE ListFull
    BY <1>1, <2>1 DEF MRFIInv, ListBounded
  <2>2. CASE ~ListFull
    <3>1. IsFiniteSet(mrfOps)
      <4>1. Len(partial) \in Nat
        BY SMT DEF MRFIInv, MRFRest
      <4>2. IsFiniteSet(1..Len(partial))
        BY SMT, <4>1, FS_Interval
      <4> QED BY <4>2, FS_Subset DEF MRFIInv, Marks, Ops
    <3>2. Cardinality(mrfOps) \in Nat
      BY <3>1, FS_CardinalityType
    <3>3. mrfOps' = mrfOps \cup {id}
      BY <1>1, <2>2
    <3>4. Cardinality(mrfOps') = IF id \in mrfOps THEN Cardinality(mrfOps) ELSE Cardinality(mrfOps) + 1
      BY <3>1, <3>3, FS_AddElement
    <3>5. Cardinality(mrfOps) <= ListCap
      BY SMT, <1>2, <2>2, <3>2 DEF ListFull
    <3> QED BY SMT, <1>2, <3>2, <3>4, <3>5 DEF ListBounded
  <2> QED BY <2>1, <2>2
<1> QED BY <1>1, <1>7, <1>8, <1>9 DEF MRFIInv, MRFRest

\* A sweep copies the entries of a set, sends them one by one and ends.
LEMMA SweepIInv ==
  ASSUME MRFIInv, EndSweep \/ \E s \in Sets : BeginSweep(s)
  PROVE  MRFIInv'
<1>1. /\ UNCHANGED <<partial, down, outages, lacking, opCh, agg, mrfOps, atHealer, dropped, unhealed>>
      /\ event' \subseteq event /\ sweeping' \in BOOLEAN /\ (todo' = todo \/ todo' \subseteq mrfOps)
  BY DEF EndSweep, BeginSweep
<1> QED BY <1>1 DEF MRFIInv, MRFRest, Channels, InChannel, Marks, Ops, Followed, ListBounded

\* maintainMRFList sends to the heal channel, or healMRFRoutine hears that a drive is back.
LEMMA SendIInv ==
  ASSUME MRFIInv, NEW id \in OpIds, SendToHealer(id)
  PROVE  MRFIInv'
<1>1. /\ id \in todo /\ atHealer = {} /\ atHealer' = {id} /\ todo' = todo \ {id} /\ mrfOps' = mrfOps \ {id}
      /\ UNCHANGED <<partial, down, outages, lacking, opCh, agg, event, sweeping, dropped, unhealed>>
  BY DEF SendToHealer, Swept
<1>2. ListBounded'
  <2>1. Len(partial) \in Nat /\ ListCap \in Nat
    <3>1. ListCap \in Nat
      BY MRFAssumption
    <3> QED BY SMT, <3>1 DEF MRFIInv, MRFRest
  <2>2. IsFiniteSet(1..Len(partial))
    BY SMT, <2>1, FS_Interval
  <2>3. IsFiniteSet(mrfOps)
    BY <2>2, FS_Subset DEF MRFIInv, Marks, Ops
  <2>4. mrfOps' \subseteq mrfOps
    BY <1>1
  <2>5. /\ Cardinality(mrfOps') <= Cardinality(mrfOps) /\ Cardinality(mrfOps) \in Nat
        /\ Cardinality(mrfOps') \in Nat
    BY <2>3, <2>4, FS_Subset, FS_CardinalityType
  <2> QED BY SMT, <2>1, <2>5 DEF MRFIInv, ListBounded
<1>3. Marks' /\ Followed'
  BY <1>1 DEF MRFIInv, Marks, Ops, Followed, InChannel
<1> QED BY <1>1, <1>2, <1>3 DEF MRFIInv, MRFRest, Channels, InChannel, Ops

\* The healer heals, or fails.
LEMMA HealOneIInv ==
  ASSUME MRFIInv, NEW id \in OpIds, HealOne(id)
  PROVE  MRFIInv'
<1>1. /\ id \in atHealer /\ atHealer' = {}
      /\ \/ unhealed' = unhealed \cup {id} /\ UNCHANGED lacking
         \/ lacking' = lacking \ {id} /\ UNCHANGED unhealed
      /\ UNCHANGED <<partial, down, outages, opCh, agg, mrfOps, event, todo, sweeping, dropped>>
  BY DEF HealOne
<1>2. atHealer = {id}
  BY <1>1 DEF MRFIInv, Marks
<1>3. Marks' /\ Followed'
  BY <1>1, <1>2 DEF MRFIInv, Marks, Ops, Followed, InChannel
<1> QED BY <1>1, <1>3 DEF MRFIInv, MRFRest, Channels, InChannel, Ops, ListBounded

\* Every step of addPartial, the aggregators, maintainMRFList and healMRFRoutine preserves the invariant.
LEMMA MRFNextIInv == MRFIInv /\ [MRFNext]_mrfVars => MRFIInv'
<1> SUFFICES ASSUME MRFIInv, [MRFNext]_mrfVars PROVE MRFIInv'
  OBVIOUS
<1>1. CASE UNCHANGED mrfVars
  BY <1>1 DEF mrfVars, MRFIInv, MRFRest, Channels, InChannel, Marks, Ops, Followed, ListBounded
<1>2. ASSUME NEW s \in Sets, EventExpires(s) PROVE MRFIInv'
  <2>1. /\ event' \subseteq event
        /\ UNCHANGED <<partial, down, outages, lacking, opCh, agg, mrfOps, todo, sweeping, atHealer, dropped, unhealed>>
    BY <1>2 DEF EventExpires
  <2> QED BY <2>1 DEF MRFIInv, MRFRest, Channels, InChannel, Marks, Ops, Followed, ListBounded
<1> QED BY <1>1, <1>2, DrivesIInv, PartialIInv, AggregateIInv, CollectIInv, SweepIInv, SendIInv, HealOneIInv
        DEF MRFNext, MRFRoutines

\* The inductive invariant of the list.
THEOREM MRFInvariantHolds == MRFSpec => []MRFIInv
<1>1. MRFIInv /\ [MRFNext]_mrfVars => MRFIInv'
  BY MRFNextIInv
<1> QED BY <1>1, MRFInitIInv, PTL DEF MRFSpec

\* The list forgets no operation before it was sent to be healed but at its limit,
\* which it exceeds by one entry at most, for any sets, drives, channel sizes and
\* limits, and whichever heals fail.
THEOREM ListSoundHolds == MRFSpec => []ListSound
BY MRFIInvImplies, MRFInvariantHolds, PTL

-----------------------------------------------------------------------------
(* Event store.  A file is written and counted, listed, sent and deleted in    *)
(* separate steps, between which the server may restart.                       *)

\* Events that were not raised have no file, were not delivered and not dropped.
NotRaised == \A e \in Events : e > raised => delivered[e] = 0 /\ FileOf(e) = {} /\ e \notin unread

\* The counter is too low only by the files whose write failed.
Counted ==
  /\ IsFiniteSet(stored)
  /\ count <= EntryLimit /\ count <= raised /\ Cardinality(stored) <= raised
  /\ opened => Cardinality(stored) <= count + halfWritten

OneFile == \A f, g \in stored : f.event = g.event => f = g

\* The sender posts what is stored, and deletes what was delivered.
Sending ==
  /\ sender.at # "idle" => sender.key \in Events
  /\ sender.at \in {"post", "del"} => Whole(sender.key)
  /\ sender.at = "del" => delivered[sender.key] > 0

\* A file that is not about to be deleted was delivered after mishaps only.
Once ==
  \A e \in Events : Whole(e) /\ ~(sender.key = e /\ sender.at = "del") => delivered[e] <= mishaps

EventIInv ==
  /\ EventTypeOK /\ NotRaised /\ Counted /\ OneFile /\ Sending /\ Once
  /\ NothingLost /\ StoreBounded /\ NoSpontaneousDuplicate

\* The freshly opened store satisfies the invariant (NewQueueStore, Open).
LEMMA EventInitIInv == EventInit => EventIInv
<1> SUFFICES ASSUME EventInit PROVE EventIInv
  OBVIOUS
<1> USE DEF EventInit
<1>1. EventTypeOK
  BY SMT, EventAssumption DEF EventTypeOK, Idle, Events
<1>2. NotRaised
  BY SMT DEF NotRaised, FileOf
<1>3. Cardinality(stored) = 0 /\ IsFiniteSet(stored)
  BY FS_EmptySet
<1>4. Counted /\ StoreBounded
  BY SMT, <1>3, EventAssumption DEF Counted, StoreBounded
<1>5. OneFile /\ Sending /\ Once /\ NothingLost
  BY DEF OneFile, Sending, Idle, Once, NothingLost, Whole
<1>6. NoSpontaneousDuplicate
  BY SMT DEF NoSpontaneousDuplicate
<1> QED BY <1>1, <1>2, <1>4, <1>5, <1>6 DEF EventIInv

\* A new file, and what it does to the files of every event.
LEMMA NewFile ==
  ASSUME EventIInv, raised < NEvents, NEW half \in BOOLEAN, NEW n, n = raised + 1,
         stored' = stored \cup {File(n, half)}
  PROVE  /\ n \in Events /\ stored' \subseteq Files /\ OneFile'
         /\ IsFiniteSet(stored') /\ Cardinality(stored') = Cardinality(stored) + 1
         /\ \A e \in Events : Whole(e) => Whole(e)'
         /\ \A e \in Events : e # n => FileOf(e)' = FileOf(e) /\ (Whole(e)' => Whole(e))
         /\ half = FALSE => Whole(n)'
         /\ delivered[n] = 0 /\ Cardinality(stored) \in Nat
<1> DEFINE f == File(n, half)
<1>1. n \in Events /\ n > raised
  BY SMT, EventAssumption DEF EventIInv, EventTypeOK, Events
<1>2. FileOf(n) = {} /\ delivered[n] = 0
  BY <1>1 DEF EventIInv, NotRaised
<1>3. f.event = n /\ f.half = half /\ f \in Files /\ f \notin stored
  BY SMT, <1>1, <1>2 DEF File, Files, FileOf
<1>4. \A g \in stored : g.event # n
  BY <1>2 DEF FileOf
<1>5. stored' \subseteq Files
  BY <1>3 DEF EventIInv, EventTypeOK
<1>6. OneFile'
  BY <1>3, <1>4 DEF EventIInv, OneFile
<1>7. IsFiniteSet(stored) /\ Cardinality(stored) \in Nat
  BY FS_CardinalityType DEF EventIInv, Counted
<1>8. IsFiniteSet(stored') /\ Cardinality(stored') = Cardinality(stored) + 1
  BY <1>3, <1>7, FS_AddElement
<1>9. \A e \in Events : Whole(e) => Whole(e)'
  BY DEF Whole
<1>10. ASSUME NEW e \in Events, e # n PROVE FileOf(e)' = FileOf(e) /\ (Whole(e)' => Whole(e))
  <2>1. File(e, FALSE) # f
    BY SMT, <1>10 DEF File
  <2> QED BY <2>1, <1>3, <1>10 DEF FileOf, Whole
<1>11. half = FALSE => Whole(n)'
  BY DEF Whole
<1> QED BY <1>1, <1>2, <1>5, <1>6, <1>7, <1>8, <1>9, <1>10, <1>11

\* An event is stored, or refused because the store is full.
LEMMA PutEventIInv == ASSUME EventIInv, PutEvent PROVE EventIInv'
<1> PICK n : n = raised + 1
  OBVIOUS
<1>1. /\ opened /\ raised < NEvents /\ raised' = n
      /\ UNCHANGED <<opened, replaying, keys, sender, targetUp, delivered, unread, targetOutages, mishaps, halfWritten>>
  BY DEF PutEvent
<1>2. raised \in Nat /\ count \in Nat /\ NEvents \in Nat /\ EntryLimit \in Nat /\ halfWritten \in Nat
  BY SMT, EventAssumption DEF EventIInv, EventTypeOK
<1>3. CASE Full
  <2>1. UNCHANGED <<stored, count, accepted>>
    BY <1>3 DEF PutEvent
  <2>2. EventTypeOK'
    <3>1. raised' \in 0..NEvents
      BY SMT, <1>1, <1>2
    <3> QED BY <1>1, <2>1, <3>1 DEF EventIInv, EventTypeOK
  <2>3. NotRaised'
    <3>1. \A e \in Events : e > raised' => e > raised
      BY SMT, <1>1, <1>2 DEF Events
    <3> QED BY <1>1, <2>1, <3>1 DEF EventIInv, NotRaised, FileOf
  <2>4. Counted'
    <3>1. \A x \in Nat : x <= raised => x <= raised'
      BY SMT, <1>1, <1>2
    <3>2. Cardinality(stored) \in Nat
      BY FS_CardinalityType DEF EventIInv, Counted
    <3> QED BY <1>1, <1>2, <2>1, <3>1, <3>2 DEF EventIInv, Counted
  <2> QED BY <1>1, <2>1, <2>2, <2>3, <2>4 DEF EventIInv, OneFile, Sending, Once, Whole, NothingLost,
             StoreBounded, NoSpontaneousDuplicate
<1>4. CASE ~Full
  <2>1. /\ stored' = stored \cup {File(n, FALSE)}
        /\ count' = count + 1 /\ accepted' = accepted \cup {n}
    BY <1>4 DEF PutEvent
  <2>2. /\ n \in Events /\ stored' \subseteq Files /\ OneFile'
        /\ IsFiniteSet(stored') /\ Cardinality(stored') = Cardinality(stored) + 1
        /\ \A e \in Events : Whole(e) => Whole(e)'
        /\ \A e \in Events : e # n => FileOf(e)' = FileOf(e) /\ (Whole(e)' => Whole(e))
        /\ Whole(n)'
        /\ delivered[n] = 0 /\ Cardinality(stored) \in Nat
    BY <2>1, <1>1, NewFile
  <2>3. count < EntryLimit
    BY SMT, <1>2, <1>4 DEF Full
  <2>4. raised' \in 0..NEvents /\ count' \in 0..NEvents /\ count' <= EntryLimit /\ count' <= raised'
    BY SMT, <1>1, <1>2, <2>1, <2>3 DEF EventIInv, Counted
  <2>5. EventTypeOK'
    BY <1>1, <2>1, <2>2, <2>4 DEF EventIInv, EventTypeOK
  <2>6. NotRaised'
    <3>1. \A e \in Events : e > raised' => e > raised /\ e # n
      BY SMT, <1>1, <1>2 DEF Events
    <3> QED BY <1>1, <2>2, <3>1 DEF EventIInv, NotRaised
  <2>7. Counted' /\ StoreBounded'
    <3>1. /\ Cardinality(stored') <= raised' /\ Cardinality(stored') <= count' + halfWritten'
          /\ Cardinality(stored') <= EntryLimit + halfWritten'
      BY SMT, <1>1, <1>2, <2>1, <2>2, <2>3 DEF EventIInv, Counted
    <3> QED BY <2>2, <2>4, <3>1 DEF Counted, StoreBounded
  <2>8. Sending'
    BY <1>1, <2>2 DEF EventIInv, Sending
  <2>9. Once'
    <3>1. 0 <= mishaps
      BY SMT DEF EventIInv, EventTypeOK
    <3> QED BY <1>1, <2>2, <3>1 DEF EventIInv, Once
  <2>10. NothingLost'
    BY <1>1, <2>1, <2>2 DEF EventIInv, NothingLost, EventTypeOK
  <2>11. NoSpontaneousDuplicate'
    BY <1>1 DEF EventIInv, NoSpontaneousDuplicate
  <2> QED BY <2>2, <2>5, <2>6, <2>7, <2>8, <2>9, <2>10, <2>11 DEF EventIInv
<1> QED BY <1>3, <1>4

\* A write that fails leaves a file that is counted as halfWritten.
LEMMA PutEventFailsIInv == ASSUME EventIInv, PutEventFails PROVE EventIInv'
<1> PICK n : n = raised + 1
  OBVIOUS
<1>1. /\ opened /\ raised < NEvents /\ raised' = n /\ mishaps' = mishaps + 1
      /\ stored' = stored \cup {File(n, TRUE)} /\ halfWritten' = halfWritten + 1
      /\ UNCHANGED <<count, opened, replaying, keys, sender, targetUp, accepted, delivered, unread, targetOutages>>
  BY DEF PutEventFails
<1>2. /\ raised \in Nat /\ count \in Nat /\ NEvents \in Nat /\ EntryLimit \in Nat
      /\ halfWritten \in Nat /\ mishaps \in Nat
  BY SMT, EventAssumption DEF EventIInv, EventTypeOK
<1>3. /\ n \in Events /\ stored' \subseteq Files /\ OneFile'
      /\ IsFiniteSet(stored') /\ Cardinality(stored') = Cardinality(stored) + 1
      /\ \A e \in Events : Whole(e) => Whole(e)'
      /\ \A e \in Events : e # n => FileOf(e)' = FileOf(e) /\ (Whole(e)' => Whole(e))
      /\ delivered[n] = 0 /\ Cardinality(stored) \in Nat
  BY <1>1, NewFile
<1>4. EventTypeOK'
  <2>1. raised' \in 0..NEvents /\ mishaps' \in Nat /\ halfWritten' \in Nat
    BY SMT, <1>1, <1>2
  <2> QED BY <1>1, <1>3, <2>1 DEF EventIInv, EventTypeOK
<1>5. NotRaised'
  <2>1. \A e \in Events : e > raised' => e > raised /\ e # n
    BY SMT, <1>1, <1>2 DEF Events
  <2> QED BY <1>1, <1>3, <2>1 DEF EventIInv, NotRaised
<1>6. Counted' /\ StoreBounded'
  <2>1. /\ Cardinality(stored') <= raised' /\ Cardinality(stored') <= count' + halfWritten'
        /\ Cardinality(stored') <= EntryLimit + halfWritten' /\ count' <= raised'
    BY SMT, <1>1, <1>2, <1>3 DEF EventIInv, Counted
  <2> QED BY <1>1, <1>3, <2>1 DEF EventIInv, Counted, StoreBounded
<1>7. Sending'
  BY <1>1, <1>3 DEF EventIInv, Sending
<1>8. \A e \in Events : \A k \in Nat : delivered[e] <= k => delivered[e] <= k + 1
  BY SMT DEF EventIInv, EventTypeOK
<1>9. Once'
  <2>1. 0 <= mishaps'
    BY SMT, <1>1, <1>2
  <2> QED BY <1>1, <1>2, <1>3, <1>8, <2>1 DEF EventIInv, Once
<1>10. NothingLost'
  BY <1>1, <1>3 DEF EventIInv, NothingLost, EventTypeOK
<1>11. NoSpontaneousDuplicate'
  BY SMT, <1>1, <1>2 DEF EventIInv, EventTypeOK, NoSpontaneousDuplicate
<1> QED BY <1>3, <1>4, <1>5, <1>6, <1>7, <1>9, <1>10, <1>11 DEF EventIInv

\* The file of an event is removed, if there is one.
LEMMA FileGone ==
  ASSUME EventIInv, opened, NEW e \in Events, RemoveFile(e)
  PROVE  /\ stored' \subseteq stored /\ OneFile' /\ FileOf(e)' = {} /\ ~Whole(e)'
         /\ \A d \in Events : d # e => FileOf(d)' = FileOf(d) /\ (Whole(d)' <=> Whole(d))
         /\ IsFiniteSet(stored') /\ Cardinality(stored') <= Cardinality(stored)
         /\ count' \in 0..NEvents /\ count' <= count
         /\ Cardinality(stored') <= count' + halfWritten
         /\ Cardinality(stored) \in Nat /\ Cardinality(stored') \in Nat
<1>1. /\ IsFiniteSet(stored) /\ Cardinality(stored) \in Nat
      /\ Cardinality(stored) <= count + halfWritten
  BY FS_CardinalityType DEF EventIInv, Counted
<1>2. count \in 0..NEvents /\ halfWritten \in Nat /\ NEvents \in Nat
  BY EventAssumption DEF EventIInv, EventTypeOK
<1>3. stored' = stored \ FileOf(e)
  BY DEF RemoveFile
<1>4. stored' \subseteq stored /\ FileOf(e)' = {}
  BY <1>3 DEF FileOf
<1>5. OneFile'
  BY <1>4 DEF EventIInv, OneFile
<1>6. \A d : File(d, FALSE).event = d
  BY SMT DEF File
<1>7. ~Whole(e)'
  BY <1>4, <1>6 DEF FileOf, Whole
<1>8. ASSUME NEW d \in Events, d # e PROVE FileOf(d)' = FileOf(d) /\ (Whole(d)' <=> Whole(d))
  BY <1>3, <1>6, <1>8 DEF FileOf, Whole
<1>9. CASE FileOf(e) = {}
  <2>1. UNCHANGED <<stored, count>>
    BY <1>9 DEF RemoveFile
  <2>2. Cardinality(stored') <= Cardinality(stored) /\ count' <= count
    BY SMT, <1>1, <1>2, <2>1
  <2> QED BY <1>1, <1>2, <1>4, <1>5, <1>7, <1>8, <2>1, <2>2
<1>10. CASE FileOf(e) # {}
  <2>1. PICK f \in stored : f.event = e
    BY <1>10 DEF FileOf
  <2>2. FileOf(e) = {f}
    BY <2>1 DEF FileOf, EventIInv, OneFile
  <2>3. stored' = stored \ {f}
    BY <1>3, <2>2
  <2>4. IsFiniteSet(stored') /\ Cardinality(stored') = Cardinality(stored) - 1
    BY <1>1, <2>1, <2>3, FS_RemoveElement
  <2>5. count' = IF count = 0 THEN 0 ELSE count - 1
    BY <1>10 DEF RemoveFile
  <2>6. Cardinality(stored') \in Nat
    BY <2>4, FS_CardinalityType
  <2>7. /\ Cardinality(stored') <= Cardinality(stored) /\ count' \in 0..NEvents /\ count' <= count
        /\ Cardinality(stored') <= count' + halfWritten
    BY SMT, <1>1, <1>2, <2>4, <2>5, <2>6
  <2> QED BY <1>1, <1>4, <1>5, <1>7, <1>8, <2>4, <2>6, <2>7
<1> QED BY <1>9, <1>10

\* What removing the file of e leaves of the invariant, when nobody sends any
\* more: e is delivered, its file was broken, or could not be read.
LEMMA FileGoneIInv ==
  ASSUME EventIInv, opened, NEW e \in Events, RemoveFile(e), sender.key = e, sender' = Idle,
         \/ UNCHANGED <<mishaps, unread>> /\ (delivered[e] > 0 \/ ~Whole(e))
         \/ mishaps' = mishaps + 1 /\ unread' = unread \cup {e} /\ Whole(e),
         UNCHANGED <<opened, replaying, keys, targetUp, raised, accepted, delivered, targetOutages, halfWritten>>
  PROVE  EventIInv'
<1>1. /\ stored' \subseteq stored /\ OneFile' /\ FileOf(e)' = {} /\ ~Whole(e)'
      /\ \A d \in Events : d # e => FileOf(d)' = FileOf(d) /\ (Whole(d)' <=> Whole(d))
      /\ IsFiniteSet(stored') /\ Cardinality(stored') <= Cardinality(stored)
      /\ count' \in 0..NEvents /\ count' <= count
      /\ Cardinality(stored') <= count' + halfWritten
      /\ Cardinality(stored) \in Nat /\ Cardinality(stored') \in Nat
  BY FileGone
<1>2. sender'.key = 0 /\ sender'.at = "idle" /\ sender' \in [key: 0..NEvents, at: {"idle", "get", "post", "del"}]
  BY SMT, EventAssumption DEF Idle
<1>9. /\ mishaps \in Nat /\ mishaps' \in Nat /\ unread \subseteq unread' /\ unread' \subseteq Events
      /\ \A k \in Nat : k <= mishaps => k <= mishaps'
      /\ \A k \in Nat : k <= 1 + mishaps => k <= 1 + mishaps'
  <2>1. mishaps \in Nat /\ (mishaps' = mishaps \/ mishaps' = mishaps + 1)
    BY DEF EventIInv, EventTypeOK
  <2>2. /\ mishaps' \in Nat /\ \A k \in Nat : k <= mishaps => k <= mishaps'
        /\ \A k \in Nat : k <= 1 + mishaps => k <= 1 + mishaps'
    BY ONLY <2>1, SMT
  <2> QED BY <2>1, <2>2 DEF EventIInv, EventTypeOK
<1>3. EventTypeOK'
  BY <1>1, <1>2, <1>9 DEF EventIInv, EventTypeOK
<1>4. NotRaised'
  <2>1. Whole(e) => FileOf(e) # {}
    BY SMT DEF Whole, FileOf, File
  <2>2. Whole(e) => ~(e > raised)
    BY <2>1 DEF EventIInv, NotRaised
  <2> QED BY <1>1, <2>2 DEF EventIInv, NotRaised
<1>5. Counted' /\ StoreBounded'
  <2>1. /\ count \in Nat /\ count' \in Nat /\ raised \in Nat /\ EntryLimit \in Nat /\ halfWritten \in Nat
    BY SMT, <1>1, EventAssumption DEF EventIInv, EventTypeOK
  <2>2. /\ count <= EntryLimit /\ count <= raised /\ Cardinality(stored) <= raised
        /\ raised' = raised /\ halfWritten' = halfWritten
    BY DEF EventIInv, Counted
  <2>3. /\ count' <= count /\ Cardinality(stored') <= Cardinality(stored)
        /\ Cardinality(stored') <= count' + halfWritten
        /\ Cardinality(stored) \in Nat /\ Cardinality(stored') \in Nat
    BY <1>1
  <2>4. /\ count' <= EntryLimit /\ count' <= raised /\ Cardinality(stored') <= raised
        /\ Cardinality(stored') <= EntryLimit + halfWritten
    BY ONLY <2>1, <2>2, <2>3, SMT
  <2> QED BY <1>1, <2>2, <2>4 DEF Counted, StoreBounded
<1>6. Sending'
  BY <1>2 DEF Sending
<1>7. ASSUME NEW d \in Events, Whole(d)' PROVE delivered'[d] <= mishaps'
  <2>1. d # e /\ Whole(d)
    BY <1>1, <1>7
  <2>2. delivered[d] <= mishaps /\ delivered[d] \in Nat
    BY <2>1 DEF EventIInv, Once, EventTypeOK
  <2> QED BY <1>9, <2>2
<1>8. NothingLost'
  BY <1>1, <1>9 DEF EventIInv, NothingLost, EventTypeOK
<1>10. NoSpontaneousDuplicate'
  BY <1>9 DEF EventIInv, NoSpontaneousDuplicate, EventTypeOK
<1> QED BY <1>1, <1>3, <1>4, <1>5, <1>6, <1>7, <1>8, <1>10 DEF EventIInv, Once

\* Get moves on to the post, or drops a file that is gone or broken.
LEMMA GetEventIInv == ASSUME EventIInv, GetEvent PROVE EventIInv'
<1> PICK e : e = sender.key
  OBVIOUS
<1>1. /\ replaying /\ sender.at = "get"
      /\ UNCHANGED <<opened, replaying, keys, targetUp, raised, accepted, delivered, unread, targetOutages, mishaps, halfWritten>>
  BY DEF GetEvent
<1>2. e \in Events /\ opened
  BY <1>1 DEF EventIInv, EventTypeOK, Sending
<1>3. CASE Whole(e)
  <2>1. sender' = [sender EXCEPT !.at = "post"] /\ UNCHANGED <<stored, count>>
    BY <1>3 DEF GetEvent
  <2>2. /\ sender'.key = e /\ sender'.at = "post"
        /\ sender' \in [key: 0..NEvents, at: {"idle", "get", "post", "del"}]
    BY SMT, <2>1 DEF EventIInv, EventTypeOK
  <2>3. EventTypeOK'
    BY <1>1, <2>1, <2>2 DEF EventIInv, EventTypeOK
  <2>4. Sending' /\ Once'
    BY <1>1, <1>2, <1>3, <2>1, <2>2 DEF EventIInv, Sending, Once, Whole
  <2> QED BY <1>1, <2>1, <2>3, <2>4 DEF EventIInv, NotRaised, FileOf, Whole, Counted, OneFile,
             NothingLost, StoreBounded, NoSpontaneousDuplicate
<1>4. CASE ~Whole(e)
  <2>1. sender' = Idle /\ RemoveFile(e)
    BY <1>4 DEF GetEvent
  <2> QED BY <1>1, <1>2, <1>4, <2>1, FileGoneIInv
<1> QED BY <1>3, <1>4

\* The file of a delivered event is deleted.
LEMMA DeleteEventIInv == ASSUME EventIInv, DeleteEvent PROVE EventIInv'
<1> PICK e : e = sender.key
  OBVIOUS
<1>1. /\ replaying /\ sender.at = "del" /\ RemoveFile(e) /\ sender' = Idle
      /\ UNCHANGED <<opened, replaying, keys, targetUp, raised, accepted, delivered, unread, targetOutages, mishaps, halfWritten>>
  BY DEF DeleteEvent
<1>2. e \in Events /\ delivered[e] > 0 /\ opened
  BY <1>1 DEF EventIInv, EventTypeOK, Sending
<1> QED BY <1>1, <1>2, FileGoneIInv

\* A whole file that cannot be read is removed all the same.
LEMMA ReadEventFailsIInv == ASSUME EventIInv, ReadEventFails PROVE EventIInv'
<1> PICK e : e = sender.key
  OBVIOUS
<1>1. /\ replaying /\ sender.at = "get" /\ Whole(e) /\ RemoveFile(e) /\ sender' = Idle
      /\ mishaps' = mishaps + 1 /\ unread' = unread \cup {e}
      /\ UNCHANGED <<opened, replaying, keys, targetUp, raised, accepted, delivered, targetOutages, halfWritten>>
  BY DEF ReadEventFails
<1>2. e \in Events /\ opened
  BY <1>1 DEF EventIInv, EventTypeOK, Sending
<1> QED BY <1>1, <1>2, FileGoneIInv

\* A removal that fails sends a delivered event once more.
LEMMA DeleteEventFailsIInv == ASSUME EventIInv, DeleteEventFails PROVE EventIInv'
<1>1. /\ sender.at = "del" /\ mishaps' = mishaps + 1 /\ sender' = [sender EXCEPT !.at = "get"]
      /\ UNCHANGED <<stored, count, opened, replaying, keys, targetUp, raised, accepted, delivered, unread,
                     targetOutages, halfWritten>>
  BY DEF DeleteEventFails
<1>2. /\ sender'.key = sender.key /\ sender'.at = "get" /\ sender.key \in Events
      /\ sender' \in [key: 0..NEvents, at: {"idle", "get", "post", "del"}]
  <2>1. sender \in [key: 0..NEvents, at: {"idle", "get", "post", "del"}] /\ sender.key \in Events
    BY <1>1 DEF EventIInv, EventTypeOK, Sending
  <2> QED BY SMT, <1>1, <2>1
<1>3. mishaps' \in Nat /\ \A d \in Events : delivered[d] <= mishaps' /\ delivered[d] <= 1 + mishaps'
  <2>1. mishaps \in Nat /\ \A d \in Events : delivered[d] \in Nat /\ delivered[d] <= 1 + mishaps
    BY DEF EventIInv, EventTypeOK, NoSpontaneousDuplicate
  <2> QED BY SMT, <1>1, <2>1
<1>4. EventTypeOK'
  BY <1>1, <1>2, <1>3 DEF EventIInv, EventTypeOK
<1>5. Sending' /\ Once' /\ NoSpontaneousDuplicate'
  BY <1>1, <1>2, <1>3 DEF Sending, Once, NoSpontaneousDuplicate
<1> QED BY <1>1, <1>4, <1>5 DEF EventIInv, NotRaised, FileOf, Counted, OneFile,
           NothingLost, Whole, StoreBounded

\* The target gets the event, with a clear or an unclear outcome.
LEMMA PostedIInv ==
  ASSUME EventIInv, PostEvent \/ PostUnclear
  PROVE  EventIInv'
<1> PICK e : e = sender.key
  OBVIOUS
<1>1. /\ sender.at = "post" /\ delivered' = [delivered EXCEPT ![e] = @ + 1]
      /\ UNCHANGED <<stored, count, opened, replaying, keys, targetUp, raised, accepted, unread, targetOutages, halfWritten>>
  BY DEF PostEvent, PostUnclear
<1>2. e \in Events /\ Whole(e)
  BY <1>1 DEF EventIInv, Sending
<1>3. \/ sender' = [sender EXCEPT !.at = "del"] /\ mishaps' = mishaps
      \/ sender' = [sender EXCEPT !.at = "get"] /\ mishaps' = mishaps + 1
  BY DEF PostEvent, PostUnclear
<1>4. /\ sender'.key = e /\ sender' \in [key: 0..NEvents, at: {"idle", "get", "post", "del"}]
      /\ \/ sender'.at = "del" /\ mishaps' = mishaps
         \/ sender'.at = "get" /\ mishaps' = mishaps + 1
  BY SMT, <1>3 DEF EventIInv, EventTypeOK
<1>5. /\ mishaps \in Nat /\ mishaps' \in Nat /\ delivered' \in [Events -> Nat]
      /\ delivered'[e] = delivered[e] + 1 /\ delivered[e] \in Nat
      /\ \A d \in Events : d # e => delivered'[d] = delivered[d]
  <2>1. mishaps \in Nat /\ delivered \in [Events -> Nat] /\ (mishaps' = mishaps \/ mishaps' = mishaps + 1)
    BY <1>4 DEF EventIInv, EventTypeOK
  <2>2. delivered' = [delivered EXCEPT ![e] = @ + 1]
    BY <1>1
  <2> QED BY ONLY <1>2, <2>1, <2>2, SMT
<1>6. delivered[e] <= mishaps
  BY <1>1, <1>2 DEF EventIInv, Once
<1>7. EventTypeOK'
  BY <1>1, <1>4, <1>5 DEF EventIInv, EventTypeOK
<1>8. NotRaised'
  <2>1. ~(e > raised)
    <3>1. FileOf(e) # {}
      BY <1>2, SMT DEF Whole, FileOf, File
    <3> QED BY <1>2, <3>1 DEF EventIInv, NotRaised
  <2> QED BY <1>1, <1>5, <2>1 DEF EventIInv, NotRaised, FileOf
<1>9. delivered'[e] > 0
  BY SMT, <1>5
<1>10. Sending'
  BY <1>1, <1>2, <1>4, <1>9 DEF Sending, Whole
<1>11. ASSUME NEW d \in Events, Whole(d)', ~(sender'.key = d /\ sender'.at = "del")
       PROVE  delivered'[d] <= mishaps'
  <2>1. CASE d = e
    BY SMT, <1>4, <1>5, <1>6, <1>11, <2>1
  <2>2. CASE d # e
    <3>1. delivered[d] <= mishaps /\ delivered[d] \in Nat
      BY <1>1, <1>11, <2>2 DEF EventIInv, Once, Whole, EventTypeOK
    <3> QED BY SMT, <1>4, <1>5, <2>2, <3>1
  <2> QED BY <2>1, <2>2
<1>12. NothingLost'
  BY <1>1, <1>5, <1>9 DEF EventIInv, NothingLost, EventTypeOK, Whole
<1>13. ASSUME NEW d \in Events PROVE delivered'[d] <= 1 + mishaps'
  <2>1. delivered[d] <= 1 + mishaps /\ delivered[d] \in Nat
    BY DEF EventIInv, NoSpontaneousDuplicate, EventTypeOK
  <2> QED BY SMT, <1>4, <1>5, <1>6, <2>1
<1> QED BY <1>1, <1>7, <1>8, <1>10, <1>11, <1>12, <1>13
        DEF EventIInv, Counted, OneFile, Once, StoreBounded, NoSpontaneousDuplicate

\* The steps of the replay that change only the sender and the listing.
LEMMA ReplayIInv ==
  ASSUME EventIInv, ListKeys \/ HandOver \/ PostFails
  PROVE  EventIInv'
<1>1. UNCHANGED <<stored, count, opened, replaying, targetUp, raised, accepted, delivered, unread, targetOutages, mishaps, halfWritten>>
  BY DEF ListKeys, HandOver, PostFails
<1>2. keys' \subseteq Events
  <2>1. CASE ListKeys
    <3>1. \A f \in stored : f.event \in Events
      BY SMT DEF EventIInv, EventTypeOK, Files
    <3> QED BY <2>1, <3>1 DEF ListKeys
  <2>2. CASE HandOver
    BY <2>2 DEF HandOver, EventIInv, EventTypeOK
  <2>3. CASE PostFails
    BY <2>3 DEF PostFails, EventIInv, EventTypeOK
  <2> QED BY <2>1, <2>2, <2>3
<1>3. \/ sender' = sender
      \/ /\ sender'.key \in Events /\ sender'.at = "get" /\ sender.at # "del"
         /\ sender' \in [key: 0..NEvents, at: {"idle", "get", "post", "del"}]
  <2>1. CASE ListKeys
    BY <2>1 DEF ListKeys
  <2>2. CASE HandOver
    <3>1. PICK e \in keys : sender' = [key |-> e, at |-> "get"]
      BY <2>2 DEF HandOver
    <3>2. e \in Events /\ e \in 0..NEvents /\ sender.at = "idle"
      BY SMT, <2>2, EventAssumption DEF EventIInv, EventTypeOK, HandOver, Idle, Events
    <3> QED BY SMT, <3>1, <3>2
  <2>3. CASE PostFails
    <3>1. sender.key \in Events
      BY <2>3 DEF PostFails, EventIInv, Sending
    <3>2. sender' = [sender EXCEPT !.at = "get"] /\ sender.at = "post"
      BY <2>3 DEF PostFails
    <3> QED BY SMT, <3>1, <3>2 DEF EventIInv, EventTypeOK
  <2> QED BY <2>1, <2>2, <2>3
<1>4. EventTypeOK'
  BY <1>1, <1>2, <1>3 DEF EventIInv, EventTypeOK
<1>5. Sending'
  BY <1>1, <1>3 DEF EventIInv, Sending, Whole
<1>6. Once'
  BY <1>1, <1>3 DEF EventIInv, Once, Whole
<1> QED BY <1>1, <1>4, <1>5, <1>6 DEF EventIInv, NotRaised, FileOf, Counted, OneFile,
           NothingLost, Whole, StoreBounded, NoSpontaneousDuplicate

\* A target without a store posts a new event at once, or loses it.
LEMMA SendDirectlyIInv == ASSUME EventIInv, SendDirectly PROVE EventIInv'
<1> PICK n : n = raised + 1
  OBVIOUS
<1>1. /\ raised < NEvents /\ raised' = n
      /\ delivered' = delivered \/ delivered' = [delivered EXCEPT ![n] = @ + 1]
      /\ UNCHANGED <<stored, count, opened, replaying, keys, sender, targetUp, accepted, unread, targetOutages, mishaps, halfWritten>>
  BY DEF SendDirectly
<1>2. /\ n \in Events /\ n > raised /\ n \in 0..NEvents /\ mishaps \in Nat
      /\ \A e \in Events : e > n => e > raised /\ e # n
      /\ raised \in Nat /\ \A k \in Nat : k <= raised => k <= n
  <2>1. raised \in Nat /\ NEvents \in Nat /\ mishaps \in Nat
    BY SMT, EventAssumption DEF EventIInv, EventTypeOK
  <2> QED BY SMT, <1>1, <2>1 DEF Events
<1>3. delivered[n] = 0 /\ FileOf(n) = {} /\ n \notin unread
  BY <1>2 DEF EventIInv, NotRaised
<1>4. /\ delivered' \in [Events -> Nat] /\ delivered'[n] \in {0, 1}
      /\ \A d \in Events : d # n => delivered'[d] = delivered[d]
  BY SMT, <1>1, <1>2, <1>3 DEF EventIInv, EventTypeOK
<1>5. ~Whole(n)
  <2>1. File(n, FALSE).event = n
    BY SMT DEF File
  <2> QED BY <1>3, <2>1 DEF Whole, FileOf
<1>6. EventTypeOK'
  BY <1>1, <1>2, <1>4 DEF EventIInv, EventTypeOK
<1>7. NotRaised'
  BY <1>1, <1>2, <1>4 DEF EventIInv, NotRaised, FileOf
<1>8. Counted'
  <2>1. Cardinality(stored) \in Nat /\ count \in Nat
    BY SMT, FS_CardinalityType, EventAssumption DEF EventIInv, Counted, EventTypeOK
  <2> QED BY <1>1, <1>2, <2>1 DEF EventIInv, Counted
<1>9. Sending'
  BY <1>1, <1>4, <1>5 DEF EventIInv, Sending, Whole
<1>10. Once'
  BY <1>1, <1>4, <1>5 DEF EventIInv, Once, Whole
<1>11. NothingLost'
  <2>1. ~(delivered[n] > 0)
    BY SMT, <1>3
  <2>2. n \notin accepted
    BY <1>3, <1>5, <2>1 DEF EventIInv, NothingLost
  <2> QED BY <1>1, <1>4, <2>2 DEF EventIInv, NothingLost, Whole, EventTypeOK
<1>12. NoSpontaneousDuplicate'
  <2>1. delivered'[n] <= 1 + mishaps
    BY SMT, <1>2, <1>4
  <2> QED BY <1>1, <1>4, <2>1 DEF EventIInv, NoSpontaneousDuplicate
<1> QED BY <1>1, <1>6, <1>7, <1>8, <1>9, <1>10, <1>11, <1>12 DEF EventIInv, OneFile, StoreBounded

\* The target goes down and comes back.
LEMMA OutageIInv ==
  ASSUME EventIInv, TargetDown \/ TargetUp
  PROVE  EventIInv'
<1>1. /\ UNCHANGED <<stored, count, opened, replaying, keys, sender, raised, accepted, delivered, unread, mishaps, halfWritten>>
      /\ targetUp' \in BOOLEAN
  BY DEF TargetDown, TargetUp
<1>2. targetOutages' \in Nat
  BY SMT DEF TargetDown, TargetUp, EventIInv, EventTypeOK
<1>3. EventTypeOK'
  BY <1>1, <1>2 DEF EventIInv, EventTypeOK
<1> QED BY <1>1, <1>3 DEF EventIInv, NotRaised, FileOf, Counted, OneFile, Sending, Once,
           NothingLost, Whole, StoreBounded, NoSpontaneousDuplicate

\* A restart forgets the listing and the send, and counts the files again.
LEMMA RestartIInv == ASSUME EventIInv, RestartServer PROVE EventIInv'
<1>1. /\ mishaps' = mishaps + 1 /\ OpenStore /\ keys' = {} /\ sender' = Idle
      /\ UNCHANGED <<stored, targetUp, raised, accepted, delivered, unread, targetOutages, halfWritten>>
  BY DEF RestartServer
<1>2. sender'.at = "idle" /\ sender' \in [key: 0..NEvents, at: {"idle", "get", "post", "del"}]
  BY SMT, <1>1, EventAssumption DEF Idle
<1>3. mishaps \in Nat /\ mishaps' \in Nat
  BY SMT, <1>1 DEF EventIInv, EventTypeOK
<1>4. /\ IsFiniteSet(stored) /\ Cardinality(stored) \in Nat /\ Cardinality(stored) <= raised
      /\ raised \in 0..NEvents /\ NEvents \in Nat /\ EntryLimit \in Nat /\ halfWritten \in Nat
  BY FS_CardinalityType, EventAssumption DEF EventIInv, Counted, EventTypeOK
<1>5. opened' \in BOOLEAN /\ replaying' \in BOOLEAN /\ (replaying' => opened')
  BY <1>1 DEF OpenStore
<1>6. /\ count' \in 0..NEvents /\ count' <= EntryLimit /\ count' <= raised
      /\ opened' => Cardinality(stored) <= count' + halfWritten
  <2>1. CASE Cardinality(stored) >= EntryLimit
    <3>1. count' = 0 /\ ~opened'
      BY <1>1, <2>1 DEF OpenStore
    <3>2. 0 \in 0..NEvents /\ 0 <= EntryLimit /\ 0 <= raised
      BY SMT, <1>4
    <3> QED BY <3>1, <3>2
  <2>2. CASE ~(Cardinality(stored) >= EntryLimit)
    <3>1. count' = Cardinality(stored)
      BY <1>1, <2>2 DEF OpenStore
    <3> QED BY SMT, <1>4, <2>2, <3>1
  <2> QED BY <2>1, <2>2
<1>7. EventTypeOK'
  BY <1>1, <1>2, <1>3, <1>5, <1>6 DEF EventIInv, EventTypeOK
<1>8. Counted'
  BY <1>1, <1>4, <1>6 DEF Counted
<1>9. Once' /\ NoSpontaneousDuplicate'
  <2>1. \A d \in Events : delivered'[d] \in Nat /\ delivered'[d] <= 1 + mishaps
    BY <1>1 DEF EventIInv, NoSpontaneousDuplicate, EventTypeOK
  <2>2. \A d \in Events : delivered'[d] <= mishaps' /\ delivered'[d] <= 1 + mishaps'
    BY SMT, <1>1, <1>3, <2>1
  <2> QED BY <2>2 DEF Once, NoSpontaneousDuplicate
<1>10. Sending'
  BY <1>2 DEF Sending
<1> QED BY <1>1, <1>7, <1>8, <1>9, <1>10 DEF EventIInv, NotRaised, FileOf, OneFile, NothingLost,
           Whole, StoreBounded

\* Every step of the store, the replay, the target and the server preserves the invariant.
LEMMA EventNextIInv == EventIInv /\ [EventNext]_eventVars => EventIInv'
<1>1. ASSUME EventIInv, UNCHANGED eventVars PROVE EventIInv'
  BY <1>1 DEF eventVars, EventIInv, EventTypeOK, NotRaised, FileOf, Counted, OneFile, Sending, Once,
     NothingLost, Whole, StoreBounded, NoSpontaneousDuplicate
<1> QED BY <1>1, PutEventIInv, PutEventFailsIInv, SendDirectlyIInv, ReplayIInv, GetEventIInv,
           ReadEventFailsIInv, PostedIInv, DeleteEventIInv, DeleteEventFailsIInv, OutageIInv, RestartIInv DEF EventNext, Replay

\* The inductive invariant of the queue.
THEOREM EventInvariantHolds == EventSpec => []EventIInv
BY EventInitIInv, EventNextIInv, PTL DEF EventSpec

\* The queue of an event target loses no event it accepted but one whose file it
\* cannot read, keeps its limit but for failed writes, and repeats an event only
\* after a mishap: for any number of events, outages, restarts, unclear posts and
\* failed writes, reads and removals.
THEOREM QueueSoundHolds == EventSpec => []QueueSound
<1>1. EventIInv => QueueSound
  BY DEF EventIInv, QueueSound
<1> QED BY <1>1, EventInvariantHolds, PTL

-----------------------------------------------------------------------------
(* Dynamic timeouts.  A window is filled slot by slot by concurrent callers;   *)
(* what a copy of it says about failures needs the slots still being stored.   *)

CallerRec == [pc : {"rest", "store", "adjust", "set"}, index : Slots, dur : Durations \cup {0, Failure},
              copy : Logs, next : Nat]

\* The types, with the callers as one function.
TimeoutRest ==
  /\ entries \in 0..MaxLogged /\ log \in Logs /\ caller \in [Callers -> CallerRec]
  /\ logged \in 0..MaxLogged /\ entries <= logged /\ failures \in 0..logged /\ overtaken \in BOOLEAN

\* As long as nothing failed no failure is in the array, in a copy of it or on
\* its way there, and no timeout is above the first one.
AllSucceeded ==
  failures = 0 =>
    /\ timeout <= FirstTimeout
    /\ \A i \in Slots : log[i] # Failure
    /\ \A c \in Callers :
         /\ caller[c].dur # Failure /\ caller[c].next <= FirstTimeout
         /\ \A i \in Slots : caller[c].copy[i] # Failure

\* When everything failed and no slot was overtaken, the slots taken in this
\* round are distinct, those stored hold failures, and so does every copy.
SlotsHeld ==
  \A i \in Slots : i < entries => \/ log[i] = Failure
                                  \/ \E c \in Callers : caller[c].pc = "store" /\ caller[c].index = i
Storing ==
  \A c \in Callers : caller[c].pc = "store" => caller[c].dur = Failure /\ caller[c].index < entries
OwnSlots ==
  \A c, d \in Callers : caller[c].pc = "store" /\ caller[d].pc = "store" /\ caller[c].index = caller[d].index => c = d
NoShorter ==
  /\ timeout >= FirstTimeout
  /\ \A c \in Callers :
       /\ caller[c].pc = "adjust" => \A i \in Slots : caller[c].copy[i] = Failure
       /\ caller[c].pc = "set" => caller[c].next >= FirstTimeout
AllFailed ==
  failures = logged /\ ~overtaken => SlotsHeld /\ Storing /\ OwnSlots /\ NoShorter

TimeoutIInv == TimeoutRest /\ TimeoutInBounds /\ AllSucceeded /\ AllFailed

\* The types and the bounds the assumptions give.
LEMMA TimeoutFacts ==
  /\ LogSize \in Nat /\ LogSize > 0 /\ MaxLogged \in Nat
  /\ FirstTimeout \in Nat /\ Minimum \in Nat /\ MaxTimeout \in Nat
  /\ Minimum > 0 /\ Minimum <= FirstTimeout /\ FirstTimeout <= MaxTimeout
  /\ Durations \subseteq Nat /\ Failure \notin Durations /\ Failure # 0
<1>1. LogSize \in Nat \ {0} /\ MaxLogged \in Nat /\ Durations \subseteq Nat
  BY DynamicTimeoutAssumption
<1>2. FirstTimeout \in Nat \ {0} /\ Minimum \in Nat \ {0} /\ MaxTimeout \in Nat \ {0}
  BY DynamicTimeoutAssumption
<1>3. Failure \notin Nat /\ 0 \in Nat
  BY SMT DEF Failure
<1>4. LogSize > 0 /\ Minimum > 0
  BY SMT, <1>1, <1>2
<1> QED BY <1>1, <1>2, <1>3, <1>4, DynamicTimeoutAssumption

\* The values the timeout is raised and lowered to.
LEMMA RaisedBounds ==
  ASSUME NEW t \in Minimum..MaxTimeout
  PROVE  /\ Raised(t) \in Nat /\ Raised(t) \in Minimum..MaxTimeout
         /\ t >= FirstTimeout => Raised(t) >= FirstTimeout
<1>1. t \in Nat /\ Minimum <= t /\ t <= MaxTimeout
  BY SMT, TimeoutFacts
<1>2. PICK u : u = (t * 125) \div 100
  OBVIOUS
<1>3. u \in Nat /\ t <= u
  BY SMT, <1>1, <1>2
<1>4. Raised(t) = AtLeast(Minimum, AtMost(MaxTimeout, u))
  BY <1>2 DEF Raised
<1> QED BY SMT, <1>1, <1>3, <1>4, TimeoutFacts DEF AtLeast, AtMost

\* A lowered timeout stays between the minimum and the old value.
LEMMA LoweredBounds ==
  ASSUME NEW t \in Minimum..MaxTimeout, NEW mx \in Nat
  PROVE  /\ Lowered(t, mx) \in Nat /\ Lowered(t, mx) \in Minimum..MaxTimeout
         /\ t <= FirstTimeout => Lowered(t, mx) <= FirstTimeout
<1>1. t \in Nat /\ Minimum <= t /\ t <= MaxTimeout
  BY SMT, TimeoutFacts
<1>2. PICK u : u = IF mx < t THEN (mx + t) \div 2 ELSE t
  OBVIOUS
<1>3. u \in Nat /\ u <= t
  BY SMT, <1>1, <1>2
<1>4. Lowered(t, mx) = AtLeast(Minimum, u)
  BY <1>2 DEF Lowered
<1> QED BY SMT, <1>1, <1>3, <1>4, TimeoutFacts DEF AtLeast

\* A copy without failures has few, a copy of failures has many.
LEMMA FailedCounted ==
  ASSUME NEW copy
  PROVE  /\ (\A i \in Slots : copy[i] # Failure) => ~Many(copy)
         /\ (\A i \in Slots : copy[i] = Failure) => Many(copy) /\ ~Few(copy)
<1>1. ASSUME \A i \in Slots : copy[i] # Failure PROVE ~Many(copy)
  <2>1. {i \in Slots : copy[i] = Failure} = {}
    BY <1>1
  <2>2. Failed(copy) = 0
    BY <2>1, FS_EmptySet DEF Failed
  <2> QED BY SMT, <2>2, TimeoutFacts DEF Many
<1>2. ASSUME \A i \in Slots : copy[i] = Failure PROVE Many(copy) /\ ~Few(copy)
  <2>1. {i \in Slots : copy[i] = Failure} = 0..(LogSize - 1)
    BY <1>2 DEF Slots
  <2>2. Cardinality(0..(LogSize - 1)) = LogSize
    BY SMT, FS_Interval, TimeoutFacts
  <2>3. Failed(copy) = LogSize
    BY <2>1, <2>2 DEF Failed
  <2> QED BY SMT, <2>3, TimeoutFacts DEF Many, Few
<1> QED BY <1>1, <1>2

\* A caller that holds no slot of the window is at rest or setting the timeout.
LEMMA NotLoggingFacts ==
  /\ NotLogging \in CallerRec /\ FreshLog \in Logs
  /\ NotLogging.pc = "rest" /\ NotLogging.index = 0 /\ NotLogging.dur = 0
  /\ NotLogging.copy = FreshLog /\ NotLogging.next = 0
  /\ \A i \in Slots : FreshLog[i] = 0
<1>1. 0 \in Slots /\ 0 \in Nat
  BY SMT, TimeoutFacts DEF Slots
<1>2. FreshLog \in Logs
  BY DEF FreshLog, Logs
<1> QED BY <1>1, <1>2 DEF NotLogging, CallerRec, FreshLog

\* newDynamicTimeout: an empty window, and the timeout it was given.
LEMMA TimeoutInitIInv == TimeoutInit => TimeoutIInv
<1> SUFFICES ASSUME TimeoutInit PROVE TimeoutIInv
  OBVIOUS
<1>1. /\ timeout = FirstTimeout /\ entries = 0 /\ log = FreshLog
      /\ caller = [c \in Callers |-> NotLogging] /\ logged = 0 /\ failures = 0 /\ overtaken = FALSE
  BY DEF TimeoutInit
<1>2. caller \in [Callers -> CallerRec] /\ \A c \in Callers : caller[c] = NotLogging
  BY <1>1, NotLoggingFacts
<1>3. 0 \in 0..MaxLogged /\ 0 <= 0 /\ 0 \in 0..0 /\ FirstTimeout \in Minimum..MaxTimeout /\ 0 <= FirstTimeout
      /\ FirstTimeout <= FirstTimeout /\ FirstTimeout >= FirstTimeout /\ \A i \in Slots : ~(i < 0)
  BY SMT, TimeoutFacts DEF Slots
<1>4. TimeoutRest
  BY <1>1, <1>2, <1>3, NotLoggingFacts DEF TimeoutRest
<1>5. TimeoutInBounds
  BY <1>1, <1>2, <1>3, NotLoggingFacts DEF TimeoutInBounds
<1>6. AllSucceeded
  BY <1>1, <1>2, <1>3, NotLoggingFacts, TimeoutFacts DEF AllSucceeded
<1>7. AllFailed
  BY <1>1, <1>2, <1>3, NotLoggingFacts DEF AllFailed, SlotsHeld, Storing, OwnSlots, NoShorter
<1> QED BY <1>4, <1>5, <1>6, <1>7 DEF TimeoutIInv

\* A slot that was taken stays taken until the window is copied.
LEMMA SlotsStayHeld ==
  ASSUME SlotsHeld, log' = log, entries' = entries,
         \A e \in Callers : caller[e].pc = "store" => caller'[e] = caller[e]
  PROVE  SlotsHeld'
<1> SUFFICES ASSUME NEW i \in Slots, i < entries, log[i] # Failure
             PROVE  \E e \in Callers : caller'[e].pc = "store" /\ caller'[e].index = i
  BY DEF SlotsHeld
<1>1. PICK e \in Callers : caller[e].pc = "store" /\ caller[e].index = i
  BY DEF SlotsHeld
<1> QED BY <1>1

\* An operation takes its slot, or finds none.
LEMMA LogEntryIInv ==
  ASSUME TimeoutIInv, NEW c \in Callers, NEW dur \in Durations \cup {Failure}, LogEntry(c, dur)
  PROVE  TimeoutIInv'
<1> PICK r : r = [NotLogging EXCEPT !.pc = "store", !.index = entries, !.dur = dur]
  OBVIOUS
<1>1. /\ caller[c].pc = "rest" /\ logged < MaxLogged /\ logged' = logged + 1 /\ entries' = entries + 1
      /\ failures' = IF dur = Failure THEN failures + 1 ELSE failures
      /\ caller' = IF entries < LogSize THEN [caller EXCEPT ![c] = r] ELSE caller
      /\ timeout' = timeout /\ log' = log /\ overtaken' = overtaken
  BY DEF LogEntry
<1>2. caller \in [Callers -> CallerRec] /\ log \in Logs /\ overtaken \in BOOLEAN
  BY DEF TimeoutIInv, TimeoutRest
<1>3. r.pc = "store" /\ r.index = entries /\ r.dur = dur /\ r.copy = FreshLog /\ r.next = 0
  BY NotLoggingFacts DEF CallerRec
<1>4. /\ logged' \in 0..MaxLogged /\ entries' \in 0..MaxLogged /\ entries' <= logged' /\ failures' \in 0..logged'
      /\ entries < LogSize => entries \in Slots
      /\ failures' = 0 => failures = 0 /\ dur # Failure
      /\ failures' = logged' => failures = logged /\ dur = Failure
      /\ \A i \in Slots : i < entries' => i < entries \/ (i = entries /\ entries < LogSize)
      /\ \A i \in Slots : i < entries => i < entries' /\ i # entries
      /\ entries < entries' /\ 0 <= FirstTimeout
  <2>1. /\ entries \in Nat /\ logged \in Nat /\ failures \in Nat /\ failures <= logged /\ entries <= logged
        /\ logged < MaxLogged /\ MaxLogged \in Nat /\ LogSize \in Nat
    BY SMT, <1>1, TimeoutFacts DEF TimeoutIInv, TimeoutRest
  <2>2. logged' \in 0..MaxLogged /\ entries' \in 0..MaxLogged /\ entries' <= logged'
    BY SMT, <1>1, <2>1
  <2>3. CASE dur = Failure
    BY SMT, <1>1, <2>1, <2>2, <2>3, TimeoutFacts DEF Slots
  <2>4. CASE dur # Failure
    BY SMT, <1>1, <2>1, <2>2, <2>4, TimeoutFacts DEF Slots
  <2> QED BY <2>3, <2>4
<1>5. CASE ~(entries < LogSize)
  <2>1. caller' = caller
    BY <1>1, <1>5
  <2>2. TimeoutRest'
    BY <1>1, <1>2, <1>4, <2>1 DEF TimeoutRest
  <2>3. TimeoutInBounds' /\ AllSucceeded'
    BY <1>1, <1>4, <2>1 DEF TimeoutIInv, TimeoutInBounds, AllSucceeded
  <2>4. ASSUME failures' = logged', ~overtaken'
        PROVE  (SlotsHeld /\ Storing /\ OwnSlots /\ NoShorter)'
    <3>1. SlotsHeld /\ Storing /\ OwnSlots /\ NoShorter
      BY <1>1, <1>4, <2>4 DEF TimeoutIInv, AllFailed
    <3>2. \A e \in Callers : caller[e].index \in Slots
      BY <1>2 DEF CallerRec
    <3>3. SlotsHeld'
      BY SMTT(60), <1>1, <1>4, <1>5, <2>1, <3>1 DEF SlotsHeld
    <3>4. Storing'
      BY <1>4, <2>1, <3>1, <3>2 DEF Storing
    <3> QED BY <1>1, <2>1, <3>1, <3>3, <3>4 DEF OwnSlots, NoShorter
  <2>5. AllFailed'
    BY <2>4 DEF AllFailed
  <2> QED BY <2>2, <2>3, <2>5 DEF TimeoutIInv
<1>6. CASE entries < LogSize
  <2>0. r \in CallerRec
    BY <1>4, <1>6, NotLoggingFacts DEF CallerRec
  <2>1. /\ caller' \in [Callers -> CallerRec] /\ caller'[c] = r
        /\ \A e \in Callers : e # c => caller'[e] = caller[e]
    BY <1>1, <1>2, <1>6, <2>0
  <2>2. TimeoutRest'
    BY <1>1, <1>2, <1>4, <2>1 DEF TimeoutRest
  <2>3. TimeoutInBounds'
    BY <1>1, <1>3, <2>1 DEF TimeoutIInv, TimeoutInBounds
  <2>4. AllSucceeded'
    <3>1. ASSUME dur # Failure
          PROVE  r.dur # Failure /\ r.next <= FirstTimeout /\ \A i \in Slots : r.copy[i] # Failure
      BY <1>3, <1>4, <3>1, NotLoggingFacts, TimeoutFacts
    <3> QED BY SMTT(60), <1>1, <1>4, <2>1, <3>1 DEF TimeoutIInv, AllSucceeded
  <2>5. ASSUME failures' = logged', ~overtaken'
        PROVE  (SlotsHeld /\ Storing /\ OwnSlots /\ NoShorter)'
    <3>1. SlotsHeld /\ Storing /\ OwnSlots /\ NoShorter /\ dur = Failure
      BY <1>1, <1>4, <2>5 DEF TimeoutIInv, AllFailed
    <3>2. \A e \in Callers : caller[e].index \in Slots
      BY <1>2 DEF CallerRec
    <3>3. SlotsHeld'
      <4> SUFFICES ASSUME NEW i \in Slots, i < entries'
                   PROVE  log'[i] = Failure \/ \E e \in Callers : caller'[e].pc = "store" /\ caller'[e].index = i
        BY DEF SlotsHeld
      <4>1. CASE i < entries
        <5>1. ASSUME NEW e \in Callers, caller[e].pc = "store", caller[e].index = i
              PROVE  caller'[e].pc = "store" /\ caller'[e].index = i
          <6>1. e # c
            BY <1>1, <5>1
          <6> QED BY <2>1, <5>1, <6>1
        <5> QED BY <1>1, <3>1, <4>1, <5>1 DEF SlotsHeld
      <4>2. CASE i = entries
        BY <1>3, <2>1, <4>2
      <4> QED BY <1>4, <4>1, <4>2
    <3>4. Storing'
      BY ZenonT(60), <1>3, <1>4, <2>1, <3>1, <3>2 DEF Storing
    <3>5. OwnSlots'
      <4>1. ASSUME NEW e \in Callers, e # c, caller'[e].pc = "store"
            PROVE  caller'[e].index # caller'[c].index
        BY <1>3, <1>4, <2>1, <3>1, <3>2, <4>1 DEF Storing
      <4> QED BY ZenonT(60), <2>1, <3>1, <4>1 DEF OwnSlots
    <3>6. NoShorter'
      BY SMTT(60), <1>1, <1>3, <2>1, <3>1 DEF NoShorter
    <3> QED BY <3>3, <3>4, <3>5, <3>6
  <2>6. AllFailed'
    BY <2>5 DEF AllFailed
  <2> QED BY <2>2, <2>3, <2>4, <2>6 DEF TimeoutIInv
<1> QED BY <1>5, <1>6

\* A caller stores its duration; that of the last slot copies the array.
LEMMA StoreEntryIInv ==
  ASSUME TimeoutIInv, NEW c \in Callers, StoreEntry(c)
  PROVE  TimeoutIInv'
<1> PICK last : last = (caller[c].index = LogSize - 1)
  OBVIOUS
<1> PICK r : r = IF last THEN [NotLogging EXCEPT !.pc = "adjust", !.copy = log'] ELSE NotLogging
  OBVIOUS
<1>1. /\ caller[c].pc = "store" /\ log' = [log EXCEPT ![caller[c].index] = caller[c].dur]
      /\ entries' = IF last THEN 0 ELSE entries
      /\ caller' = [caller EXCEPT ![c] = r]
      /\ overtaken' = (overtaken \/ (last /\ \E d \in Callers \ {c} : caller[d].pc = "store"))
      /\ timeout' = timeout /\ logged' = logged /\ failures' = failures
  BY DEF StoreEntry
<1>2. caller \in [Callers -> CallerRec] /\ log \in Logs /\ overtaken \in BOOLEAN
  BY DEF TimeoutIInv, TimeoutRest
<1>3. caller[c].index \in Slots /\ caller[c].dur \in Durations \cup {0, Failure}
  BY <1>2 DEF CallerRec
<1>4. /\ log' \in Logs /\ log'[caller[c].index] = caller[c].dur
      /\ \A i \in Slots : i # caller[c].index => log'[i] = log[i]
  BY <1>1, <1>2, <1>3 DEF Logs
<1>5. /\ r \in CallerRec /\ r.dur = 0 /\ r.next = 0 /\ r.pc # "store" /\ r.pc # "set"
      /\ r.pc = "adjust" => last /\ r.copy = log'
      /\ r.copy = log' \/ r.copy = FreshLog
  BY <1>4, NotLoggingFacts DEF CallerRec
<1>6. /\ caller' \in [Callers -> CallerRec] /\ caller'[c] = r
      /\ \A e \in Callers : e # c => caller'[e] = caller[e]
  BY <1>1, <1>2, <1>5
<1>7. /\ entries' \in 0..MaxLogged /\ entries' <= logged' /\ overtaken' \in BOOLEAN /\ 0 <= FirstTimeout
      /\ \A i \in Slots : ~(i < 0) /\ (caller[c].index = LogSize - 1 => i = caller[c].index \/ i < caller[c].index)
      /\ \A i \in Slots : i < caller[c].index /\ caller[c].index < entries => i < entries
  <2>1. overtaken' \in BOOLEAN
    BY <1>1
  <2>2. LogSize \in Nat /\ LogSize > 0 /\ FirstTimeout \in Nat /\ MaxLogged \in Nat
    BY TimeoutFacts
  <2>3. /\ entries \in 0..MaxLogged /\ logged \in 0..MaxLogged /\ entries <= logged
    BY DEF TimeoutIInv, TimeoutRest
  <2>4. entries' = 0 \/ entries' = entries
    BY <1>1
  <2> QED BY SMT, <1>1, <1>3, <2>1, <2>2, <2>3, <2>4 DEF Slots
<1>8. TimeoutRest'
  BY <1>1, <1>4, <1>6, <1>7 DEF TimeoutIInv, TimeoutRest
<1>9. TimeoutInBounds'
  BY <1>1, <1>5, <1>6 DEF TimeoutIInv, TimeoutInBounds
<1>10. AllSucceeded'
  <2> SUFFICES ASSUME failures' = 0
               PROVE  /\ timeout' <= FirstTimeout
                      /\ \A i \in Slots : log'[i] # Failure
                      /\ \A e \in Callers :
                           /\ caller'[e].dur # Failure /\ caller'[e].next <= FirstTimeout
                           /\ \A i \in Slots : caller'[e].copy[i] # Failure
    BY DEF AllSucceeded
  <2>1. failures = 0
    BY <1>1
  <2>2. timeout' <= FirstTimeout /\ \A i \in Slots : log'[i] # Failure
    BY <1>1, <1>4, <2>1 DEF TimeoutIInv, AllSucceeded
  <2>3. r.dur # Failure /\ r.next <= FirstTimeout /\ \A i \in Slots : r.copy[i] # Failure
    BY <1>5, <1>7, <2>2, NotLoggingFacts, TimeoutFacts
  <2> QED BY <1>6, <2>1, <2>2, <2>3 DEF TimeoutIInv, AllSucceeded
<1>11. AllFailed'
  <2> SUFFICES ASSUME failures' = logged', ~overtaken'
               PROVE  (SlotsHeld /\ Storing /\ OwnSlots /\ NoShorter)'
    BY DEF AllFailed
  <2>1. SlotsHeld /\ Storing /\ OwnSlots /\ NoShorter
    BY <1>1 DEF TimeoutIInv, AllFailed
  <2>2. caller[c].dur = Failure /\ caller[c].index < entries
    BY <1>1, <2>1 DEF Storing
  <2>3. \A e \in Callers : caller'[e].pc = "store" => e # c /\ caller'[e] = caller[e]
    BY <1>5, <1>6
  <2>4. OwnSlots'
    BY <2>1, <2>3 DEF OwnSlots
  <2>5. CASE last
    <3>1. \A e \in Callers : caller[e].pc = "store" => e = c
      BY <1>1, <2>5
    <3>2. \A i \in Slots : i < entries => log[i] = Failure \/ i = caller[c].index
      BY <2>1, <3>1 DEF SlotsHeld
    <3>3. \A i \in Slots : log'[i] = Failure
      BY <1>4, <1>7, <2>2, <2>5, <3>2
    <3>4. SlotsHeld' /\ Storing'
      BY <2>3, <3>1, <3>3 DEF SlotsHeld, Storing
    <3>5. NoShorter'
      BY ZenonT(60), <1>1, <1>5, <1>6, <2>1, <3>3 DEF NoShorter
    <3> QED BY <2>4, <3>4, <3>5
  <2>6. CASE ~last
    <3>1. entries' = entries /\ r.pc # "adjust"
      BY <1>1, <1>5, <2>6
    <3>2. ASSUME NEW i \in Slots, i < entries, i # caller[c].index
          PROVE  log'[i] = Failure \/ \E e \in Callers : caller'[e].pc = "store" /\ caller'[e].index = i
      <4>1. ASSUME NEW e \in Callers, caller[e].pc = "store", caller[e].index = i
            PROVE  caller'[e].pc = "store" /\ caller'[e].index = i
        <5>1. e # c
          BY <3>2, <4>1
        <5> QED BY <1>6, <4>1, <5>1
      <4> QED BY <1>4, <2>1, <3>2, <4>1 DEF SlotsHeld
    <3>3. SlotsHeld'
      BY <1>4, <2>2, <3>1, <3>2 DEF SlotsHeld
    <3>4. Storing'
      BY <2>1, <2>3, <3>1 DEF Storing
    <3>5. NoShorter'
      BY <1>1, <1>5, <1>6, <2>1, <3>1 DEF NoShorter
    <3> QED BY <2>4, <3>3, <3>4, <3>5
  <2> QED BY <2>5, <2>6
<1> QED BY <1>8, <1>9, <1>10, <1>11 DEF TimeoutIInv

\* A caller computes the next timeout from its copy.
LEMMA AdjustIInv ==
  ASSUME TimeoutIInv, NEW c \in Callers, Adjust(c)
  PROVE  TimeoutIInv'
<1> PICK copy : copy = caller[c].copy
  OBVIOUS
<1>1. /\ caller[c].pc = "adjust"
      /\ timeout' = timeout /\ entries' = entries /\ log' = log /\ logged' = logged /\ failures' = failures
      /\ overtaken' = overtaken
  BY DEF Adjust
<1>2. caller \in [Callers -> CallerRec] /\ timeout \in Minimum..MaxTimeout
  BY DEF TimeoutIInv, TimeoutRest, TimeoutInBounds
<1>3. /\ failures = 0 => ~Many(copy) /\ timeout <= FirstTimeout
      /\ failures = logged /\ ~overtaken => Many(copy) /\ ~Few(copy) /\ timeout >= FirstTimeout
  BY <1>1, FailedCounted DEF TimeoutIInv, AllSucceeded, AllFailed, NoShorter
<1>4. PICK r : /\ caller' = [caller EXCEPT ![c] = r] /\ r \in CallerRec /\ r.dur = 0 /\ r.copy = FreshLog
               /\ r.pc \in {"rest", "set"} /\ (r.pc = "set" => r.next \in Minimum..MaxTimeout)
               /\ failures = 0 => r.next <= FirstTimeout
               /\ failures = logged /\ ~overtaken => (r.pc = "set" => r.next >= FirstTimeout)
  <2>0. ASSUME NEW n \in Nat
        PROVE  LET s == [NotLogging EXCEPT !.pc = "set", !.next = n]
               IN s \in CallerRec /\ s.dur = 0 /\ s.copy = FreshLog /\ s.pc = "set" /\ s.next = n
    BY NotLoggingFacts DEF CallerRec
  <2>1. CASE Many(copy) /\ SetNext(c, Raised(timeout))
    <3> PICK n : n = Raised(timeout)
      OBVIOUS
    <3>1. n \in Nat /\ n \in Minimum..MaxTimeout /\ (timeout >= FirstTimeout => n >= FirstTimeout)
      BY <1>2, RaisedBounds
    <3> PICK s : s = [NotLogging EXCEPT !.pc = "set", !.next = n]
      OBVIOUS
    <3>2. s \in CallerRec /\ s.dur = 0 /\ s.copy = FreshLog /\ s.pc = "set" /\ s.next = n
      BY <2>0, <3>1
    <3>3. caller' = [caller EXCEPT ![c] = s]
      BY <2>1 DEF SetNext
    <3>4. failures # 0
      BY <1>3, <2>1
    <3> QED BY <1>3, <3>1, <3>2, <3>3, <3>4
  <2>2. ASSUME NEW mx \in Durations \cup {0}, Few(copy), SetNext(c, Lowered(timeout, (mx * 125) \div 100))
        PROVE  \E s : /\ caller' = [caller EXCEPT ![c] = s] /\ s \in CallerRec /\ s.dur = 0 /\ s.copy = FreshLog
                      /\ s.pc \in {"rest", "set"} /\ (s.pc = "set" => s.next \in Minimum..MaxTimeout)
                      /\ failures = 0 => s.next <= FirstTimeout
                      /\ failures = logged /\ ~overtaken => (s.pc = "set" => s.next >= FirstTimeout)
    <3> PICK m : m = (mx * 125) \div 100
      OBVIOUS
    <3>1. m \in Nat
      BY SMT, TimeoutFacts
    <3> PICK n : n = Lowered(timeout, m)
      OBVIOUS
    <3>2. n \in Nat /\ n \in Minimum..MaxTimeout /\ (timeout <= FirstTimeout => n <= FirstTimeout)
      BY SMTT(60), <1>2, <3>1, LoweredBounds
    <3> PICK s : s = [NotLogging EXCEPT !.pc = "set", !.next = n]
      OBVIOUS
    <3>3. s \in CallerRec /\ s.dur = 0 /\ s.copy = FreshLog /\ s.pc = "set" /\ s.next = n
      BY ZenonT(60), <2>0, <3>2
    <3>4. caller' = [caller EXCEPT ![c] = s]
      BY <2>2 DEF SetNext
    <3>5. ~(failures = logged /\ ~overtaken)
      BY <1>3, <2>2
    <3> QED BY ZenonT(60), <1>3, <3>2, <3>3, <3>4, <3>5
  <2>3. CASE caller' = [caller EXCEPT ![c] = NotLogging]
    <3>1. 0 <= FirstTimeout
      BY SMT, TimeoutFacts
    <3> QED BY <2>3, <3>1, NotLoggingFacts
  <2> QED BY <2>1, <2>2, <2>3 DEF Adjust
<1>5. /\ caller' \in [Callers -> CallerRec] /\ caller'[c] = r
      /\ \A e \in Callers : e # c => caller'[e] = caller[e]
  BY <1>2, <1>4
<1>6. TimeoutRest'
  BY <1>1, <1>5 DEF TimeoutIInv, TimeoutRest
<1>7. TimeoutInBounds'
  BY <1>1, <1>4, <1>5 DEF TimeoutIInv, TimeoutInBounds
<1>8. AllSucceeded'
  BY <1>1, <1>4, <1>5, NotLoggingFacts, TimeoutFacts DEF TimeoutIInv, AllSucceeded
<1>9. AllFailed'
  <2> SUFFICES ASSUME failures' = logged', ~overtaken'
               PROVE  (SlotsHeld /\ Storing /\ OwnSlots /\ NoShorter)'
    BY DEF AllFailed
  <2>1. SlotsHeld /\ Storing /\ OwnSlots /\ NoShorter
    BY <1>1 DEF TimeoutIInv, AllFailed
  <2>2. \A e \in Callers : caller[e].pc = "store" => e # c /\ caller'[e] = caller[e]
    BY <1>1, <1>5
  <2>3. \A e \in Callers : caller'[e].pc = "store" => e # c /\ caller'[e] = caller[e]
    BY <1>4, <1>5
  <2>4. SlotsHeld'
    BY <1>1, <2>1, <2>2, SlotsStayHeld
  <2>5. Storing' /\ OwnSlots'
    BY <1>1, <2>1, <2>3 DEF Storing, OwnSlots
  <2>6. NoShorter'
    BY <1>1, <1>4, <1>5, <2>1 DEF NoShorter
  <2> QED BY <2>4, <2>5, <2>6
<1> QED BY <1>6, <1>7, <1>8, <1>9 DEF TimeoutIInv

\* A caller stores the timeout it computed.
LEMMA SetTimeoutIInv ==
  ASSUME TimeoutIInv, NEW c \in Callers, SetTimeout(c)
  PROVE  TimeoutIInv'
<1>1. /\ caller[c].pc = "set" /\ timeout' = caller[c].next /\ caller' = [caller EXCEPT ![c] = NotLogging]
      /\ entries' = entries /\ log' = log /\ logged' = logged /\ failures' = failures /\ overtaken' = overtaken
  BY DEF SetTimeout
<1>2. caller \in [Callers -> CallerRec] /\ caller[c].next \in Minimum..MaxTimeout
  BY <1>1 DEF TimeoutIInv, TimeoutRest, TimeoutInBounds
<1>3. /\ caller' \in [Callers -> CallerRec] /\ caller'[c] = NotLogging
      /\ \A e \in Callers : e # c => caller'[e] = caller[e]
  BY <1>1, <1>2, NotLoggingFacts
<1>4. 0 <= FirstTimeout
  BY SMT, TimeoutFacts
<1>5. TimeoutRest'
  BY <1>1, <1>3 DEF TimeoutIInv, TimeoutRest
<1>6. TimeoutInBounds'
  BY <1>1, <1>2, <1>3, NotLoggingFacts DEF TimeoutIInv, TimeoutInBounds
<1>7. AllSucceeded'
  BY <1>1, <1>3, <1>4, NotLoggingFacts, TimeoutFacts DEF TimeoutIInv, AllSucceeded
<1>8. AllFailed'
  <2> SUFFICES ASSUME failures' = logged', ~overtaken'
               PROVE  (SlotsHeld /\ Storing /\ OwnSlots /\ NoShorter)'
    BY DEF AllFailed
  <2>1. SlotsHeld /\ Storing /\ OwnSlots /\ NoShorter
    BY <1>1 DEF TimeoutIInv, AllFailed
  <2>2. \A e \in Callers : caller[e].pc = "store" => e # c /\ caller'[e] = caller[e]
    BY <1>1, <1>3
  <2>3. \A e \in Callers : caller'[e].pc = "store" => e # c /\ caller'[e] = caller[e]
    BY <1>3, NotLoggingFacts
  <2>4. SlotsHeld'
    BY <1>1, <2>1, <2>2, SlotsStayHeld
  <2>5. Storing' /\ OwnSlots'
    BY SMTT(60), <1>1, <2>1, <2>3 DEF Storing, OwnSlots
  <2>6. NoShorter'
    BY <1>1, <1>3, <2>1, NotLoggingFacts DEF NoShorter
  <2> QED BY <2>4, <2>5, <2>6
<1> QED BY <1>5, <1>6, <1>7, <1>8 DEF TimeoutIInv

\* Every step of logEntry and adjust, of any caller, preserves the invariant.
LEMMA TimeoutNextIInv == TimeoutIInv /\ [TimeoutNext]_timeoutVars => TimeoutIInv'
<1> SUFFICES ASSUME TimeoutIInv, [TimeoutNext]_timeoutVars PROVE TimeoutIInv'
  OBVIOUS
<1>1. CASE UNCHANGED timeoutVars
  <2>1. TimeoutRest' /\ TimeoutInBounds'
    BY <1>1 DEF timeoutVars, TimeoutIInv, TimeoutRest, TimeoutInBounds
  <2>2. AllSucceeded'
    BY <1>1 DEF timeoutVars, TimeoutIInv, AllSucceeded
  <2>3. AllFailed'
    BY <1>1, SlotsStayHeld DEF timeoutVars, TimeoutIInv, AllFailed, Storing, OwnSlots, NoShorter
  <2> QED BY <2>1, <2>2, <2>3 DEF TimeoutIInv
<1> QED BY <1>1, LogEntryIInv, StoreEntryIInv, AdjustIInv, SetTimeoutIInv DEF TimeoutNext

\* The inductive invariant of the adaptive timeout.
THEOREM TimeoutInvariantHolds == TimeoutSpec => []TimeoutIInv
<1>1. TimeoutIInv /\ [TimeoutNext]_timeoutVars => TimeoutIInv'
  BY TimeoutNextIInv
<1> QED BY <1>1, TimeoutInitIInv, PTL DEF TimeoutSpec

\* The timeout stays within its bounds, is never lowered by failures nor raised by successes alone
\* (logEntry, adjust): TimeoutIInv implies it.
THEOREM TimeoutAdaptsHolds == TimeoutSpec => []TimeoutAdapts
<1>1. TimeoutIInv => TimeoutAdapts
  BY DEF TimeoutIInv, AllSucceeded, AllFailed, NoShorter, TimeoutAdapts, SuccessNeverRaises, FailuresNeverLower
<1> QED BY <1>1, TimeoutInvariantHolds, PTL
====
