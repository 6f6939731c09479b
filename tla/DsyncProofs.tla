---------------------------- MODULE DsyncProofs -----------------------------
(* Proofs about Dsync for any numbers of clients, nodes, attempts and faults: *)
(* type correctness, what an owner's lock array says about the lock maps,     *)
(* mutual exclusion up to entries that nodes dropped, and what a client that  *)
(* has finished leaves behind.                                                *)
EXTENDS Dsync, FiniteSetTheorems, TLAPS

(* Zenon is the default prover here; the steps that need arithmetic or the     *)
(* theory of functions and records cite SMT.                                  *)
USE Zenon

-----------------------------------------------------------------------------
(* The inductive invariant *)

\* Attempts of c whose grant by n nobody has consumed or drained yet.
Unconsumed(c, n) == {a \in Attempts : rpc[c][a][n] = "granted"}

\* Nodes whose entry the current call still has to give back.
Owned(c) ==
  IF phase[c] \in {"acquire", "held"} THEN locks[c]
  ELSE IF phase[c] = "abandon" THEN rel[c] ELSE {}

\* Phases before Unlock.
Live(c) == phase[c] \in {"idle", "acquire", "abandon", "retry", "held", "gaveup"}

\* Unless it dropped some, a node has an entry for every grant in flight and
\* one more for the lock array.
Backed(c, n) ==
  Live(c) /\ n \notin lost[c]
    => lockMap[n][c] >= Cardinality(Unconsumed(c, n)) + (IF n \in Owned(c) THEN 1 ELSE 0)

AllBacked == \A c \in Clients, n \in Nodes : Backed(c, n)

HeldByQuorum == \A c \in Clients : phase[c] = "held" => Cardinality(locks[c]) >= Quorum(c)

\* Outside "idle" some call of lock() is the current one.
Started == \A c \in Clients : phase[c] # "idle" => att[c] \in Attempts

IInv == TypeOK /\ NodeConsistent /\ AllBacked /\ HeldByQuorum /\ Started

-----------------------------------------------------------------------------
(* Arithmetic and cardinalities *)

\* The quorum lockBlocking computes is at most the number of nodes, and a write
\* quorum and any other quorum together exceed it.
LEMMA QuorumsOverlap ==
  /\ N \in Nat \ {0}
  /\ \A c \in Clients : Quorum(c) \in 1..N + 1
  /\ \A c, d \in Clients : c \notin Readers => Quorum(c) + Quorum(d) > N
<1>1. N \in Nat /\ N # 0
  BY DsyncAssumption, FS_CardinalityType, FS_EmptySet DEF N
<1> HIDE DEF N
<1> QED BY SMT, <1>1 DEF Quorum

\* The attempts with a grant in flight are finitely many.
LEMMA UnconsumedFinite ==
  ASSUME NEW c, NEW n
  PROVE  IsFiniteSet(Unconsumed(c, n)) /\ Cardinality(Unconsumed(c, n)) \in Nat
<1>1. IsFiniteSet(Attempts)
  BY SMT, DsyncAssumption, FS_Interval DEF Attempts
<1>2. Unconsumed(c, n) \subseteq Attempts
  BY DEF Unconsumed
<1> QED BY <1>1, <1>2, FS_Subset, FS_CardinalityType

-----------------------------------------------------------------------------
(* Types *)

\* The initial state has the right types.
LEMMA InitType == Init => TypeOK
<1> SUFFICES ASSUME Init PROVE TypeOK
  OBVIOUS
<1> USE DsyncAssumption DEF Init, NoEntries, Phases, RPCs
<1>1. 0 \in 0..MaxAttempts
  BY SMT
<1> QED BY <1>1 DEF TypeOK

\* What sendRelease does to the map, whatever its answer: the caller has one
\* entry fewer at that node, or nothing changes.
LEMMA SendReleaseEffect ==
  ASSUME TypeOK, NEW c \in Clients, NEW n \in Nodes, NEW ok \in BOOLEAN, SendRelease(c, n, ok)
  PROVE  /\ lockMap' = lockMap \/ lockMap' = [lockMap EXCEPT ![n] = Released(@, c)]
         /\ faults' \in Nat
         /\ unsure' \in [Clients -> SUBSET Nodes]
<1>1. lockMap' = lockMap \/ lockMap' = [lockMap EXCEPT ![n] = Released(@, c)]
  BY DEF SendRelease
<1>2. faults' \in Nat
  BY SMT DEF TypeOK, SendRelease, Fault
<1>3. unsure' \in [Clients -> SUBSET Nodes]
  <2>1. unsure[c] \cup {n} \in SUBSET Nodes
    BY DEF TypeOK
  <2>2. unsure' = unsure \/ unsure' = [unsure EXCEPT ![c] = @ \cup {n}]
    BY DEF SendRelease
  <2> QED BY <2>1, <2>2 DEF TypeOK
<1> QED BY <1>1, <1>2, <1>3

\* A node's map entry stays a count per client.
LEMMA EntryTypes ==
  ASSUME NEW e \in [Clients -> Nat], NEW c \in Clients
  PROVE  Granted(e, c) \in [Clients -> Nat] /\ Released(e, c) \in [Clients -> Nat]
BY SMT DEF Granted, Released

\* sendRelease keeps the types.
LEMMA SendReleaseTypes ==
  ASSUME TypeOK, NEW c \in Clients, NEW n \in Nodes, NEW ok \in BOOLEAN, SendRelease(c, n, ok)
  PROVE  lockMap' \in [Nodes -> [Clients -> Nat]] /\ faults' \in Nat /\ unsure' \in [Clients -> SUBSET Nodes]
<1>1. lockMap \in [Nodes -> [Clients -> Nat]]
  BY DEF TypeOK
<1>2. Released(lockMap[n], c) \in [Clients -> Nat]
  BY <1>1, EntryTypes
<1>3. lockMap' = lockMap \/ lockMap' = [lockMap EXCEPT ![n] = Released(@, c)]
  BY SendReleaseEffect
<1>4. lockMap' \in [Nodes -> [Clients -> Nat]]
  BY <1>1, <1>2, <1>3
<1> QED BY <1>4, SendReleaseEffect

\* Every step keeps the types.
LEMMA TypeStep == TypeOK /\ [Next]_vars => TypeOK'
<1> SUFFICES ASSUME TypeOK, [Next]_vars PROVE TypeOK'
  OBVIOUS
<1> USE DEF TypeOK
<1>1. ASSUME NEW c \in Clients, StartAttempt(c) PROVE TypeOK'
  <2>1. att[c] + 1 \in Attempts /\ att[c] + 1 \in 0..MaxAttempts
    BY SMT, <1>1, DsyncAssumption DEF StartAttempt, Attempts
  <2> QED BY <1>1, <2>1 DEF StartAttempt, Phases, RPCs
<1>2. ASSUME NEW c \in Clients, GiveUp(c) PROVE TypeOK'
  BY <1>2 DEF GiveUp, Phases
<1>3. ASSUME NEW c \in Clients, NEW a \in Attempts, NEW n \in Nodes, Execute(c, a, n) PROVE TypeOK'
  <2>1. Granted(lockMap[n], c) \in [Clients -> Nat]
    BY EntryTypes
  <2>2. lockMap' \in [Nodes -> [Clients -> Nat]]
    BY <1>3, <2>1 DEF Execute
  <2> QED BY SMT, <1>3, <2>2 DEF Execute, RPCs
<1>4. ASSUME NEW c \in Clients, NEW a \in Attempts, NEW n \in Nodes, NEW done \in BOOLEAN,
             ExecuteError(c, a, n, done) PROVE TypeOK'
  <2>1. Granted(lockMap[n], c) \in [Clients -> Nat]
    BY EntryTypes
  <2>2. lockMap' \in [Nodes -> [Clients -> Nat]]
    BY <1>4, <2>1 DEF ExecuteError
  <2> QED BY SMT, <1>4, <2>2 DEF ExecuteError, Fault, RPCs
<1>5. ASSUME NEW c \in Clients, NEW n \in Nodes, Consume(c, n) PROVE TypeOK'
  <2>1. rpc' \in [Clients -> [Attempts -> [Nodes -> RPCs]]]
    <3>1. CASE att[c] \in Attempts
      BY SMT, <1>5, <3>1 DEF Consume, RPCs
    <3>2. CASE att[c] \notin Attempts
      <4>1. rpc'[c] = rpc[c]
        BY SMT, <1>5, <3>2 DEF Consume
      <4>2. rpc' = [rpc EXCEPT ![c] = rpc'[c]]
        BY <1>5 DEF Consume
      <4> QED BY <4>1, <4>2
    <3> QED BY <3>1, <3>2
  <2>2. locks' \in [Clients -> SUBSET Nodes] /\ failed' \in [Clients -> Nat]
    <3>1. locks[c] \cup {n} \in SUBSET Nodes /\ failed[c] + 1 \in Nat
      BY SMT
    <3>2. /\ locks' = locks \/ locks' = [locks EXCEPT ![c] = @ \cup {n}]
          /\ failed' = failed \/ failed' = [failed EXCEPT ![c] = @ + 1]
      BY <1>5 DEF Consume
    <3>3. locks' \in [Clients -> SUBSET Nodes]
      BY ZenonT(40), <3>1, <3>2
    <3>4. failed' \in [Clients -> Nat]
      BY <3>1, <3>2
    <3> QED BY <3>3, <3>4
  <2> QED BY <1>5, <2>1, <2>2 DEF Consume
<1>6. ASSUME NEW c \in Clients, AcquireTimeout(c) PROVE TypeOK'
  BY SMT, <1>6 DEF AcquireTimeout
<1>7. ASSUME NEW c \in Clients, Decide(c) PROVE TypeOK'
  BY <1>7 DEF Decide, Phases
<1>8. ASSUME NEW c \in Clients, NEW n \in Nodes, Release(c, n) PROVE TypeOK'
  <2>1. Released(lockMap[n], c) \in [Clients -> Nat]
    BY EntryTypes
  <2>2. PICK ok \in BOOLEAN : /\ SendRelease(c, n, ok)
                             /\ locks' = IF ok THEN [locks EXCEPT ![c] = @ \ {n}] ELSE locks
    BY <1>8 DEF Release
  <2>3. lockMap' \in [Nodes -> [Clients -> Nat]] /\ faults' \in Nat /\ unsure' \in [Clients -> SUBSET Nodes]
    BY SMT, <2>1, <2>2, SendReleaseTypes
  <2> QED BY <1>8, <2>2, <2>3 DEF Release
<1>9. ASSUME NEW c \in Clients, ReleaseAllReturns(c) PROVE TypeOK'
  BY ZenonT(40), <1>9 DEF ReleaseAllReturns, Phases
<1>10. ASSUME NEW c \in Clients, NEW a \in Attempts, NEW n \in Nodes, Drain(c, a, n) PROVE TypeOK'
  <2>2. lockMap' \in [Nodes -> [Clients -> Nat]] /\ faults' \in Nat /\ unsure' \in [Clients -> SUBSET Nodes]
    BY SMT, <1>10, SendReleaseTypes DEF Drain
  <2> QED BY <1>10, <2>2 DEF Drain, RPCs
<1>11. ASSUME NEW c \in Clients, Unlock(c) PROVE TypeOK'
  BY <1>11 DEF Unlock, Phases
<1>12. ASSUME NEW c \in Clients, NEW off \in SUBSET Nodes, Refresh(c, off) PROVE TypeOK'
  <2>1. cancelled' \in [Clients -> BOOLEAN]
    BY <1>12 DEF Refresh, StillRefreshed
  <2> QED BY <1>12, <2>1 DEF Refresh
<1>13. ASSUME NEW n \in Nodes, NEW e \in [Clients -> Nat], DropEntries(n, e) PROVE TypeOK'
  BY SMT, <1>13 DEF DropEntries, Fault
<1>14. ASSUME NEW c \in Clients, Crash(c) PROVE TypeOK'
  BY SMT, <1>14 DEF Crash, Fault, Phases
<1>15. CASE UNCHANGED vars
  BY <1>15 DEF vars
<1>16. ASSUME FaultStep PROVE TypeOK'
  <2>1. ASSUME NEW n \in Nodes, NEW e \in [Clients -> 0..MaxAttempts], Expire(n, e) PROVE TypeOK'
    BY SMT, <1>13, <2>1, DsyncAssumption DEF Expire
  <2>2. ASSUME NEW n \in Nodes, RestartOrForceUnlock(n) PROVE TypeOK'
    BY <1>13, <2>2 DEF RestartOrForceUnlock, NoEntries
  <2> QED BY SMT, <1>4, <1>14, <1>16, <2>1, <2>2 DEF FaultStep
<1> HIDE DEF TypeOK
<1> QED BY <1>1, <1>2, <1>3, <1>5, <1>6, <1>7, <1>8, <1>9, <1>10, <1>11, <1>12, <1>15, <1>16
        DEF Next, ClientStep, NodeStep

-----------------------------------------------------------------------------
(* Lock maps *)

\* A step adds one entry where the node may grant it, or adds none.
LEMMA MapStep ==
  ASSUME TypeOK, [Next]_vars
  PROVE  \/ \E c \in Clients, n \in Nodes :
              CanGrant(lockMap[n], c) /\ lockMap' = [lockMap EXCEPT ![n] = Granted(@, c)]
         \/ \A c \in Clients, n \in Nodes : lockMap'[n][c] <= lockMap[n][c]
<1>0. lockMap \in [Nodes -> [Clients -> Nat]]
  BY DEF TypeOK
<1>1. ASSUME UNCHANGED lockMap
      PROVE  \A c \in Clients, n \in Nodes : lockMap'[n][c] <= lockMap[n][c]
  BY SMT, <1>0, <1>1
<1>2. ASSUME NEW c \in Clients, NEW n \in Nodes, NEW ok \in BOOLEAN, SendRelease(c, n, ok)
      PROVE  \A d \in Clients, m \in Nodes : lockMap'[m][d] <= lockMap[m][d]
  <2>1. lockMap' = lockMap \/ lockMap' = [lockMap EXCEPT ![n] = Released(@, c)]
    BY <1>2, SendReleaseEffect
  <2>2. \A d \in Clients : Released(lockMap[n], c)[d] <= lockMap[n][d]
    BY SMT, <1>0 DEF Released
  <2>3. \A d \in Clients, m \in Nodes : lockMap[m][d] <= lockMap[m][d]
    BY SMT, <1>0
  <2> QED BY <1>0, <2>1, <2>2, <2>3
<1>3. ASSUME NEW n \in Nodes, NEW e \in [Clients -> Nat], DropEntries(n, e)
      PROVE  \A d \in Clients, m \in Nodes : lockMap'[m][d] <= lockMap[m][d]
  <2>1. \A d \in Clients, m \in Nodes : lockMap[m][d] <= lockMap[m][d]
    BY SMT, <1>0
  <2> QED BY <1>0, <1>3, <2>1 DEF DropEntries
<1>4. ASSUME NEW c \in Clients, NEW n \in Nodes, NEW a \in Attempts,
             Execute(c, a, n) \/ \E done \in BOOLEAN : ExecuteError(c, a, n, done)
      PROVE  \/ UNCHANGED lockMap
             \/ CanGrant(lockMap[n], c) /\ lockMap' = [lockMap EXCEPT ![n] = Granted(@, c)]
  BY <1>4 DEF Execute, ExecuteError
<1>5. CASE FaultStep
  <2>1. ASSUME NEW n \in Nodes, NEW e \in [Clients -> 0..MaxAttempts], Expire(n, e)
        PROVE  \A d \in Clients, m \in Nodes : lockMap'[m][d] <= lockMap[m][d]
    <3>1. e \in [Clients -> Nat]
      BY SMT, DsyncAssumption
    <3> QED BY <1>3, <2>1, <3>1 DEF Expire
  <2>2. ASSUME NEW n \in Nodes, RestartOrForceUnlock(n)
        PROVE  \A d \in Clients, m \in Nodes : lockMap'[m][d] <= lockMap[m][d]
    <3>1. NoEntries \in [Clients -> Nat]
      BY DEF NoEntries
    <3> QED BY <1>3, <2>2, <3>1 DEF RestartOrForceUnlock
  <2>3. ASSUME NEW c \in Clients, Crash(c) PROVE UNCHANGED lockMap
    BY <2>3 DEF Crash
  <2> QED BY SMT, <1>1, <1>4, <1>5, <2>1, <2>2, <2>3 DEF FaultStep
<1>6. ASSUME NEW c \in Clients, ClientStep(c)
      PROVE  \A d \in Clients, m \in Nodes : lockMap'[m][d] <= lockMap[m][d]
  <2>1. ASSUME NEW n \in Nodes, Consume(c, n) PROVE UNCHANGED lockMap
    BY <2>1 DEF Consume
  <2>2. ASSUME AcquireTimeout(c) \/ Decide(c) \/ ReleaseAllReturns(c) \/ GiveUp(c) PROVE UNCHANGED lockMap
    BY <2>2 DEF AcquireTimeout, Decide, ReleaseAllReturns, GiveUp
  <2>3. ASSUME NEW n \in Nodes, Release(c, n) PROVE \E ok \in BOOLEAN : SendRelease(c, n, ok)
    BY <2>3 DEF Release
  <2>4. ASSUME NEW a \in Attempts, NEW n \in Nodes, Drain(c, a, n)
        PROVE  \E ok \in BOOLEAN : SendRelease(c, n, ok)
    BY <2>4 DEF Drain
  <2> QED BY <1>1, <1>2, <1>6, <2>1, <2>2, <2>3, <2>4 DEF ClientStep
<1>7. ASSUME NEW c \in Clients, StartAttempt(c) \/ Unlock(c) PROVE UNCHANGED lockMap
  BY <1>7 DEF StartAttempt, Unlock
<1>8. ASSUME NEW c \in Clients, NEW off \in SUBSET Nodes, Refresh(c, off) PROVE UNCHANGED lockMap
  BY <1>8 DEF Refresh
<1>9. CASE UNCHANGED vars
  BY <1>1, <1>9 DEF vars
<1> QED BY <1>1, <1>4, <1>5, <1>6, <1>7, <1>8, <1>9 DEF Next, NodeStep

\* localLocker never mixes a writer with anybody else.
LEMMA NodeConsistentStep ==
  ASSUME TypeOK, TypeOK', NodeConsistent, [Next]_vars
  PROVE  NodeConsistent'
<1>0. lockMap \in [Nodes -> [Clients -> Nat]] /\ lockMap' \in [Nodes -> [Clients -> Nat]]
  BY DEF TypeOK
<1>1. CASE \A c \in Clients, n \in Nodes : lockMap'[n][c] <= lockMap[n][c]
  BY SMT, <1>0, <1>1 DEF NodeConsistent
<1>2. ASSUME NEW c \in Clients, NEW n \in Nodes,
             CanGrant(lockMap[n], c), lockMap' = [lockMap EXCEPT ![n] = Granted(@, c)]
      PROVE  NodeConsistent'
  <2>1. \A w \in Clients \ Readers : lockMap[n][w] = 0
    BY SMT, <1>0, <1>2 DEF NodeConsistent, CanGrant, IsWriteLock
  <2>2. c \notin Readers => \A d \in Clients : lockMap[n][d] = 0
    BY <1>2 DEF CanGrant
  <2>3. \A d \in Clients : lockMap'[n][d] = IF d = c THEN lockMap[n][c] + 1 ELSE lockMap[n][d]
    BY <1>0, <1>2 DEF Granted
  <2>4. \A m \in Nodes \ {n} : lockMap'[m] = lockMap[m]
    BY <1>0, <1>2
  <2> SUFFICES ASSUME NEW m \in Nodes, NEW w \in Clients \ Readers, lockMap'[m][w] > 0
               PROVE  lockMap'[m][w] = 1 /\ \A d \in Clients \ {w} : lockMap'[m][d] = 0
    BY DEF NodeConsistent
  <2>5. CASE m = n
    BY SMT, <1>0, <2>1, <2>2, <2>3, <2>5
  <2>6. CASE m # n
    BY SMT, <2>4, <2>6 DEF NodeConsistent
  <2> QED BY <2>5, <2>6
<1> QED BY <1>1, <1>2, MapStep

-----------------------------------------------------------------------------
(* Entries that back what a client owns or may still be granted *)

\* Fewer grants in flight, no new ownership and no fewer entries keep it.
LEMMA BackedMono ==
  ASSUME TypeOK, TypeOK', NEW d \in Clients, NEW m \in Nodes, Backed(d, m),
         Live(d)' => Live(d),
         lost[d] \subseteq lost'[d],
         m \notin lost'[d] => lockMap'[m][d] >= lockMap[m][d],
         Unconsumed(d, m)' \subseteq Unconsumed(d, m),
         Live(d)' /\ m \in Owned(d)' => m \in Owned(d)
  PROVE  Backed(d, m)'
<1>1. /\ IsFiniteSet(Unconsumed(d, m)) /\ Cardinality(Unconsumed(d, m)) \in Nat
      /\ Cardinality(Unconsumed(d, m)') \in Nat
      /\ Cardinality(Unconsumed(d, m)') <= Cardinality(Unconsumed(d, m))
  <2>1. IsFiniteSet(Unconsumed(d, m)) /\ Cardinality(Unconsumed(d, m)) \in Nat
    BY UnconsumedFinite
  <2> QED BY <2>1, FS_Subset, FS_CardinalityType
<1>2. lockMap[m][d] \in Nat /\ lockMap'[m][d] \in Nat
  BY SMT DEF TypeOK
<1>3. SUFFICES ASSUME Live(d)', m \notin lost'[d]
               PROVE  lockMap'[m][d] >= Cardinality(Unconsumed(d, m)') + (IF m \in Owned(d)' THEN 1 ELSE 0)
  BY DEF Backed
<1>4. lockMap[m][d] >= Cardinality(Unconsumed(d, m)) + (IF m \in Owned(d) THEN 1 ELSE 0)
  BY <1>3 DEF Backed
<1> HIDE DEF Unconsumed, Owned, Live
<1> QED BY SMT, <1>1, <1>2, <1>3, <1>4

\* The requests, phase, arrays and history of the other clients, and of the
\* other nodes in the map, are as before: what each action leaves alone.
LEMMA BackedElsewhere ==
  ASSUME TypeOK, TypeOK', NEW d \in Clients, NEW m \in Nodes, Backed(d, m),
         phase'[d] = phase[d], locks'[d] = locks[d], rel'[d] = rel[d], lost' = lost,
         lockMap'[m][d] = lockMap[m][d],
         \A a \in Attempts : rpc'[d][a][m] = rpc[d][a][m]
  PROVE  Backed(d, m)'
<1>1. Unconsumed(d, m)' = Unconsumed(d, m)
  BY DEF Unconsumed
<1>2. Owned(d)' = Owned(d) /\ (Live(d)' <=> Live(d))
  BY DEF Owned, Live
<1>3. lockMap[m][d] \in Nat
  BY DEF TypeOK
<1> QED BY SMT, <1>1, <1>2, <1>3, BackedMono

\* A grant at n for attempt a of c.
LEMMA BackedExecute ==
  ASSUME TypeOK, TypeOK', AllBacked, NEW c \in Clients, NEW a \in Attempts, NEW n \in Nodes, Execute(c, a, n)
  PROVE  AllBacked'
<1> SUFFICES ASSUME NEW d \in Clients, NEW m \in Nodes PROVE Backed(d, m)'
  BY DEF AllBacked
<1>0. Backed(d, m)
  BY DEF AllBacked
<1>1. CASE d # c \/ m # n
  <2>1. lockMap'[m][d] = lockMap[m][d] /\ \A b \in Attempts : rpc'[d][b][m] = rpc[d][b][m]
    BY SMT, <1>1 DEF TypeOK, Execute, Granted
  <2> QED BY <1>0, <2>1, BackedElsewhere DEF Execute
<1>2. CASE d = c /\ m = n
  <2>1. CASE ~CanGrant(lockMap[n], c)
    <3>1. lockMap' = lockMap /\ Unconsumed(d, m)' \subseteq Unconsumed(d, m)
      BY SMT, <1>2, <2>1 DEF TypeOK, Execute, Unconsumed
    <3>2. Owned(d)' = Owned(d) /\ (Live(d)' <=> Live(d)) /\ lost' = lost /\ lockMap'[m][d] >= lockMap[m][d]
      BY SMT, <3>1 DEF Execute, Owned, Live, TypeOK
    <3> QED BY <1>0, <3>1, <3>2, BackedMono
  <2>2. CASE CanGrant(lockMap[n], c)
    <3>1. lockMap'[m][d] = lockMap[m][d] + 1 /\ lockMap[m][d] \in Nat
      BY SMT, <1>2, <2>2 DEF TypeOK, Execute, Granted
    <3>2. Unconsumed(d, m)' = Unconsumed(d, m) \cup {a} /\ a \notin Unconsumed(d, m)
      BY SMT, <1>2, <2>2 DEF TypeOK, Execute, Unconsumed
    <3>3. Owned(d)' = Owned(d) /\ (Live(d)' <=> Live(d)) /\ lost' = lost
      BY DEF Execute, Owned, Live
    <3>4. IsFiniteSet(Unconsumed(d, m)) /\ Cardinality(Unconsumed(d, m)) \in Nat
      BY UnconsumedFinite
    <3>5. Cardinality(Unconsumed(d, m)') = Cardinality(Unconsumed(d, m)) + 1
      BY <3>2, <3>4, FS_AddElement
    <3> HIDE DEF Unconsumed, Owned, Live
    <3> QED BY SMT, <1>0, <3>1, <3>3, <3>4, <3>5 DEF Backed
  <2> QED BY <2>1, <2>2
<1> QED BY <1>1, <1>2

\* lock() consumes an answer: a grant moves from the channel to the array.
LEMMA BackedConsume ==
  ASSUME TypeOK, TypeOK', AllBacked, Started, NEW c \in Clients, NEW n \in Nodes, Consume(c, n)
  PROVE  AllBacked'
<1> SUFFICES ASSUME NEW d \in Clients, NEW m \in Nodes PROVE Backed(d, m)'
  BY DEF AllBacked
<1>0. Backed(d, m)
  BY DEF AllBacked
<1>1. CASE d # c
  <2>1. lockMap'[m][d] = lockMap[m][d] /\ (\A b \in Attempts : rpc'[d][b][m] = rpc[d][b][m]) /\ locks'[d] = locks[d]
    BY SMT, <1>1 DEF TypeOK, Consume
  <2> QED BY <1>0, <2>1, BackedElsewhere DEF Consume
<1>2. CASE d = c
  <2>0. /\ lockMap' = lockMap /\ lost' = lost /\ phase' = phase /\ phase[c] = "acquire"
        /\ rpc'[c] = [rpc[c] EXCEPT ![att[c]] = [@ EXCEPT ![n] = "taken"]]
    BY DEF Consume, TypeOK
  <2>1. Unconsumed(d, m)' \subseteq Unconsumed(d, m)
    BY SMT, <1>2, <2>0 DEF Unconsumed, TypeOK
  <2>2. Live(d)' <=> Live(d)
    BY <2>0 DEF Live
  <2>3. Owned(d)' = locks'[d] /\ Owned(d) = locks[d]
    BY <1>2, <2>0 DEF Owned
  <2>4. lockMap[m][d] \in Nat
    BY SMT DEF TypeOK
  <2>5. CASE m \in locks'[d] => m \in locks[d]
    BY SMT, <1>0, <2>0, <2>1, <2>2, <2>3, <2>4, <2>5, BackedMono
  <2>6. CASE m \in locks'[d] /\ m \notin locks[d]
    <3>1. m = n /\ rpc[c][att[c]][n] = "granted"
      BY SMT, <1>2, <2>6 DEF Consume, TypeOK
    <3>2. att[c] \in Attempts
      BY <2>0 DEF Started
    <3> PICK b \in Attempts : b = att[c]
      BY <3>2
    <3>3. Unconsumed(d, m)' = Unconsumed(d, m) \ {b} /\ b \in Unconsumed(d, m)
      BY SMT, <1>2, <2>0, <3>1, <3>2 DEF Unconsumed, TypeOK
    <3>4. IsFiniteSet(Unconsumed(d, m)) /\ Cardinality(Unconsumed(d, m)) \in Nat
      BY UnconsumedFinite
    <3>5. Cardinality(Unconsumed(d, m)') = Cardinality(Unconsumed(d, m)) - 1
      BY ZenonT(40), <3>3, <3>4, FS_RemoveElement
    <3> HIDE DEF Unconsumed, Owned, Live
    <3> QED BY SMTT(30), <1>0, <2>0, <2>2, <2>3, <2>4, <2>6, <3>4, <3>5 DEF Backed
  <2> QED BY <2>5, <2>6
<1> QED BY <1>1, <1>2

\* A release executed at n for c removes at most one entry, and only there.
LEMMA ReleaseRemoves ==
  ASSUME TypeOK, TypeOK', NEW c \in Clients, NEW n \in Nodes, NEW ok \in BOOLEAN, SendRelease(c, n, ok),
         NEW d \in Clients, NEW m \in Nodes
  PROVE  /\ lockMap[m][d] \in Nat /\ lockMap'[m][d] \in Nat
         /\ lockMap'[m][d] >= lockMap[m][d] - 1
         /\ d # c \/ m # n => lockMap'[m][d] = lockMap[m][d]
<1>1. lockMap \in [Nodes -> [Clients -> Nat]] /\ lockMap' \in [Nodes -> [Clients -> Nat]]
  BY DEF TypeOK
<1>2. lockMap' = lockMap \/ lockMap' = [lockMap EXCEPT ![n] = Released(@, c)]
  BY SendReleaseEffect
<1> QED BY SMT, <1>1, <1>2 DEF Released

\* releaseAll releases what the array says, once.
LEMMA BackedRelease ==
  ASSUME TypeOK, TypeOK', AllBacked, NEW c \in Clients, NEW n \in Nodes, Release(c, n)
  PROVE  AllBacked'
<1> SUFFICES ASSUME NEW d \in Clients, NEW m \in Nodes PROVE Backed(d, m)'
  BY DEF AllBacked
<1>0. Backed(d, m)
  BY DEF AllBacked
<1>1. PICK ok \in BOOLEAN : /\ SendRelease(c, n, ok)
                           /\ locks' = IF ok THEN [locks EXCEPT ![c] = @ \ {n}] ELSE locks
  BY DEF Release
<1>2. /\ phase' = phase /\ rpc' = rpc /\ lost' = lost /\ phase[c] \in {"abandon", "unlocking"}
      /\ n \in rel[c] /\ rel' = [rel EXCEPT ![c] = @ \ {n}]
  BY DEF Release
<1>3. /\ lockMap[m][d] \in Nat /\ lockMap'[m][d] \in Nat
      /\ lockMap'[m][d] >= lockMap[m][d] - 1
      /\ d # c \/ m # n => lockMap'[m][d] = lockMap[m][d]
  BY ZenonT(40), <1>1, ReleaseRemoves
<1>4. Unconsumed(d, m)' = Unconsumed(d, m) /\ (Live(d)' <=> Live(d))
  BY <1>2 DEF Unconsumed, Live
<1>5. CASE d # c
  <2>1. rel'[d] = rel[d] /\ locks'[d] = locks[d]
    BY <1>1, <1>2, <1>5 DEF TypeOK
  <2> QED BY <1>0, <1>2, <1>3, <1>5, <2>1, BackedElsewhere
<1>6. CASE d = c /\ phase[c] = "unlocking"
  BY <1>2, <1>6 DEF Backed, Live
<1>7. CASE d = c /\ phase[c] = "abandon"
  <2>1. Owned(d)' = rel'[c] /\ Owned(d) = rel[c] /\ rel'[c] = rel[c] \ {n}
    BY <1>2, <1>7 DEF Owned, TypeOK
  <2>2. CASE m # n
    BY SMT, <1>0, <1>2, <1>3, <1>4, <2>1, <2>2, BackedMono
  <2>3. CASE m = n
    <3>1. Cardinality(Unconsumed(d, m)) \in Nat
      BY UnconsumedFinite
    <3>2. n \in Owned(d) /\ n \notin Owned(d)'
      BY <1>2, <2>1
    <3> HIDE DEF Unconsumed, Owned, Live
    <3> QED BY SMT, <1>0, <1>2, <1>3, <1>4, <2>3, <3>1, <3>2 DEF Backed
  <2> QED BY <2>2, <2>3
<1> QED BY <1>2, <1>5, <1>6, <1>7

\* The drain goroutine gives back one grant that was in flight.
LEMMA BackedDrain ==
  ASSUME TypeOK, TypeOK', AllBacked, NEW c \in Clients, NEW a \in Attempts, NEW n \in Nodes, Drain(c, a, n)
  PROVE  AllBacked'
<1> SUFFICES ASSUME NEW d \in Clients, NEW m \in Nodes PROVE Backed(d, m)'
  BY DEF AllBacked
<1>0. Backed(d, m)
  BY DEF AllBacked
<1>1. PICK ok \in BOOLEAN : SendRelease(c, n, ok)
  BY DEF Drain
<1>2. /\ lockMap[m][d] \in Nat /\ lockMap'[m][d] \in Nat
      /\ lockMap'[m][d] >= lockMap[m][d] - 1
      /\ d # c \/ m # n => lockMap'[m][d] = lockMap[m][d]
  BY ZenonT(40), <1>1, ReleaseRemoves
<1>3. CASE d # c \/ m # n
  <2>1. \A b \in Attempts : rpc'[d][b][m] = rpc[d][b][m]
    <3>1. rpc \in [Clients -> [Attempts -> [Nodes -> RPCs]]] /\ rpc' = [rpc EXCEPT ![c][a][n] = "taken"]
      BY DEF TypeOK, Drain
    <3> QED BY ONLY <1>3, <3>1, c \in Clients, d \in Clients, n \in Nodes, m \in Nodes, SMT
  <2> QED BY <1>0, <1>2, <1>3, <2>1, BackedElsewhere DEF Drain
<1>4. CASE d = c /\ m = n
  <2>1. Unconsumed(d, m)' = Unconsumed(d, m) \ {a} /\ a \in Unconsumed(d, m)
    <3>1. rpc \in [Clients -> [Attempts -> [Nodes -> RPCs]]] /\ rpc' = [rpc EXCEPT ![c][a][n] = "taken"]
      BY DEF TypeOK, Drain
    <3>3. rpc[d][a][m] = "granted"
      BY <1>4 DEF Drain
    <3>2. \A b \in Attempts : rpc'[d][b][m] = IF b = a THEN "taken" ELSE rpc[d][b][m]
      BY ONLY <1>4, <3>1, c \in Clients, d \in Clients, n \in Nodes, m \in Nodes, SMT
    <3>4. a \in Attempts
      OBVIOUS
    <3> QED BY ONLY <3>2, <3>3, <3>4 DEF Unconsumed
  <2>2. IsFiniteSet(Unconsumed(d, m)) /\ Cardinality(Unconsumed(d, m)) \in Nat
    BY UnconsumedFinite
  <2>3. Cardinality(Unconsumed(d, m)') = Cardinality(Unconsumed(d, m)) - 1
    BY ZenonT(40), <2>1, <2>2, FS_RemoveElement
  <2>4. Owned(d)' = Owned(d) /\ (Live(d)' <=> Live(d)) /\ lost' = lost
    BY DEF Drain, Owned, Live
  <2> HIDE DEF Unconsumed, Owned, Live
  <2> QED BY SMT, <1>0, <1>2, <2>2, <2>3, <2>4 DEF Backed
<1> QED BY <1>3, <1>4

\* What every step that grants, consumes and releases nothing has to show.
LEMMA BackedKept ==
  ASSUME TypeOK, TypeOK', AllBacked,
         \A d \in Clients, m \in Nodes :
           /\ lost'[d] = lost[d] /\ lockMap'[m][d] >= lockMap[m][d]
           /\ Unconsumed(d, m)' \subseteq Unconsumed(d, m)
           /\ Live(d)' => Live(d) /\ Owned(d)' \subseteq Owned(d)
  PROVE  AllBacked'
<1> SUFFICES ASSUME NEW d \in Clients, NEW m \in Nodes PROVE Backed(d, m)'
  BY DEF AllBacked
<1>1. Backed(d, m) /\ lockMap[m][d] \in Nat /\ lockMap'[m][d] \in Nat
  BY DEF AllBacked, TypeOK
<1> QED BY <1>1, BackedMono

\* A new attempt sends requests and owns nothing yet.
LEMMA BackedStart ==
  ASSUME TypeOK, TypeOK', AllBacked, NEW c \in Clients, StartAttempt(c)
  PROVE  AllBacked'
<1>1. lockMap' = lockMap /\ lost' = lost
  BY DEF StartAttempt
<1>2. ASSUME NEW d \in Clients, NEW m \in Nodes
      PROVE  /\ lockMap[m][d] \in Nat
             /\ Unconsumed(d, m)' \subseteq Unconsumed(d, m)
             /\ Live(d)' => Live(d) /\ Owned(d)' \subseteq Owned(d)
  <2>1. lockMap[m][d] \in Nat
    BY SMT DEF TypeOK
  <2>2. Unconsumed(d, m)' \subseteq Unconsumed(d, m)
    BY SMT DEF StartAttempt, Unconsumed, TypeOK
  <2>3. (Live(d)' => Live(d)) /\ Owned(d)' \subseteq Owned(d)
    BY DEF StartAttempt, Live, Owned, TypeOK
  <2> QED BY <2>1, <2>2, <2>3
<1> QED BY SMT, <1>1, <1>2, BackedKept

\* A client that changes its phase, and touches neither entries nor requests,
\* owns nothing more afterwards.
LEMMA BackedPhase ==
  ASSUME TypeOK, TypeOK', AllBacked, lockMap' = lockMap, lost' = lost, rpc' = rpc,
         \A d \in Clients : Live(d)' => Live(d) /\ Owned(d)' \subseteq Owned(d)
  PROVE  AllBacked'
<1>1. \A d \in Clients, m \in Nodes : lockMap[m][d] \in Nat
  BY SMT DEF TypeOK
<1>2. \A d \in Clients, m \in Nodes : Unconsumed(d, m)' = Unconsumed(d, m)
  BY DEF Unconsumed
<1> QED BY SMT, <1>1, <1>2, BackedKept

\* The steps of a client that only change its phase and its own arrays.
LEMMA BackedEnds ==
  ASSUME TypeOK, TypeOK', AllBacked, NEW c \in Clients
  PROVE  /\ GiveUp(c) => AllBacked'
         /\ AcquireTimeout(c) => AllBacked'
         /\ Decide(c) => AllBacked'
         /\ ReleaseAllReturns(c) => AllBacked'
         /\ Unlock(c) => AllBacked'
         /\ Crash(c) => AllBacked'
<1>1. ASSUME GiveUp(c) PROVE AllBacked'
  <2>1. \A d \in Clients : Live(d)' => Live(d) /\ Owned(d)' \subseteq Owned(d)
    BY <1>1 DEF GiveUp, Live, Owned, TypeOK
  <2> QED BY <1>1, <2>1, BackedPhase DEF GiveUp
<1>2. ASSUME AcquireTimeout(c) PROVE AllBacked'
  <2>1. \A d \in Clients : Live(d)' => Live(d) /\ Owned(d)' \subseteq Owned(d)
    BY <1>2 DEF AcquireTimeout, Live, Owned, TypeOK
  <2> QED BY <1>2, <2>1, BackedPhase DEF AcquireTimeout
<1>3. ASSUME Decide(c) PROVE AllBacked'
  <2>1. \A d \in Clients : Live(d)' => Live(d) /\ Owned(d)' \subseteq Owned(d)
    BY SMT, <1>3 DEF Decide, Live, Owned, TypeOK
  <2> QED BY <1>3, <2>1, BackedPhase DEF Decide
<1>4. ASSUME ReleaseAllReturns(c) PROVE AllBacked'
  <2>1. \A d \in Clients : Live(d)' => Live(d) /\ Owned(d)' \subseteq Owned(d)
    BY ZenonT(40), <1>4 DEF ReleaseAllReturns, Live, Owned, TypeOK
  <2> QED BY <1>4, <2>1, BackedPhase DEF ReleaseAllReturns
<1>5. ASSUME Unlock(c) PROVE AllBacked'
  <2>1. \A d \in Clients : Live(d)' => Live(d) /\ Owned(d)' \subseteq Owned(d)
    BY <1>5 DEF Unlock, Live, Owned, TypeOK
  <2> QED BY <1>5, <2>1, BackedPhase DEF Unlock
<1>6. ASSUME Crash(c) PROVE AllBacked'
  <2>1. \A d \in Clients : Live(d)' => Live(d) /\ Owned(d)' \subseteq Owned(d)
    BY <1>6 DEF Crash, Live, Owned, TypeOK
  <2> QED BY <1>6, <2>1, BackedPhase DEF Crash
<1> QED BY <1>1, <1>2, <1>3, <1>4, <1>5, <1>6

\* A refresh only counts answers.
LEMMA BackedRefresh ==
  ASSUME TypeOK, TypeOK', AllBacked, NEW c \in Clients, NEW off \in SUBSET Nodes, Refresh(c, off)
  PROVE  AllBacked'
<1>1. lockMap' = lockMap /\ lost' = lost /\ rpc' = rpc /\ phase' = phase /\ locks' = locks /\ rel' = rel
  BY DEF Refresh
<1>2. \A d \in Clients : (Live(d)' <=> Live(d)) /\ Owned(d)' = Owned(d)
  BY <1>1 DEF Live, Owned
<1> QED BY <1>1, <1>2, BackedPhase

\* A request whose answer is lost may have added an entry nobody counts.
LEMMA BackedError ==
  ASSUME TypeOK, TypeOK', AllBacked, NEW c \in Clients,
         NEW a \in Attempts, NEW n \in Nodes, NEW done \in BOOLEAN, ExecuteError(c, a, n, done)
  PROVE  AllBacked'
<1>1. lost' = lost /\ phase' = phase /\ locks' = locks /\ rel' = rel
  BY DEF ExecuteError
<1>2. ASSUME NEW d \in Clients, NEW m \in Nodes
      PROVE  /\ Unconsumed(d, m)' \subseteq Unconsumed(d, m)
             /\ lockMap'[m][d] >= lockMap[m][d]
             /\ Live(d)' => Live(d) /\ Owned(d)' \subseteq Owned(d)
  <2>1. Unconsumed(d, m)' \subseteq Unconsumed(d, m)
    BY SMTT(30) DEF ExecuteError, Unconsumed, TypeOK
  <2>2. lockMap'[m][d] >= lockMap[m][d]
    <3>1. lockMap' = IF done THEN [lockMap EXCEPT ![n] = Granted(lockMap[n], c)] ELSE lockMap
      BY DEF ExecuteError
    <3>2. lockMap \in [Nodes -> [Clients -> Nat]]
      BY DEF TypeOK
    <3>3. Granted(lockMap[n], c)[d] >= lockMap[n][d]
      BY SMT, <3>2 DEF Granted
    <3>4. lockMap[m][d] \in Nat
      BY <3>2
    <3>5. CASE m = n
      BY SMT, <3>1, <3>2, <3>3, <3>4, <3>5
    <3>6. CASE m # n
      BY SMT, <3>1, <3>2, <3>4, <3>6
    <3> QED BY <3>5, <3>6
  <2>3. Owned(d)' = Owned(d) /\ (Live(d)' <=> Live(d))
    BY <1>1 DEF Owned, Live
  <2> QED BY <2>1, <2>2, <2>3
<1> QED BY <1>1, <1>2, BackedKept

\* A node that drops entries becomes one of the lost ones.
LEMMA BackedDrop ==
  ASSUME TypeOK, TypeOK', AllBacked, NEW n \in Nodes, NEW e \in [Clients -> Nat], DropEntries(n, e)
  PROVE  AllBacked'
<1> SUFFICES ASSUME NEW d \in Clients, NEW m \in Nodes PROVE Backed(d, m)'
  BY DEF AllBacked
<1>0. Backed(d, m)
  BY DEF AllBacked
<1>1. lost[d] \subseteq lost'[d] /\ (m \notin lost'[d] => lockMap'[m][d] >= lockMap[m][d])
  BY SMT DEF DropEntries, TypeOK
<1>2. Unconsumed(d, m)' = Unconsumed(d, m) /\ Owned(d)' = Owned(d) /\ (Live(d)' <=> Live(d))
  BY DEF DropEntries, Unconsumed, Owned, Live
<1> QED BY <1>0, <1>1, <1>2, BackedMono

\* Every step keeps the entries that back owners and grants in flight.
LEMMA BackedStep ==
  ASSUME TypeOK, TypeOK', AllBacked, Started, [Next]_vars
  PROVE  AllBacked'
<1>1. CASE UNCHANGED vars
  <2>1. ASSUME NEW d \in Clients, NEW m \in Nodes PROVE Backed(d, m)'
    <3>1. Backed(d, m)
      BY DEF AllBacked
    <3> QED BY <1>1, <3>1, BackedElsewhere DEF vars
  <2> QED BY <2>1 DEF AllBacked
<1>2. CASE FaultStep
  <2>1. ASSUME NEW n \in Nodes, NEW e \in [Clients -> 0..MaxAttempts], Expire(n, e) PROVE AllBacked'
    <3>1. e \in [Clients -> Nat]
      BY SMT, DsyncAssumption
    <3> QED BY <2>1, <3>1, BackedDrop DEF Expire
  <2>2. ASSUME NEW n \in Nodes, RestartOrForceUnlock(n) PROVE AllBacked'
    <3>1. NoEntries \in [Clients -> Nat]
      BY DEF NoEntries
    <3> QED BY <2>2, <3>1, BackedDrop DEF RestartOrForceUnlock
  <2> QED BY <1>2, <2>1, <2>2, BackedEnds, BackedError DEF FaultStep
<1>3. ASSUME NEW c \in Clients, ClientStep(c) PROVE AllBacked'
  BY <1>3, BackedConsume, BackedRelease, BackedDrain, BackedEnds DEF ClientStep
<1> QED BY <1>1, <1>2, <1>3, BackedStart, BackedEnds, BackedRefresh, BackedExecute DEF Next, NodeStep

-----------------------------------------------------------------------------
(* Owners *)

\* Only a decision with a quorum makes an owner, and its array stays as it is;
\* a client leaves "idle" with its first attempt.
LEMMA OwnerStep ==
  ASSUME TypeOK, HeldByQuorum, Started, [Next]_vars
  PROVE  HeldByQuorum' /\ Started'
<1> USE DEF TypeOK
<1>1. ASSUME NEW c \in Clients,
             \/ /\ phase'[c] # "held" /\ phase' = [phase EXCEPT ![c] = phase'[c]]
                /\ att' = att /\ phase[c] # "idle"
                /\ \A d \in Clients \ {c} : locks'[d] = locks[d]
             \/ phase' = phase /\ locks' = locks /\ att' = att
      PROVE  HeldByQuorum' /\ Started'
  <2>1. ASSUME NEW d \in Clients, phase'[d] = "held" PROVE phase[d] = "held" /\ locks'[d] = locks[d]
    BY <1>1, <2>1
  <2>2. HeldByQuorum'
    BY <2>1 DEF HeldByQuorum, Quorum
  <2>3. Started'
    BY <1>1 DEF Started
  <2> QED BY <2>2, <2>3
<1>2. ASSUME NEW c \in Clients, StartAttempt(c) PROVE HeldByQuorum' /\ Started'
  <2>1. HeldByQuorum'
    BY <1>2 DEF StartAttempt, HeldByQuorum, Quorum
  <2>2. att[c] + 1 \in Attempts
    BY SMT, <1>2, DsyncAssumption DEF StartAttempt, Attempts
  <2>3. Started'
    BY <1>2, <2>2 DEF StartAttempt, Started
  <2> QED BY <2>1, <2>3
<1>3. ASSUME NEW c \in Clients, Decide(c) PROVE HeldByQuorum' /\ Started'
  <2>1. HeldByQuorum'
    BY ZenonT(40), <1>3 DEF Decide, HeldByQuorum, Quorum
  <2>2. Started'
    BY <1>3 DEF Decide, Started
  <2> QED BY <2>1, <2>2
<1>4. ASSUME NEW c \in Clients, ClientStep(c) PROVE HeldByQuorum' /\ Started'
  <2>1. ASSUME NEW n \in Nodes, Consume(c, n) PROVE HeldByQuorum' /\ Started'
    <3>1. HeldByQuorum'
      BY <2>1 DEF Consume, HeldByQuorum, Quorum
    <3> QED BY <2>1, <3>1 DEF Consume, Started
  <2>2. ASSUME NEW n \in Nodes, Release(c, n) PROVE HeldByQuorum' /\ Started'
    <3>1. phase' = phase /\ att' = att /\ phase[c] # "held" /\ \A d \in Clients \ {c} : locks'[d] = locks[d]
      BY <2>2 DEF Release
    <3> QED BY <3>1 DEF HeldByQuorum, Started, Quorum
  <2>3. ASSUME AcquireTimeout(c) PROVE HeldByQuorum' /\ Started'
    BY <1>1, <2>3 DEF AcquireTimeout
  <2>4. ASSUME ReleaseAllReturns(c) PROVE HeldByQuorum' /\ Started'
    BY <1>1, <2>4 DEF ReleaseAllReturns
  <2>5. ASSUME GiveUp(c) PROVE HeldByQuorum' /\ Started'
    BY <1>1, <2>5 DEF GiveUp
  <2>6. ASSUME NEW a \in Attempts, NEW n \in Nodes, Drain(c, a, n) PROVE HeldByQuorum' /\ Started'
    BY <1>1, <2>6 DEF Drain
  <2> QED BY <1>3, <1>4, <2>1, <2>2, <2>3, <2>4, <2>5, <2>6 DEF ClientStep
<1>5. ASSUME NEW c \in Clients, Unlock(c) PROVE HeldByQuorum' /\ Started'
  BY <1>1, <1>5 DEF Unlock
<1>6. ASSUME NEW c \in Clients, Crash(c) PROVE HeldByQuorum' /\ Started'
  BY <1>1, <1>6 DEF Crash
<1>7. ASSUME phase' = phase /\ locks' = locks /\ att' = att PROVE HeldByQuorum' /\ Started'
  BY <1>7 DEF HeldByQuorum, Started, Quorum
<1>8. CASE FaultStep
  BY SMTT(30), <1>6, <1>7, <1>8 DEF FaultStep, ExecuteError, Expire, RestartOrForceUnlock, DropEntries
<1> QED BY <1>2, <1>4, <1>5, <1>7, <1>8 DEF Next, NodeStep, Execute, Refresh, vars

\* IInv holds initially and every step keeps it: the lock maps back every array
\* and every grant in flight, up to what nodes dropped.
THEOREM InvariantHolds == Spec => []IInv
<1>1. Init => IInv
  <2> SUFFICES ASSUME Init PROVE IInv
    OBVIOUS
  <2>1. TypeOK
    BY InitType
  <2>2. NodeConsistent /\ HeldByQuorum /\ Started
    BY SMT DEF Init, NoEntries, NodeConsistent, HeldByQuorum, Started
  <2>3. ASSUME NEW c \in Clients, NEW n \in Nodes PROVE Backed(c, n)
    <3>1. Unconsumed(c, n) = {} /\ Owned(c) = {} /\ lockMap[n][c] = 0
      BY DEF Init, NoEntries, Unconsumed, Owned
    <3>2. Cardinality(Unconsumed(c, n)) = 0
      BY <3>1, FS_EmptySet
    <3> QED BY SMT, <3>1, <3>2 DEF Backed
  <2> QED BY <2>1, <2>2, <2>3 DEF IInv, AllBacked
<1>2. IInv /\ [Next]_vars => IInv'
  BY TypeStep, NodeConsistentStep, BackedStep, OwnerStep DEF IInv
<1> QED BY <1>1, <1>2, PTL DEF Spec

\* Type correctness: in particular no node ever counts fewer than zero entries.
THEOREM TypeCorrect == Spec => []TypeOK
<1>1. IInv => TypeOK
  BY DEF IInv
<1> QED BY <1>1, InvariantHolds, PTL

\* No node mixes a writer with anybody else, whatever arrives in which order.
THEOREM NodeConsistentHolds == Spec => []NodeConsistent
<1>1. IInv => NodeConsistent
  BY DEF IInv
<1> QED BY <1>1, InvariantHolds, PTL

\* An owner's entry is on every node of its array that did not drop it, however
\* late the answers of its earlier attempts are drained.
THEOREM OwnerKeepsEntriesHolds == Spec => []OwnerKeepsEntries
<1>1. IInv => OwnerKeepsEntries
  <2> SUFFICES ASSUME IInv, NEW c \in Clients, phase[c] = "held", NEW n \in locks[c], n \notin lost[c]
               PROVE  lockMap[n][c] > 0
    BY DEF OwnerKeepsEntries
  <2>1. n \in Nodes /\ lockMap[n][c] \in Nat
    BY SMT DEF IInv, TypeOK
  <2>2. Backed(c, n) /\ Live(c) /\ n \in Owned(c)
    BY <2>1 DEF IInv, AllBacked, Live, Owned
  <2>3. Cardinality(Unconsumed(c, n)) \in Nat
    BY UnconsumedFinite
  <2> HIDE DEF Unconsumed, Owned, Live
  <2> QED BY SMT, <2>1, <2>2, <2>3 DEF Backed
<1> QED BY <1>1, InvariantHolds, PTL

\* A writer and any other owner share a node, and each node they share dropped
\* the entry of one of them: with no dropped entry the lock excludes.
THEOREM ExclusionHolds == Spec => []Exclusion
<1>1. IInv /\ OwnerKeepsEntries => Exclusion
  <2> SUFFICES ASSUME IInv, OwnerKeepsEntries,
                      NEW c \in Clients, NEW d \in Clients, c # d, c \notin Readers,
                      phase[c] = "held", phase[d] = "held"
               PROVE  /\ locks[c] \cap locks[d] # {}
                      /\ locks[c] \cap locks[d] \subseteq lost[c] \cup lost[d]
    BY ZenonT(40) DEF Exclusion, Conflict
  <2>1. locks[c] \subseteq Nodes /\ locks[d] \subseteq Nodes
    BY DEF IInv, TypeOK
  <2>2. locks[c] \cap locks[d] # {}
    <3>1. Cardinality(locks[c]) >= Quorum(c) /\ Cardinality(locks[d]) >= Quorum(d)
      BY DEF IInv, HeldByQuorum
    <3>2. Cardinality(locks[c]) \in Nat /\ Cardinality(locks[d]) \in Nat
      BY <2>1, DsyncAssumption, FS_Subset, FS_CardinalityType
    <3>3. Quorum(c) \in Nat /\ Quorum(d) \in Nat /\ Quorum(c) + Quorum(d) > N /\ N \in Nat
      BY SMT, QuorumsOverlap
    <3>4. Cardinality(locks[c]) + Cardinality(locks[d]) > Cardinality(Nodes)
      BY SMT, <3>1, <3>2, <3>3 DEF N
    <3> QED BY <2>1, <3>4, DsyncAssumption, FS_MajoritiesIntersect
  <2>3. ASSUME NEW n \in locks[c] \cap locks[d], n \notin lost[c] \cup lost[d] PROVE FALSE
    <3>1. lockMap[n][c] > 0 /\ lockMap[n][d] > 0
      BY <2>3 DEF OwnerKeepsEntries
    <3> QED BY SMT, <2>1, <2>3, <3>1 DEF IInv, NodeConsistent
  <2> QED BY <2>2, <2>3
<1> QED BY <1>1, InvariantHolds, OwnerKeepsEntriesHolds, PTL

\* The nodes with an entry of c and the ones without are all nodes.
LEMMA EntriesCounted ==
  ASSUME NEW c \in Clients
  PROVE  /\ IsFiniteSet(EntriesOf(c))
         /\ Cardinality(EntriesOf(c)) \in Nat
         /\ Cardinality(Nodes \ EntriesOf(c)) = N - Cardinality(EntriesOf(c))
<1>1. EntriesOf(c) \subseteq Nodes /\ Nodes \cap EntriesOf(c) = EntriesOf(c)
  BY DEF EntriesOf
<1>2. IsFiniteSet(EntriesOf(c))
  BY <1>1, DsyncAssumption, FS_Subset
<1>3. Cardinality(Nodes \ EntriesOf(c)) = N - Cardinality(EntriesOf(c))
  BY <1>1, DsyncAssumption, FS_Difference DEF N
<1> QED BY <1>2, <1>3, FS_CardinalityType

\* On an odd number of nodes two owners that exclude each other cannot both go on:
\* no node knows both, so that the refresh of one of them finds too few entries.
THEOREM SplitNoticedHolds ==
  ASSUME N % 2 = 1
  PROVE  Spec => []SplitNoticed
<1>1. NodeConsistent /\ TypeOK => SplitNoticed
  <2> SUFFICES ASSUME NodeConsistent, TypeOK, NEW c \in Clients, NEW d \in Clients, Conflict(c, d)
               PROVE  \E e \in {c, d} :
                        ~StillRefreshed(e, Cardinality(EntriesOf(e)), Cardinality(Nodes \ EntriesOf(e)))
    BY DEF SplitNoticed
  <2>1. EntriesOf(c) \cap EntriesOf(d) = {}
    <3>1. ASSUME NEW n \in Nodes, lockMap[n][c] > 0, lockMap[n][d] > 0 PROVE FALSE
      BY SMT, <3>1 DEF Conflict, NodeConsistent
    <3> QED BY <3>1 DEF EntriesOf
  <2>2. Cardinality(EntriesOf(c)) + Cardinality(EntriesOf(d)) <= Cardinality(Nodes)
    <3>1. EntriesOf(c) \subseteq Nodes /\ EntriesOf(d) \subseteq Nodes
      BY DEF EntriesOf
    <3>2. Cardinality(EntriesOf(c) \cap EntriesOf(d)) = 0
      BY <2>1, FS_EmptySet
    <3>3. /\ Cardinality(EntriesOf(c) \cup EntriesOf(d))
               = Cardinality(EntriesOf(c)) + Cardinality(EntriesOf(d)) - Cardinality(EntriesOf(c) \cap EntriesOf(d))
          /\ Cardinality(EntriesOf(c)) \in Nat /\ Cardinality(EntriesOf(d)) \in Nat
      BY EntriesCounted, FS_Union
    <3>4. Cardinality(EntriesOf(c) \cup EntriesOf(d)) <= Cardinality(Nodes)
      <4>1. EntriesOf(c) \cup EntriesOf(d) \subseteq Nodes
        BY <3>1
      <4> QED BY <4>1, DsyncAssumption, FS_Subset
    <3> HIDE DEF EntriesOf
    <3> QED BY SMT, <3>2, <3>3, <3>4
  <2>3. ASSUME NEW e \in {c, d}, 2 * Cardinality(EntriesOf(e)) < N
        PROVE  ~StillRefreshed(e, Cardinality(EntriesOf(e)), Cardinality(Nodes \ EntriesOf(e)))
    <3>1. /\ Cardinality(EntriesOf(e)) \in Nat
          /\ Cardinality(Nodes \ EntriesOf(e)) = N - Cardinality(EntriesOf(e))
      BY EntriesCounted
    <3>2. N \in Nat
      BY QuorumsOverlap
    <3>3. 2 * Quorum(e) = N + 1
      <4> HIDE DEF N
      <4> QED BY SMT, <3>2 DEF Quorum
    <3> DEFINE have == Cardinality(EntriesOf(e))
               lack == Cardinality(Nodes \ EntriesOf(e))
               quorum == Quorum(e)
    <3>4. quorum \in Nat
      BY SMT, QuorumsOverlap
    <3>5. have \in Nat /\ lack = N - have /\ 2 * quorum = N + 1 /\ 2 * have < N
      BY <2>3, <3>1, <3>3
    <3> HIDE DEF have, lack, quorum, N
    <3>6. ~(have >= quorum \/ lack < quorum)
      BY SMT, <3>2, <3>4, <3>5
    <3> QED BY <3>6 DEF StillRefreshed, have, lack, quorum
  <2>4. 2 * Cardinality(EntriesOf(c)) < N \/ 2 * Cardinality(EntriesOf(d)) < N
    <3>1. /\ Cardinality(EntriesOf(c)) \in Nat /\ Cardinality(EntriesOf(d)) \in Nat /\ N \in Nat
          /\ Cardinality(EntriesOf(c)) + Cardinality(EntriesOf(d)) <= N
      BY <2>2, EntriesCounted, QuorumsOverlap DEF N
    <3> HIDE DEF EntriesOf, N
    <3> QED BY SMT, <3>1
  <2> QED BY <2>3, <2>4
<1> QED BY <1>1, NodeConsistentHolds, TypeCorrect, PTL

\* No step but a refresh cancels the context a lock was taken with.
LEMMA OnlyRefreshCancels ==
  ASSUME [Next]_vars, cancelled' # cancelled
  PROVE  \E c \in Clients, off \in SUBSET Nodes : Refresh(c, off)
<1>1. ASSUME NEW c \in Clients, ClientStep(c) PROVE cancelled' = cancelled
  <2>1. ASSUME NEW n \in Nodes, Consume(c, n) \/ Release(c, n) PROVE cancelled' = cancelled
    BY <2>1 DEF Consume, Release
  <2>2. ASSUME NEW a \in Attempts, NEW n \in Nodes, Drain(c, a, n) PROVE cancelled' = cancelled
    BY <2>2 DEF Drain
  <2>3. AcquireTimeout(c) \/ Decide(c) => cancelled' = cancelled
    BY DEF AcquireTimeout, Decide
  <2>4. ReleaseAllReturns(c) \/ GiveUp(c) => cancelled' = cancelled
    BY DEF ReleaseAllReturns, GiveUp
  <2> QED BY <1>1, <2>1, <2>2, <2>3, <2>4 DEF ClientStep
<1>2. ASSUME FaultStep PROVE cancelled' = cancelled
  <2>1. ASSUME NEW c \in Clients, NEW a \in Attempts, NEW n \in Nodes, NEW done \in BOOLEAN,
               ExecuteError(c, a, n, done)
        PROVE  cancelled' = cancelled
    BY <2>1 DEF ExecuteError
  <2>2. ASSUME NEW n \in Nodes, NEW e, Expire(n, e) \/ RestartOrForceUnlock(n) PROVE cancelled' = cancelled
    BY <2>2 DEF Expire, RestartOrForceUnlock, DropEntries
  <2>3. ASSUME NEW c \in Clients, Crash(c) PROVE cancelled' = cancelled
    BY <2>3 DEF Crash
  <2> QED BY <1>2, <2>1, <2>2, <2>3 DEF FaultStep
<1>3. ASSUME NEW c \in Clients, StartAttempt(c) \/ Unlock(c) PROVE cancelled' = cancelled
  BY <1>3 DEF StartAttempt, Unlock
<1>4. ASSUME NEW n \in Nodes, NodeStep(n) PROVE cancelled' = cancelled
  BY <1>4 DEF NodeStep, Execute
<1>5. CASE UNCHANGED vars
  BY <1>5 DEF vars
<1> QED BY <1>1, <1>2, <1>3, <1>4, <1>5 DEF Next

\* refresh reports a loss only when the nodes that still have the entry are too
\* few, whichever nodes fail to answer.
THEOREM NoFalseLossHolds == Spec => NoFalseLoss
<1>1. ASSUME TypeOK, [Next]_vars, NEW c \in Clients, cancelled'[c], ~cancelled[c]
      PROVE  Cardinality(EntriesOf(c)) <= Tolerance(c)
  <2>1. \E off \in SUBSET Nodes : Refresh(c, off)
    <3>1. cancelled' # cancelled
      BY <1>1
    <3>2. \E d \in Clients, off \in SUBSET Nodes : Refresh(d, off)
      BY <1>1, <3>1, OnlyRefreshCancels
    <3>3. PICK d \in Clients, off \in SUBSET Nodes : Refresh(d, off)
      BY <3>2
    <3>4. c # d => cancelled'[c] = cancelled[c]
      BY <1>1, <3>3 DEF Refresh, TypeOK
    <3>5. cancelled'[c] # cancelled[c]
      BY <1>1
    <3>6. d = c
      BY <3>4, <3>5
    <3> QED BY <3>3, <3>6
  <2>2. PICK off \in SUBSET Nodes : Refresh(c, off)
    BY <2>1
  <2>3. Cardinality((Nodes \ EntriesOf(c)) \ off) >= Quorum(c)
    <3>1. EntriesOf(c) \subseteq Nodes
      BY DEF EntriesOf
    <3>2. Cardinality((Nodes \ EntriesOf(c)) \ off) \in Nat /\ Quorum(c) \in Nat
      BY SMT, <3>1, DsyncAssumption, FS_Subset, FS_CardinalityType, QuorumsOverlap
    <3>3. ~StillRefreshed(c, Cardinality(EntriesOf(c) \ off), Cardinality((Nodes \ EntriesOf(c)) \ off))
      BY <1>1, <2>2 DEF Refresh, TypeOK
    <3>4. ~(Cardinality((Nodes \ EntriesOf(c)) \ off) < Quorum(c))
      BY <3>3 DEF StillRefreshed
    <3> HIDE DEF Quorum, EntriesOf
    <3> QED BY SMT, <3>2, <3>4
  <2>5. /\ Cardinality(Nodes \ EntriesOf(c)) = N - Cardinality(EntriesOf(c))
        /\ Cardinality((Nodes \ EntriesOf(c)) \ off) <= Cardinality(Nodes \ EntriesOf(c))
        /\ Cardinality(EntriesOf(c)) \in Nat
        /\ Cardinality((Nodes \ EntriesOf(c)) \ off) \in Nat
    <3>1. IsFiniteSet(Nodes \ EntriesOf(c))
      BY DsyncAssumption, FS_Subset
    <3> QED BY <3>1, EntriesCounted, FS_Subset, FS_CardinalityType
  <2> QED BY SMT, <2>3, <2>5, QuorumsOverlap DEF Tolerance
<1>2. TypeOK /\ [Next]_vars
        => [\A c \in Clients : cancelled'[c] /\ ~cancelled[c] => Cardinality(EntriesOf(c)) <= Tolerance(c)]_vars
  BY <1>1
<1> QED BY <1>2, TypeCorrect, PTL DEF Spec, NoFalseLoss

-----------------------------------------------------------------------------
(* What is left on the nodes *)

\* Nodes that the client still has to release, or may unlock.
Kept(c) ==
  IF phase[c] \in {"acquire", "held"} THEN locks[c]
  ELSE IF phase[c] \in {"abandon", "unlocking"} THEN rel[c] ELSE {}

\* A node has no entry but those of grants in flight and of the array, except
\* where a message was lost.
Covered(c, n) ==
  phase[c] # "crashed" /\ n \notin unsure[c]
    => lockMap[n][c] <= Cardinality(Unconsumed(c, n)) + (IF n \in Kept(c) THEN 1 ELSE 0)

AllCovered == \A c \in Clients, n \in Nodes : Covered(c, n)

\* The calls to come have sent nothing, and the array has consumed grants only.
FreshCalls == \A c \in Clients, a \in Attempts, n \in Nodes : a > att[c] => rpc[c][a][n] = "none"
TakenLocks == \A c \in Clients : phase[c] = "acquire" => \A n \in locks[c] : rpc[c][att[c]][n] = "taken"

LInv == AllCovered /\ FreshCalls /\ TakenLocks

\* Fewer entries, no fewer grants in flight and no less to release keep it.
LEMMA CoveredMono ==
  ASSUME TypeOK, TypeOK', NEW d \in Clients, NEW m \in Nodes, Covered(d, m),
         phase'[d] # "crashed" => phase[d] # "crashed",
         m \notin unsure'[d] => m \notin unsure[d] /\ lockMap'[m][d] <= lockMap[m][d],
         Unconsumed(d, m) \subseteq Unconsumed(d, m)',
         phase'[d] # "crashed" /\ m \in Kept(d) => m \in Kept(d)'
  PROVE  Covered(d, m)'
<1>1. /\ Cardinality(Unconsumed(d, m)) \in Nat
      /\ Cardinality(Unconsumed(d, m)') \in Nat
      /\ Cardinality(Unconsumed(d, m)) <= Cardinality(Unconsumed(d, m)')
  <2>1. IsFiniteSet(Attempts)
    BY SMT, DsyncAssumption, FS_Interval DEF Attempts
  <2>2. IsFiniteSet(Unconsumed(d, m)')
    <3>1. Unconsumed(d, m)' \subseteq Attempts
      BY DEF Unconsumed
    <3> QED BY <2>1, <3>1, FS_Subset
  <2> QED BY <2>2, FS_Subset, FS_CardinalityType
<1>2. lockMap[m][d] \in Nat /\ lockMap'[m][d] \in Nat
  BY SMT DEF TypeOK
<1>3. SUFFICES ASSUME phase'[d] # "crashed", m \notin unsure'[d]
               PROVE  lockMap'[m][d] <= Cardinality(Unconsumed(d, m)') + (IF m \in Kept(d)' THEN 1 ELSE 0)
  BY DEF Covered
<1>4. lockMap[m][d] <= Cardinality(Unconsumed(d, m)) + (IF m \in Kept(d) THEN 1 ELSE 0)
  BY <1>3 DEF Covered
<1> HIDE DEF Unconsumed, Kept
<1> QED BY SMT, <1>1, <1>2, <1>3, <1>4

\* What each action leaves alone stays covered.
LEMMA CoveredElsewhere ==
  ASSUME TypeOK, TypeOK', NEW d \in Clients, NEW m \in Nodes, Covered(d, m),
         phase'[d] = phase[d], locks'[d] = locks[d], rel'[d] = rel[d],
         m \in unsure[d] => m \in unsure'[d],
         lockMap'[m][d] <= lockMap[m][d],
         \A a \in Attempts : rpc'[d][a][m] = rpc[d][a][m]
  PROVE  Covered(d, m)'
<1>1. Unconsumed(d, m)' = Unconsumed(d, m)
  BY DEF Unconsumed
<1>2. Kept(d)' = Kept(d)
  BY DEF Kept
<1> QED BY <1>1, <1>2, CoveredMono

\* A node answers a release with an error only if it has no entry of the caller.
LEMMA NothingToRelease ==
  ASSUME TypeOK, NodeConsistent, NEW c \in Clients, NEW n \in Nodes, ~CanRelease(lockMap[n], c)
  PROVE  lockMap[n][c] = 0
<1>1. lockMap[n] \in [Clients -> Nat]
  BY DEF TypeOK
<1>2. CASE c \in Readers
  BY <1>2 DEF CanRelease, IsWriteLock
<1>3. CASE c \notin Readers
  <2>1. lockMap[n][c] > 0 => lockMap[n][c] = 1 /\ \A d \in Clients \ {c} : lockMap[n][d] = 0
    BY <1>3 DEF NodeConsistent
  <2>2. ~(lockMap[n][c] > 0)
    BY <1>3, <2>1 DEF CanRelease, IsWriteLock
  <2> QED BY SMT, <1>1, <2>2
<1> QED BY <1>2, <1>3

\* sendRelease gives the entry back, finds none, or the message was lost; the
\* other clients and nodes see nothing of it.
LEMMA ReleaseGivesBack ==
  ASSUME TypeOK, TypeOK', NodeConsistent, NEW c \in Clients, NEW n \in Nodes, NEW ok \in BOOLEAN,
         SendRelease(c, n, ok)
  PROVE  /\ n \in unsure'[c] \/ lockMap'[n][c] = 0 \/ lockMap'[n][c] = lockMap[n][c] - 1
         /\ \A d \in Clients, m \in Nodes :
              /\ d # c \/ m # n => lockMap'[m][d] <= lockMap[m][d]
              /\ m \in unsure[d] => m \in unsure'[d]
<1>1. ASSUME NEW d \in Clients, NEW m \in Nodes
      PROVE  (d # c \/ m # n => lockMap'[m][d] <= lockMap[m][d]) /\ (m \in unsure[d] => m \in unsure'[d])
  <2>1. d # c \/ m # n => lockMap'[m][d] = lockMap[m][d] /\ lockMap[m][d] \in Nat
    BY ZenonT(40), ReleaseRemoves
  <2>2. unsure' = unsure \/ unsure' = [unsure EXCEPT ![c] = @ \cup {n}]
    BY DEF SendRelease
  <2>3. m \in unsure[d] => m \in unsure'[d]
    BY ZenonT(60), <2>2 DEF TypeOK
  <2> QED BY SMT, <2>1, <2>3
<1>2. lockMap \in [Nodes -> [Clients -> Nat]] /\ unsure \in [Clients -> SUBSET Nodes]
  BY DEF TypeOK
<1>3. ASSUME lockMap' = [lockMap EXCEPT ![n] = Released(@, c)]
      PROVE  lockMap'[n][c] = 0 \/ lockMap'[n][c] = lockMap[n][c] - 1
  BY SMT, <1>2, <1>3 DEF Released
<1>4. CASE lockMap' = lockMap /\ ~CanRelease(lockMap[n], c)
  <2>1. lockMap[n][c] = 0
    BY <1>4, NothingToRelease
  <2> QED BY <1>1, <1>4, <2>1
<1>5. CASE unsure' = [unsure EXCEPT ![c] = @ \cup {n}]
  <2>1. n \in unsure'[c]
    BY <1>2, <1>5
  <2> QED BY <1>1, <2>1
<1>6. CASE lockMap' = [lockMap EXCEPT ![n] = Released(@, c)]
  BY <1>1, <1>3, <1>6
<1> QED BY <1>4, <1>5, <1>6 DEF SendRelease

\* Entries and what is counted for them change together.
LEMMA CoveredBalance ==
  ASSUME NEW d \in Clients, NEW m \in Nodes, Covered(d, m), phase' = phase, m \in unsure[d] => m \in unsure'[d],
         NEW x \in Nat, NEW y \in Nat, NEW u \in Nat, NEW v \in Nat, x = lockMap[m][d], y = lockMap'[m][d],
         u = Cardinality(Unconsumed(d, m)), v = Cardinality(Unconsumed(d, m)'), NEW k, NEW l,
         k = (IF m \in Kept(d) THEN 1 ELSE 0), l = (IF m \in Kept(d)' THEN 1 ELSE 0),
         m \in unsure'[d] \/ y = 0 \/ y + u + k <= x + v + l
  PROVE  Covered(d, m)'
<1> SUFFICES ASSUME phase[d] # "crashed", m \notin unsure'[d] PROVE y <= v + l
  BY DEF Covered
<1>1. x <= u + k
  BY DEF Covered
<1>2. k \in Nat /\ l \in Nat
  BY SMT
<1>3. y = 0 \/ y + u + k <= x + v + l
  OBVIOUS
<1> QED BY ONLY <1>1, <1>2, <1>3, x \in Nat, y \in Nat, u \in Nat, v \in Nat, SMT

\* A grant at n is one entry and one answer in flight.
LEMMA CoveredExecute ==
  ASSUME TypeOK, TypeOK', AllCovered, NEW c \in Clients, NEW a \in Attempts, NEW n \in Nodes, Execute(c, a, n)
  PROVE  AllCovered'
<1> SUFFICES ASSUME NEW d \in Clients, NEW m \in Nodes PROVE Covered(d, m)'
  BY DEF AllCovered
<1>0. Covered(d, m)
  BY DEF AllCovered
<1>a. lockMap[m][d] \in Nat
  BY SMT DEF TypeOK
<1>1. CASE d # c \/ m # n
  <2>1. lockMap'[m][d] = lockMap[m][d] /\ \A b \in Attempts : rpc'[d][b][m] = rpc[d][b][m]
    BY SMT, <1>1 DEF TypeOK, Execute, Granted
  <2>2. lockMap'[m][d] <= lockMap[m][d]
    BY SMT, <1>a, <2>1
  <2> QED BY <1>0, <2>1, <2>2, CoveredElsewhere DEF Execute
<1>2. CASE d = c /\ m = n
  <2>0. Kept(d)' = Kept(d) /\ unsure' = unsure /\ phase' = phase
    BY DEF Execute, Kept
  <2>1. CASE ~CanGrant(lockMap[n], c)
    <3>1. lockMap' = lockMap /\ Unconsumed(d, m) \subseteq Unconsumed(d, m)'
      BY SMT, <1>2, <2>1 DEF TypeOK, Execute, Unconsumed
    <3>2. lockMap'[m][d] <= lockMap[m][d]
      BY SMT, <1>a, <3>1
    <3> QED BY <1>0, <2>0, <3>1, <3>2, CoveredMono
  <2>2. CASE CanGrant(lockMap[n], c)
    <3>1. lockMap'[m][d] = lockMap[m][d] + 1
      BY SMT, <1>2, <2>2 DEF TypeOK, Execute, Granted
    <3>2. Unconsumed(d, m)' = Unconsumed(d, m) \cup {a} /\ a \notin Unconsumed(d, m)
      BY SMT, <1>2, <2>2 DEF TypeOK, Execute, Unconsumed
    <3>4. IsFiniteSet(Unconsumed(d, m)) /\ Cardinality(Unconsumed(d, m)) \in Nat
      BY UnconsumedFinite
    <3>5. Cardinality(Unconsumed(d, m)') = Cardinality(Unconsumed(d, m)) + 1
      BY <3>2, <3>4, FS_AddElement
    <3> PICK x, y, u, v, k : /\ x = lockMap[m][d] /\ y = lockMap'[m][d] /\ u = Cardinality(Unconsumed(d, m))
                             /\ v = Cardinality(Unconsumed(d, m)') /\ k = IF m \in Kept(d) THEN 1 ELSE 0
      OBVIOUS
    <3>6. x \in Nat /\ u \in Nat /\ y = x + 1 /\ v = u + 1 /\ k \in Nat
      <4>1. k = 0 \/ k = 1
        OBVIOUS
      <4>2. k \in Nat
        BY ONLY <4>1, SMT
      <4> QED BY <1>a, <3>1, <3>4, <3>5, <4>2
    <3>7. y \in Nat /\ v \in Nat /\ y + u + k <= x + v + k
      BY ONLY <3>6, SMT
    <3> QED BY <1>0, <2>0, <3>6, <3>7, CoveredBalance
  <2> QED BY <2>1, <2>2
<1> QED BY <1>1, <1>2

\* lock() consumes an answer: a grant moves from the channel to the array, which
\* did not have it.
LEMMA CoveredConsume ==
  ASSUME TypeOK, TypeOK', AllCovered, TakenLocks, Started, NEW c \in Clients, NEW n \in Nodes, Consume(c, n)
  PROVE  AllCovered'
<1> SUFFICES ASSUME NEW d \in Clients, NEW m \in Nodes PROVE Covered(d, m)'
  BY DEF AllCovered
<1>a. lockMap[m][d] \in Nat
  BY SMT DEF TypeOK
<1>0. Covered(d, m) /\ lockMap[m][d] \in Nat /\ lockMap' = lockMap /\ unsure' = unsure /\ phase' = phase
  BY <1>a DEF AllCovered, Consume
<1>1. lockMap'[m][d] <= lockMap[m][d]
  BY SMT, <1>0
<1>2. CASE d # c
  <2>1. (\A b \in Attempts : rpc'[d][b][m] = rpc[d][b][m]) /\ locks'[d] = locks[d]
    <3>1. rpc \in [Clients -> [Attempts -> [Nodes -> RPCs]]] /\ rpc' = [rpc EXCEPT ![c][att[c]][n] = "taken"]
      BY DEF TypeOK, Consume
    <3>2. \A b \in Attempts : rpc'[d][b][m] = rpc[d][b][m]
      BY ONLY <1>2, <3>1, c \in Clients, d \in Clients, n \in Nodes, m \in Nodes, SMT
    <3>3. locks \in [Clients -> SUBSET Nodes] /\ (locks' = locks \/ locks' = [locks EXCEPT ![c] = @ \cup {n}])
      BY DEF TypeOK, Consume
    <3> QED BY <1>2, <3>2, <3>3
  <2> QED BY <1>0, <1>1, <2>1, CoveredElsewhere DEF Consume
<1>3. CASE d = c
  <2>0. phase[c] = "acquire" /\ rpc'[c] = [rpc[c] EXCEPT ![att[c]] = [@ EXCEPT ![n] = "taken"]]
    BY DEF Consume, TypeOK
  <2>1. Kept(d)' = locks'[d] /\ Kept(d) = locks[d]
    BY <1>0, <1>3, <2>0 DEF Kept
  <2>2. locks[d] \subseteq locks'[d]
    <3>1. locks \in [Clients -> SUBSET Nodes] /\ (locks' = locks \/ locks' = [locks EXCEPT ![c] = @ \cup {n}])
      BY DEF TypeOK, Consume
    <3> QED BY <1>3, <3>1
  <2>3. CASE m # n \/ rpc[c][att[c]][n] # "granted"
    <3>1. Unconsumed(d, m) \subseteq Unconsumed(d, m)'
      BY SMT, <1>3, <2>0, <2>3 DEF Unconsumed, TypeOK
    <3> QED BY <1>0, <1>1, <2>1, <2>2, <3>1, CoveredMono
  <2>4. CASE m = n /\ rpc[c][att[c]][n] = "granted"
    <3>1. m \notin locks[d] /\ m \in locks'[d]
      <4>1. m \notin locks[d]
        BY <1>3, <2>0, <2>4 DEF TakenLocks
      <4>2. locks' = [locks EXCEPT ![c] = @ \cup {n}]
        BY <2>4 DEF Consume
      <4>3. locks \in [Clients -> SUBSET Nodes]
        BY DEF TypeOK
      <4> QED BY <1>3, <2>4, <4>1, <4>2, <4>3
    <3>2. att[c] \in Attempts
      BY <2>0 DEF Started
    <3> PICK b \in Attempts : b = att[c]
      BY <3>2
    <3>3. Unconsumed(d, m)' = Unconsumed(d, m) \ {b} /\ b \in Unconsumed(d, m)
      BY SMT, <1>3, <2>0, <2>4, <3>2 DEF Unconsumed, TypeOK
    <3>4. IsFiniteSet(Unconsumed(d, m)) /\ Cardinality(Unconsumed(d, m)) \in Nat
      BY UnconsumedFinite
    <3>5. Cardinality(Unconsumed(d, m)') = Cardinality(Unconsumed(d, m)) - 1
      BY ZenonT(40), <3>3, <3>4, FS_RemoveElement
    <3> PICK x, y, u, v : /\ x = lockMap[m][d] /\ y = lockMap'[m][d] /\ u = Cardinality(Unconsumed(d, m))
                          /\ v = Cardinality(Unconsumed(d, m)')
      OBVIOUS
    <3>6. Cardinality(Unconsumed(d, m)') \in Nat
      <4>1. Unconsumed(d, m)' \subseteq Unconsumed(d, m)
        BY <3>3
      <4> QED BY <3>4, <4>1, FS_Subset, FS_CardinalityType
    <3>7. x \in Nat /\ y = x /\ u \in Nat /\ v \in Nat /\ v = u - 1
      BY <1>0, <3>4, <3>5, <3>6
    <3>8. y + u + 0 <= x + v + 1
      BY ONLY <3>7, SMT
    <3>9. 0 = (IF m \in Kept(d) THEN 1 ELSE 0) /\ 1 = (IF m \in Kept(d)' THEN 1 ELSE 0) /\ y \in Nat
      BY <2>1, <3>1, <3>7
    <3> QED BY <1>0, <3>7, <3>8, <3>9, CoveredBalance
  <2> QED BY <2>3, <2>4
<1> QED BY <1>2, <1>3

\* releaseAll takes one entry away for each node it has dealt with.
LEMMA CoveredRelease ==
  ASSUME TypeOK, TypeOK', NodeConsistent, AllCovered, NEW c \in Clients, NEW n \in Nodes, Release(c, n)
  PROVE  AllCovered'
<1> SUFFICES ASSUME NEW d \in Clients, NEW m \in Nodes PROVE Covered(d, m)'
  BY DEF AllCovered
<1>a. lockMap[m][d] \in Nat /\ lockMap'[m][d] \in Nat
  BY SMT DEF TypeOK
<1>0. Covered(d, m) /\ lockMap[m][d] \in Nat /\ lockMap'[m][d] \in Nat
  BY <1>a DEF AllCovered
<1>1. PICK ok \in BOOLEAN : /\ SendRelease(c, n, ok)
                           /\ locks' = IF ok THEN [locks EXCEPT ![c] = @ \ {n}] ELSE locks
  BY DEF Release
<1>2. /\ phase' = phase /\ rpc' = rpc /\ phase[c] \in {"abandon", "unlocking"}
      /\ n \in rel[c] /\ rel' = [rel EXCEPT ![c] = @ \ {n}]
  BY DEF Release
<1>3. /\ n \in unsure'[c] \/ lockMap'[n][c] = 0 \/ lockMap'[n][c] = lockMap[n][c] - 1
      /\ d # c \/ m # n => lockMap'[m][d] <= lockMap[m][d]
      /\ m \in unsure[d] => m \in unsure'[d]
  BY ZenonT(40), <1>1, ReleaseGivesBack
<1>4. Unconsumed(d, m)' = Unconsumed(d, m)
  BY <1>2 DEF Unconsumed
<1>5. CASE d # c
  <2>1. rel'[d] = rel[d] /\ locks'[d] = locks[d]
    BY <1>1, <1>2, <1>5 DEF TypeOK
  <2> QED BY <1>0, <1>2, <1>3, <1>5, <2>1, CoveredElsewhere
<1>6. CASE d = c
  <2>1. Kept(d)' = rel'[c] /\ Kept(d) = rel[c] /\ rel'[c] = rel[c] \ {n}
    BY <1>2, <1>6 DEF Kept, TypeOK
  <2>2. CASE m # n
    BY <1>0, <1>2, <1>3, <1>4, <2>1, <2>2, CoveredMono
  <2>3. CASE m = n
    <3>1. Cardinality(Unconsumed(d, m)) \in Nat
      BY UnconsumedFinite
    <3>2. n \in Kept(d) /\ n \notin Kept(d)'
      BY <1>2, <2>1
    <3> PICK x, y, u : x = lockMap[m][d] /\ y = lockMap'[m][d] /\ u = Cardinality(Unconsumed(d, m))
      OBVIOUS
    <3>3. x \in Nat /\ y \in Nat /\ u \in Nat /\ (m \in unsure'[d] \/ y = 0 \/ y = x - 1)
      BY <1>0, <1>3, <1>6, <2>3, <3>1
    <3>4. y = x - 1 => y + u + 1 <= x + u + 0
      BY ONLY <3>3, SMT
    <3>5. 1 = (IF m \in Kept(d) THEN 1 ELSE 0) /\ 0 = (IF m \in Kept(d)' THEN 1 ELSE 0)
      BY <2>3, <3>2
    <3>6. u = Cardinality(Unconsumed(d, m)')
      BY <1>4
    <3> QED BY <1>0, <1>2, <1>3, <3>3, <3>4, <3>5, <3>6, CoveredBalance
  <2> QED BY <2>2, <2>3
<1> QED BY <1>5, <1>6

\* The drain goroutine takes the entry of a grant in flight away with it.
LEMMA CoveredDrain ==
  ASSUME TypeOK, TypeOK', NodeConsistent, AllCovered,
         NEW c \in Clients, NEW a \in Attempts, NEW n \in Nodes, Drain(c, a, n)
  PROVE  AllCovered'
<1> SUFFICES ASSUME NEW d \in Clients, NEW m \in Nodes PROVE Covered(d, m)'
  BY DEF AllCovered
<1>a. lockMap[m][d] \in Nat /\ lockMap'[m][d] \in Nat
  BY SMT DEF TypeOK
<1>0. Covered(d, m) /\ lockMap[m][d] \in Nat /\ lockMap'[m][d] \in Nat
  BY <1>a DEF AllCovered
<1>1. PICK ok \in BOOLEAN : SendRelease(c, n, ok)
  BY DEF Drain
<1>2. /\ n \in unsure'[c] \/ lockMap'[n][c] = 0 \/ lockMap'[n][c] = lockMap[n][c] - 1
      /\ d # c \/ m # n => lockMap'[m][d] <= lockMap[m][d]
      /\ m \in unsure[d] => m \in unsure'[d]
  BY ZenonT(40), <1>1, ReleaseGivesBack
<1>3. CASE d # c \/ m # n
  <2>1. \A b \in Attempts : rpc'[d][b][m] = rpc[d][b][m]
    <3>1. rpc \in [Clients -> [Attempts -> [Nodes -> RPCs]]] /\ rpc' = [rpc EXCEPT ![c][a][n] = "taken"]
      BY DEF TypeOK, Drain
    <3> QED BY ONLY <1>3, <3>1, c \in Clients, d \in Clients, n \in Nodes, m \in Nodes, SMT
  <2> QED BY <1>0, <1>2, <1>3, <2>1, CoveredElsewhere DEF Drain
<1>4. CASE d = c /\ m = n
  <2>1. Unconsumed(d, m)' = Unconsumed(d, m) \ {a} /\ a \in Unconsumed(d, m)
    <3>1. rpc \in [Clients -> [Attempts -> [Nodes -> RPCs]]] /\ rpc' = [rpc EXCEPT ![c][a][n] = "taken"]
      BY DEF TypeOK, Drain
    <3>3. rpc[d][a][m] = "granted"
      BY <1>4 DEF Drain
    <3>2. \A b \in Attempts : rpc'[d][b][m] = IF b = a THEN "taken" ELSE rpc[d][b][m]
      BY ONLY <1>4, <3>1, c \in Clients, d \in Clients, n \in Nodes, m \in Nodes, SMT
    <3>4. a \in Attempts
      OBVIOUS
    <3> QED BY ONLY <3>2, <3>3, <3>4 DEF Unconsumed
  <2>2. IsFiniteSet(Unconsumed(d, m)) /\ Cardinality(Unconsumed(d, m)) \in Nat
    BY UnconsumedFinite
  <2>3. Cardinality(Unconsumed(d, m)') = Cardinality(Unconsumed(d, m)) - 1 /\ Cardinality(Unconsumed(d, m)') \in Nat
    <3>1. Cardinality(Unconsumed(d, m)') = Cardinality(Unconsumed(d, m)) - 1
      BY ZenonT(40), <2>1, <2>2, FS_RemoveElement
    <3>2. IsFiniteSet(Unconsumed(d, m)')
      BY <2>1, <2>2, FS_Subset
    <3> QED BY <3>1, <3>2, FS_CardinalityType
  <2>4. Kept(d)' = Kept(d) /\ phase' = phase
    BY DEF Drain, Kept
  <2> PICK x, y, u, v, k : /\ x = lockMap[m][d] /\ y = lockMap'[m][d] /\ u = Cardinality(Unconsumed(d, m))
                           /\ v = Cardinality(Unconsumed(d, m)') /\ k = IF m \in Kept(d) THEN 1 ELSE 0
    OBVIOUS
  <2>5. x \in Nat /\ y \in Nat /\ u \in Nat /\ v \in Nat /\ v = u - 1 /\ (k = 0 \/ k = 1)
        /\ (m \in unsure'[d] \/ y = 0 \/ y = x - 1)
    BY <1>0, <1>2, <1>4, <2>2, <2>3
  <2>6. y = x - 1 => y + u + k <= x + v + k
    BY ONLY <2>5, SMT
  <2>7. k = (IF m \in Kept(d) THEN 1 ELSE 0) /\ k = (IF m \in Kept(d)' THEN 1 ELSE 0)
    BY <2>4
  <2>8. m \in unsure'[d] \/ y = 0 \/ y + u + k <= x + v + k
    BY <2>5, <2>6
  <2> QED BY <1>0, <1>2, <2>4, <2>5, <2>7, <2>8, CoveredBalance
<1> QED BY <1>3, <1>4

\* A step that touches neither entries nor grants in flight, and after which no
\* client that is still there has less to release.
LEMMA CoveredPhase ==
  ASSUME TypeOK, TypeOK', AllCovered, lockMap' = lockMap, unsure' = unsure,
         \A d \in Clients, m \in Nodes : Unconsumed(d, m)' = Unconsumed(d, m),
         \A d \in Clients : phase'[d] # "crashed" => phase[d] # "crashed" /\ Kept(d) \subseteq Kept(d)'
  PROVE  AllCovered'
<1> SUFFICES ASSUME NEW d \in Clients, NEW m \in Nodes PROVE Covered(d, m)'
  BY DEF AllCovered
<1>1. lockMap[m][d] \in Nat
  BY SMT DEF TypeOK
<1>2. Covered(d, m) /\ lockMap'[m][d] <= lockMap[m][d]
  BY SMT, <1>1 DEF AllCovered
<1> QED BY <1>2, CoveredMono

\* A new attempt uses requests of its own: no grant in flight is forgotten.
LEMMA CoveredStart ==
  ASSUME TypeOK, TypeOK', AllCovered, FreshCalls, NEW c \in Clients, StartAttempt(c)
  PROVE  AllCovered'
<1>1. ASSUME NEW d \in Clients, NEW m \in Nodes PROVE Unconsumed(d, m)' = Unconsumed(d, m)
  <2>1. att[c] + 1 \in Attempts /\ att[c] + 1 > att[c]
    <3>1. att[c] \in 0..MaxAttempts /\ (att[c] < 1 \/ att[c] < MaxAttempts)
      BY DEF StartAttempt, TypeOK
    <3>2. MaxAttempts \in Nat \ {0}
      BY DsyncAssumption
    <3> QED BY ONLY <3>1, <3>2, SMT DEF Attempts
  <2>2. rpc[c][att[c] + 1][m] = "none"
    BY <2>1 DEF FreshCalls
  <2>3. rpc' = [rpc EXCEPT ![c] = [@ EXCEPT ![att[c] + 1] = [k \in Nodes |-> "sent"]]]
    BY DEF StartAttempt
  <2>4. rpc \in [Clients -> [Attempts -> [Nodes -> RPCs]]]
    BY DEF TypeOK
  <2>5. ASSUME NEW a \in Attempts PROVE rpc'[d][a][m] = "granted" <=> rpc[d][a][m] = "granted"
    <3>1. CASE d = c /\ a = att[c] + 1
      <4>1. rpc'[d][a][m] = "sent"
        BY <2>3, <2>4, <3>1
      <4> QED BY <2>2, <3>1, <4>1
    <3>2. CASE d # c \/ a # att[c] + 1
      <4>1. rpc'[d][a] = rpc[d][a]
        BY <2>3, <2>4, <3>2
      <4> QED BY <4>1
    <3> QED BY <3>1, <3>2
  <2> QED BY <2>5 DEF Unconsumed
<1>2. \A d \in Clients : phase'[d] # "crashed" => phase[d] # "crashed" /\ Kept(d) \subseteq Kept(d)'
  BY DEF StartAttempt, Kept, TypeOK
<1> QED BY <1>1, <1>2, CoveredPhase DEF StartAttempt

\* The steps of a client that only change its phase and its own arrays: what it
\* decides to give back is what it was granted, and it goes on only when
\* nothing is left to release.
LEMMA CoveredEnds ==
  ASSUME TypeOK, TypeOK', AllCovered, NEW c \in Clients
  PROVE  /\ GiveUp(c) => AllCovered'
         /\ AcquireTimeout(c) => AllCovered'
         /\ Decide(c) => AllCovered'
         /\ ReleaseAllReturns(c) => AllCovered'
         /\ Unlock(c) => AllCovered'
         /\ Crash(c) => AllCovered'
<1>0. rpc' = rpc => \A d \in Clients, m \in Nodes : Unconsumed(d, m)' = Unconsumed(d, m)
  BY DEF Unconsumed
<1>1. ASSUME GiveUp(c) PROVE AllCovered'
  <2>1. \A d \in Clients : phase'[d] # "crashed" => phase[d] # "crashed" /\ Kept(d) \subseteq Kept(d)'
    BY <1>1 DEF GiveUp, Kept, TypeOK
  <2> QED BY <1>0, <1>1, <2>1, CoveredPhase DEF GiveUp
<1>2. ASSUME AcquireTimeout(c) PROVE AllCovered'
  <2>1. \A d \in Clients : phase'[d] # "crashed" => phase[d] # "crashed" /\ Kept(d) \subseteq Kept(d)'
    BY <1>2 DEF AcquireTimeout, Kept, TypeOK
  <2> QED BY <1>0, <1>2, <2>1, CoveredPhase DEF AcquireTimeout
<1>3. ASSUME Decide(c) PROVE AllCovered'
  <2>1. \A d \in Clients : phase'[d] # "crashed" => phase[d] # "crashed" /\ Kept(d) \subseteq Kept(d)'
    BY SMT, <1>3 DEF Decide, Kept, TypeOK
  <2> QED BY <1>0, <1>3, <2>1, CoveredPhase DEF Decide
<1>4. ASSUME ReleaseAllReturns(c) PROVE AllCovered'
  <2>1. \A d \in Clients : phase'[d] # "crashed" => phase[d] # "crashed" /\ Kept(d) \subseteq Kept(d)'
    BY SMT, <1>4 DEF ReleaseAllReturns, Kept, TypeOK
  <2> QED BY <1>0, <1>4, <2>1, CoveredPhase DEF ReleaseAllReturns
<1>5. ASSUME Unlock(c) PROVE AllCovered'
  <2>1. \A d \in Clients : phase'[d] # "crashed" => phase[d] # "crashed" /\ Kept(d) \subseteq Kept(d)'
    BY ZenonT(60), <1>5 DEF Unlock, Kept, TypeOK
  <2> QED BY <1>0, <1>5, <2>1, CoveredPhase DEF Unlock
<1>6. ASSUME Crash(c) PROVE AllCovered'
  <2>1. \A d \in Clients : phase'[d] # "crashed" => phase[d] # "crashed" /\ Kept(d) \subseteq Kept(d)'
    <3>1. /\ phase' = [phase EXCEPT ![c] = "crashed"] /\ locks' = [locks EXCEPT ![c] = {}] /\ rel' = [rel EXCEPT ![c] = {}]
          /\ DOMAIN phase = Clients /\ DOMAIN locks = Clients /\ DOMAIN rel = Clients
      BY <1>6 DEF Crash, TypeOK
    <3> QED BY <3>1 DEF Kept
  <2> QED BY <1>0, <1>6, <2>1, CoveredPhase DEF Crash
<1> QED BY <1>1, <1>2, <1>3, <1>4, <1>5, <1>6

\* A refresh only counts answers.
LEMMA CoveredRefresh ==
  ASSUME TypeOK, TypeOK', AllCovered, NEW c \in Clients, NEW off \in SUBSET Nodes, Refresh(c, off)
  PROVE  AllCovered'
<1>1. lockMap' = lockMap /\ unsure' = unsure /\ rpc' = rpc /\ phase' = phase /\ locks' = locks /\ rel' = rel
  BY DEF Refresh
<1>2. \A d \in Clients, m \in Nodes : Unconsumed(d, m)' = Unconsumed(d, m) /\ Kept(d)' = Kept(d)
  BY <1>1 DEF Unconsumed, Kept
<1>3. \A d \in Clients : Kept(d)' = Kept(d)
  BY <1>1 DEF Kept
<1> QED BY <1>1, <1>2, <1>3, CoveredPhase

\* A lost answer: the entry it left, if any, is one the client is not sure of.
LEMMA CoveredError ==
  ASSUME TypeOK, TypeOK', AllCovered, NEW c \in Clients,
         NEW a \in Attempts, NEW n \in Nodes, NEW done \in BOOLEAN, ExecuteError(c, a, n, done)
  PROVE  AllCovered'
<1> SUFFICES ASSUME NEW d \in Clients, NEW m \in Nodes PROVE Covered(d, m)'
  BY DEF AllCovered
<1>1. Covered(d, m) /\ phase' = phase /\ Kept(d)' = Kept(d)
  BY DEF AllCovered, ExecuteError, Kept
<1>2. Unconsumed(d, m) \subseteq Unconsumed(d, m)'
  <2>1. /\ rpc \in [Clients -> [Attempts -> [Nodes -> RPCs]]] /\ rpc[c][a][n] = "sent"
        /\ rpc' = [rpc EXCEPT ![c][a][n] = "denied"]
    BY DEF TypeOK, ExecuteError
  <2>2. \A b \in Attempts : rpc'[d][b][m] = IF d = c /\ b = a /\ m = n THEN "denied" ELSE rpc[d][b][m]
    BY ONLY <2>1, c \in Clients, d \in Clients, n \in Nodes, m \in Nodes, SMT
  <2> QED BY <2>1, <2>2 DEF Unconsumed
<1>3. lockMap \in [Nodes -> [Clients -> Nat]] /\ unsure \in [Clients -> SUBSET Nodes] /\ lockMap[m][d] \in Nat
  BY SMT DEF TypeOK
<1>4. ASSUME m \notin unsure'[d] PROVE m \notin unsure[d] /\ lockMap'[m][d] <= lockMap[m][d]
  <2>1. CASE done = FALSE
    BY SMT, <1>3, <1>4, <2>1 DEF ExecuteError
  <2>2. CASE done = TRUE
    <3>1. unsure' = [unsure EXCEPT ![c] = unsure[c] \cup {n}] /\ lockMap' = [lockMap EXCEPT ![n] = Granted(lockMap[n], c)]
      BY <2>2 DEF ExecuteError
    <3>2. m \notin unsure[d] /\ (d # c \/ m # n)
      BY <1>3, <1>4, <3>1
    <3>3. lockMap'[m][d] = lockMap[m][d]
      BY <1>3, <3>1, <3>2 DEF Granted
    <3> QED BY SMT, <1>3, <3>2, <3>3
  <2> QED BY <2>1, <2>2
<1> QED BY <1>1, <1>2, <1>4, CoveredMono

\* A node that drops entries has fewer.
LEMMA CoveredDrop ==
  ASSUME TypeOK, TypeOK', AllCovered, NEW n \in Nodes, NEW e \in [Clients -> Nat], DropEntries(n, e)
  PROVE  AllCovered'
<1> SUFFICES ASSUME NEW d \in Clients, NEW m \in Nodes PROVE Covered(d, m)'
  BY DEF AllCovered
<1>1. Covered(d, m)
  BY DEF AllCovered
<1>2. lockMap'[m][d] <= lockMap[m][d]
  <2>1. /\ lockMap' = [lockMap EXCEPT ![n] = e] /\ lockMap \in [Nodes -> [Clients -> Nat]]
        /\ \A o \in Clients : e[o] <= lockMap[n][o]
    BY DEF DropEntries, TypeOK
  <2> QED BY ONLY <2>1, n \in Nodes, m \in Nodes, d \in Clients, SMT
<1> QED BY <1>1, <1>2, CoveredElsewhere DEF DropEntries

\* Every step keeps the entries covered.
LEMMA CoveredStep ==
  ASSUME TypeOK, TypeOK', NodeConsistent, AllCovered, FreshCalls, TakenLocks, Started, [Next]_vars
  PROVE  AllCovered'
<1>1. CASE UNCHANGED vars
  <2>1. \A d \in Clients, m \in Nodes : Unconsumed(d, m)' = Unconsumed(d, m) /\ Kept(d)' = Kept(d)
    BY <1>1 DEF vars, Unconsumed, Kept
  <2>2. \A d \in Clients : Kept(d)' = Kept(d)
    BY <1>1 DEF vars, Kept
  <2> QED BY <1>1, <2>1, <2>2, CoveredPhase DEF vars
<1>2. CASE FaultStep
  <2>1. ASSUME NEW n \in Nodes, NEW e \in [Clients -> 0..MaxAttempts], Expire(n, e) PROVE AllCovered'
    <3>1. e \in [Clients -> Nat]
      BY SMT, DsyncAssumption
    <3> QED BY <2>1, <3>1, CoveredDrop DEF Expire
  <2>2. ASSUME NEW n \in Nodes, RestartOrForceUnlock(n) PROVE AllCovered'
    <3>1. NoEntries \in [Clients -> Nat]
      BY DEF NoEntries
    <3> QED BY <2>2, <3>1, CoveredDrop DEF RestartOrForceUnlock
  <2> QED BY <1>2, <2>1, <2>2, CoveredEnds, CoveredError DEF FaultStep
<1>3. ASSUME NEW c \in Clients, ClientStep(c) PROVE AllCovered'
  BY <1>3, CoveredConsume, CoveredRelease, CoveredDrain, CoveredEnds DEF ClientStep
<1> QED BY <1>1, <1>2, <1>3, CoveredStart, CoveredEnds, CoveredRefresh, CoveredExecute DEF Next, NodeStep

\* The steps other than a new attempt and the receipt of an answer: requests
\* not sent yet and answers already taken stay so, and no array grows.
LEMMA CallsKept ==
  ASSUME FreshCalls, TakenLocks, att' = att,
         \A d \in Clients : phase'[d] = "acquire" => phase[d] = "acquire" /\ locks'[d] = locks[d],
         \A d \in Clients, b \in Attempts, m \in Nodes :
           rpc[d][b][m] \in {"none", "taken"} => rpc'[d][b][m] = rpc[d][b][m],
         TypeOK, Started
  PROVE  FreshCalls' /\ TakenLocks'
<1>1. FreshCalls'
  <2> SUFFICES ASSUME NEW d \in Clients, NEW b \in Attempts, NEW m \in Nodes, b > att'[d]
               PROVE  rpc'[d][b][m] = "none"
    BY DEF FreshCalls
  <2>0. b > att[d]
    OBVIOUS
  <2>1. rpc[d][b][m] = "none"
    BY ONLY <2>0, FreshCalls, d \in Clients, b \in Attempts, m \in Nodes DEF FreshCalls
  <2> QED BY <2>1
<1>2. TakenLocks'
  <2> SUFFICES ASSUME NEW d \in Clients, phase'[d] = "acquire", NEW m \in locks'[d]
               PROVE  rpc'[d][att'[d]][m] = "taken"
    BY DEF TakenLocks
  <2>1. phase[d] = "acquire" /\ m \in locks[d] /\ m \in Nodes /\ att[d] \in Attempts
    BY DEF Started, TypeOK
  <2>2. rpc[d][att[d]][m] = "taken"
    BY <2>1 DEF TakenLocks
  <2> QED BY <2>1, <2>2
<1> QED BY <1>1, <1>2

\* One request changes, and it was sent or granted.
LEMMA OneCall ==
  ASSUME TypeOK, NEW c \in Clients, NEW a \in Attempts, NEW n \in Nodes, NEW x,
         rpc' = [rpc EXCEPT ![c][a][n] = x], rpc[c][a][n] \in {"sent", "granted"}
  PROVE  \A d \in Clients, b \in Attempts, m \in Nodes :
           rpc[d][b][m] \in {"none", "taken"} => rpc'[d][b][m] = rpc[d][b][m]
<1>1. rpc \in [Clients -> [Attempts -> [Nodes -> RPCs]]]
  BY DEF TypeOK
<1> SUFFICES ASSUME NEW d \in Clients, NEW b \in Attempts, NEW m \in Nodes, rpc[d][b][m] \in {"none", "taken"}
             PROVE  rpc'[d][b][m] = rpc[d][b][m]
  OBVIOUS
<1>2. ~(d = c /\ b = a /\ m = n)
  OBVIOUS
<1> QED BY SMT, <1>1, <1>2

\* A new attempt is the next one, and its array is empty.
LEMMA CallsStart ==
  ASSUME TypeOK, FreshCalls, TakenLocks, Started, NEW c \in Clients, StartAttempt(c)
  PROVE  FreshCalls' /\ TakenLocks'
<1>1. /\ rpc' = [rpc EXCEPT ![c] = [@ EXCEPT ![att[c] + 1] = [k \in Nodes |-> "sent"]]]
      /\ att' = [att EXCEPT ![c] = @ + 1] /\ phase' = [phase EXCEPT ![c] = "acquire"]
      /\ locks' = [locks EXCEPT ![c] = {}]
  BY DEF StartAttempt
<1>2. /\ rpc \in [Clients -> [Attempts -> [Nodes -> RPCs]]] /\ att \in [Clients -> 0..MaxAttempts]
      /\ locks \in [Clients -> SUBSET Nodes] /\ phase \in [Clients -> Phases]
  BY DEF TypeOK
<1>3. ASSUME NEW d \in Clients, NEW b \in Attempts, NEW m \in Nodes, b > att'[d]
      PROVE  rpc'[d][b][m] = "none"
  <2>1. b > att[d] /\ (d # c \/ b # att[c] + 1)
    BY SMT, <1>1, <1>2, <1>3, DsyncAssumption DEF Attempts
  <2>2. rpc'[d][b] = rpc[d][b]
    BY <1>1, <1>2, <2>1
  <2> QED BY <2>1, <2>2 DEF FreshCalls
<1>4. ASSUME NEW d \in Clients, phase'[d] = "acquire", NEW m \in locks'[d]
      PROVE  rpc'[d][att'[d]][m] = "taken"
  <2>1. d # c
    BY <1>1, <1>2, <1>4
  <2>2. phase'[d] = phase[d] /\ locks'[d] = locks[d] /\ att'[d] = att[d] /\ rpc'[d] = rpc[d]
    BY <1>1, <1>2, <2>1
  <2> QED BY <1>4, <2>2 DEF TakenLocks
<1> QED BY <1>3, <1>4 DEF FreshCalls, TakenLocks

\* An answer that lock() receives is taken, whatever it says.
LEMMA CallsConsume ==
  ASSUME TypeOK, FreshCalls, TakenLocks, Started, NEW c \in Clients, NEW n \in Nodes, Consume(c, n)
  PROVE  FreshCalls' /\ TakenLocks'
<1>1. /\ rpc' = [rpc EXCEPT ![c] = [rpc[c] EXCEPT ![att[c]] = [rpc[c][att[c]] EXCEPT ![n] = "taken"]]]
      /\ att' = att /\ phase' = phase
  <2>1. rpc' = [rpc EXCEPT ![c][att[c]][n] = "taken"] /\ att' = att /\ phase' = phase
    BY DEF Consume
  <2> QED BY SMT, <2>1
<1>2. /\ rpc \in [Clients -> [Attempts -> [Nodes -> RPCs]]] /\ att \in [Clients -> 0..MaxAttempts]
      /\ locks \in [Clients -> SUBSET Nodes] /\ phase \in [Clients -> Phases]
  BY DEF TypeOK
<1>3. att[c] \in Attempts /\ phase[c] = "acquire"
  BY DEF Consume, Started
<1>4. ASSUME NEW d \in Clients, NEW b \in Attempts, NEW m \in Nodes, b > att[d]
      PROVE  rpc'[d][b][m] = "none"
  <2>1. d # c \/ b # att[c]
    BY SMT, <1>2, <1>4 DEF Attempts
  <2>2. rpc'[d][b] = rpc[d][b]
    BY <1>1, <1>2, <2>1
  <2> QED BY <1>4, <2>2 DEF FreshCalls
<1>5. ASSUME NEW d \in Clients, phase[d] = "acquire", NEW m \in locks'[d]
      PROVE  rpc'[d][att[d]][m] = "taken"
  <2>1. locks' = locks \/ locks' = [locks EXCEPT ![c] = @ \cup {n}]
    BY DEF Consume
  <2>2. CASE d # c
    <3>1. rpc'[d] = rpc[d] /\ m \in locks[d]
      BY <1>1, <1>2, <1>5, <2>1, <2>2
    <3> QED BY <1>5, <3>1 DEF TakenLocks
  <2>3. CASE d = c
    <3>1. rpc'[c][att[c]] = [rpc[c][att[c]] EXCEPT ![n] = "taken"]
      BY <1>1, <1>2, <1>3
    <3>2. rpc[c][att[c]] \in [Nodes -> RPCs]
      BY <1>2, <1>3
    <3>3. m = n \/ m \in locks[c]
      BY <1>2, <1>5, <2>1, <2>3
    <3>4. CASE m = n
      BY <2>3, <3>1, <3>2, <3>4
    <3>5. CASE m # n
      <4>1. m \in locks[c] /\ m \in Nodes
        BY <1>2, <3>3, <3>5
      <4>2. rpc[c][att[c]][m] = "taken"
        BY <1>3, <4>1 DEF TakenLocks
      <4> QED BY <2>3, <3>1, <3>2, <3>5, <4>1, <4>2
    <3> QED BY <3>4, <3>5
  <2> QED BY <2>2, <2>3
<1>6. FreshCalls'
  BY <1>1, <1>4 DEF FreshCalls
<1>7. TakenLocks'
  BY SMTT(60), <1>1, <1>5 DEF TakenLocks
<1> QED BY <1>6, <1>7

\* Every step keeps the two facts about requests.
LEMMA CallsStep ==
  ASSUME TypeOK, FreshCalls, TakenLocks, Started, [Next]_vars
  PROVE  FreshCalls' /\ TakenLocks'
<1>1. ASSUME rpc' = rpc, att' = att,
             \A d \in Clients : phase'[d] = "acquire" => phase[d] = "acquire" /\ locks'[d] = locks[d]
      PROVE  FreshCalls' /\ TakenLocks'
  BY <1>1, CallsKept
<1>2. CASE UNCHANGED vars
  BY <1>1, <1>2 DEF vars
<1>3. ASSUME NEW c \in Clients, NEW a \in Attempts, NEW n \in Nodes, NEW x,
             rpc' = [rpc EXCEPT ![c][a][n] = x], rpc[c][a][n] \in {"sent", "granted"},
             phase' = phase, locks' = locks, att' = att
      PROVE  FreshCalls' /\ TakenLocks'
  <2>1. \A d \in Clients, b \in Attempts, m \in Nodes :
          rpc[d][b][m] \in {"none", "taken"} => rpc'[d][b][m] = rpc[d][b][m]
    BY <1>3, OneCall
  <2> QED BY <1>3, <2>1, CallsKept
<1>4. ASSUME NEW c \in Clients, ClientStep(c) PROVE FreshCalls' /\ TakenLocks'
  <2>1. ASSUME NEW n \in Nodes, Consume(c, n) PROVE FreshCalls' /\ TakenLocks'
    BY <2>1, CallsConsume
  <2>2. ASSUME NEW n \in Nodes, Release(c, n) PROVE FreshCalls' /\ TakenLocks'
    <3>1. \A d \in Clients : phase'[d] = "acquire" => phase[d] = "acquire" /\ locks'[d] = locks[d]
      BY <2>2 DEF Release, TypeOK
    <3> QED BY <1>1, <2>2, <3>1 DEF Release
  <2>3. ASSUME AcquireTimeout(c) PROVE FreshCalls' /\ TakenLocks'
    BY <1>1, <2>3 DEF AcquireTimeout
  <2>4. ASSUME Decide(c) PROVE FreshCalls' /\ TakenLocks'
    <3>1. \A d \in Clients : phase'[d] = "acquire" => phase[d] = "acquire" /\ locks'[d] = locks[d]
      BY SMT, <2>4 DEF Decide, TypeOK
    <3> QED BY <1>1, <2>4, <3>1 DEF Decide
  <2>5. ASSUME ReleaseAllReturns(c) PROVE FreshCalls' /\ TakenLocks'
    <3>1. \A d \in Clients : phase'[d] = "acquire" => phase[d] = "acquire" /\ locks'[d] = locks[d]
      BY SMT, <2>5 DEF ReleaseAllReturns, TypeOK
    <3> QED BY <1>1, <2>5, <3>1 DEF ReleaseAllReturns
  <2>6. ASSUME GiveUp(c) PROVE FreshCalls' /\ TakenLocks'
    <3>1. \A d \in Clients : phase'[d] = "acquire" => phase[d] = "acquire" /\ locks'[d] = locks[d]
      BY SMT, <2>6 DEF GiveUp, TypeOK
    <3> QED BY <1>1, <2>6, <3>1 DEF GiveUp
  <2>7. ASSUME NEW a \in Attempts, NEW n \in Nodes, Drain(c, a, n) PROVE FreshCalls' /\ TakenLocks'
    BY <1>3, <2>7 DEF Drain
  <2> QED BY <1>4, <2>1, <2>2, <2>3, <2>4, <2>5, <2>6, <2>7 DEF ClientStep
<1>5. ASSUME NEW c \in Clients, Unlock(c) PROVE FreshCalls' /\ TakenLocks'
  <2>1. \A d \in Clients : phase'[d] = "acquire" => phase[d] = "acquire" /\ locks'[d] = locks[d]
    BY SMT, <1>5 DEF Unlock, TypeOK
  <2> QED BY <1>1, <1>5, <2>1 DEF Unlock
<1>6. ASSUME NEW c \in Clients, NEW off \in SUBSET Nodes, Refresh(c, off) PROVE FreshCalls' /\ TakenLocks'
  BY <1>1, <1>6 DEF Refresh
<1>7. ASSUME NEW n \in Nodes, NodeStep(n) PROVE FreshCalls' /\ TakenLocks'
  BY <1>3, <1>7 DEF NodeStep, Execute
<1>8. CASE FaultStep
  <2>1. ASSUME NEW c \in Clients, NEW a \in Attempts, NEW n \in Nodes, NEW done \in BOOLEAN,
               ExecuteError(c, a, n, done)
        PROVE  FreshCalls' /\ TakenLocks'
    BY <1>3, <2>1 DEF ExecuteError
  <2>2. ASSUME NEW n \in Nodes, NEW e, DropEntries(n, e) PROVE FreshCalls' /\ TakenLocks'
    BY <1>1, <2>2 DEF DropEntries
  <2>3. ASSUME NEW c \in Clients, Crash(c) PROVE FreshCalls' /\ TakenLocks'
    <3>1. \A d \in Clients : phase'[d] = "acquire" => phase[d] = "acquire" /\ locks'[d] = locks[d]
      BY SMT, <2>3 DEF Crash, TypeOK
    <3> QED BY <1>1, <2>3, <3>1 DEF Crash
  <2> QED BY <1>8, <2>1, <2>2, <2>3 DEF FaultStep, Expire, RestartOrForceUnlock
<1> QED BY <1>2, <1>4, <1>5, <1>6, <1>7, <1>8, CallsStart DEF Next

\* LInv holds initially and every step keeps it, given IInv: no node has an
\* entry that is neither in flight nor still to be released, up to lost messages.
THEOREM LeftInvariantHolds == Spec => []LInv
<1>1. Init => LInv
  <2> SUFFICES ASSUME Init PROVE LInv
    OBVIOUS
  <2>1. ASSUME NEW c \in Clients, NEW n \in Nodes PROVE Covered(c, n)
    <3>1. Unconsumed(c, n) = {} /\ Kept(c) = {} /\ lockMap[n][c] = 0
      BY DEF Init, NoEntries, Unconsumed, Kept
    <3>2. Cardinality(Unconsumed(c, n)) = 0
      BY <3>1, FS_EmptySet
    <3> QED BY SMT, <3>1, <3>2 DEF Covered
  <2>2. FreshCalls /\ TakenLocks
    BY DEF Init, FreshCalls, TakenLocks
  <2> QED BY <2>1, <2>2 DEF LInv, AllCovered
<1>2. LInv /\ IInv /\ IInv' /\ [Next]_vars => LInv'
  BY CoveredStep, CallsStep DEF LInv, IInv
<1> QED BY <1>1, <1>2, InvariantHolds, PTL DEF Spec

\* A client that unlocked or gave up, and whose answers are all in and drained,
\* has no entry on any node but those where a message was lost.
THEOREM NothingLeftBehindHolds == Spec => []NothingLeftBehind
<1>1. IInv /\ LInv => NothingLeftBehind
  <2> SUFFICES ASSUME IInv, LInv, NEW c \in Clients, phase[c] \in {"done", "gaveup"},
                      \A a \in Attempts, n \in Nodes : rpc[c][a][n] \in {"none", "denied", "taken"},
                      NEW n \in Nodes, lockMap[n][c] > 0
               PROVE  n \in unsure[c]
    BY DEF NothingLeftBehind
  <2>1. Unconsumed(c, n) = {} /\ Kept(c) = {}
    BY DEF Unconsumed, Kept
  <2>2. Cardinality(Unconsumed(c, n)) = 0
    BY <2>1, FS_EmptySet
  <2>3. lockMap[n][c] \in Nat
    BY SMT DEF IInv, TypeOK
  <2>4. Covered(c, n)
    BY DEF LInv, AllCovered
  <2> HIDE DEF Unconsumed, Kept
  <2> QED BY SMT, <2>1, <2>2, <2>3, <2>4 DEF Covered
<1> QED BY <1>1, InvariantHolds, LeftInvariantHolds, PTL
=============================================================================
