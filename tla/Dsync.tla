------------------------------- MODULE Dsync --------------------------------
(* The distributed read/write lock: pkg/dsync/drwmutex.go on the client side, *)
(* one localLocker (cmd/local-locker.go) per node on the other, reached       *)
(* through the lock REST API.  One resource; every client is one DRWMutex     *)
(* with its own UID that is locked once, possibly after several attempts.     *)
(* Requests, replies and releases interleave freely; replies get lost, nodes  *)
(* restart with an empty lock map, entries expire, clients die.               *)
EXTENDS Integers, FiniteSets

CONSTANTS Clients, Readers, Nodes,
          MaxAttempts,  \* bound: calls of lock() per lockBlocking
          OneShot,      \* bound: clients whose timeout allows a single attempt
          MaxFaults     \* bound: lost messages, restarts, expiries and crashes

ASSUME DsyncAssumption ==
  /\ IsFiniteSet(Nodes) /\ Nodes # {}
  /\ Readers \subseteq Clients
  /\ OneShot \subseteq Clients
  /\ MaxAttempts \in Nat \ {0}
  /\ MaxFaults \in Nat

Attempts == 1..MaxAttempts
N == Cardinality(Nodes)

VARIABLES lockMap,   \* node -> UID -> number of entries of the resource
          phase,     \* where lockBlocking / Unlock of each client is
          att,       \* the current call of lock()
          rpc,       \* its request to each node, and those of earlier calls
          locks,     \* the array locks (writeLocks / readersLocks[0] later on)
          failed,    \* locksFailed, zero outside lock()
          rel,       \* releases of the current releaseAll not yet answered
          cancelled, \* lockLossCallback was called
          faults,
          lost,      \* history: nodes that dropped an entry nobody released
          unsure     \* history: nodes where a grant's reply or a release got lost

vars == <<lockMap, phase, att, rpc, locks, failed, rel, cancelled, faults, lost, unsure>>

Phases == {"idle", "acquire", "abandon", "retry", "held", "unlocking", "done", "gaveup", "crashed"}

\* "sent": not executed yet; "granted"/"denied": the goroutine has the answer
\* and it is in, or on its way into, ch; "taken": consumed by lock() or drained.
RPCs == {"none", "sent", "granted", "denied", "taken"}

\* Type invariant of the lock map of every node and the DRWMutex of every client.
TypeOK ==
  /\ lockMap \in [Nodes -> [Clients -> Nat]]
  /\ phase \in [Clients -> Phases]
  /\ att \in [Clients -> 0..MaxAttempts]
  /\ rpc \in [Clients -> [Attempts -> [Nodes -> RPCs]]]
  /\ locks \in [Clients -> SUBSET Nodes]
  /\ failed \in [Clients -> Nat]
  /\ rel \in [Clients -> SUBSET Nodes]
  /\ cancelled \in [Clients -> BOOLEAN]
  /\ faults \in Nat
  /\ lost \in [Clients -> SUBSET Nodes]
  /\ unsure \in [Clients -> SUBSET Nodes]

NoEntries == [c \in Clients |-> 0]

Init ==
  /\ lockMap = [n \in Nodes |-> NoEntries]
  /\ phase = [c \in Clients |-> "idle"]
  /\ att = [c \in Clients |-> 0]
  /\ rpc = [c \in Clients |-> [a \in Attempts |-> [n \in Nodes |-> "none"]]]
  /\ locks = [c \in Clients |-> {}]
  /\ failed = [c \in Clients |-> 0]
  /\ rel = [c \in Clients |-> {}]
  /\ cancelled = [c \in Clients |-> FALSE]
  /\ faults = 0
  /\ lost = [c \in Clients |-> {}]
  /\ unsure = [c \in Clients |-> {}]

-----------------------------------------------------------------------------
(* Quorums: lockBlocking and checkFailedUnlocks. *)

\* Mutant of Quorum: no special case when the tolerance is exactly half.
QuorumNoTieBreak(c) == N - (N \div 2)

Quorum(c) ==
  LET tolerance == N \div 2
      quorum == N - tolerance
  IN IF c \notin Readers /\ quorum = tolerance THEN quorum + 1 ELSE quorum

Tolerance(c) == N - Quorum(c)

\* Mutant of FailedUnlocks: every node has to confirm.
FailedUnlocksStrict(left) == left > 0

\* checkFailedUnlocks with the tolerance Unlock and RUnlock pass, n/2.
FailedUnlocks(left) ==
  LET tolerance == N \div 2
  IN IF N - tolerance = tolerance THEN left >= tolerance ELSE left > tolerance

-----------------------------------------------------------------------------
(* localLocker restricted to one resource; e is the node's map entry. *)

\* isWriteLock: a single entry, and it is a writer's.
IsWriteLock(e) ==
  \E w \in Clients \ Readers : e[w] = 1 /\ \A d \in Clients \ {w} : e[d] = 0

\* RLock and Lock.
CanGrant(e, c) == IF c \in Readers THEN ~IsWriteLock(e) ELSE \A d \in Clients : e[d] = 0

Granted(e, c) == [e EXCEPT ![c] = @ + 1]

\* RUnlock and Unlock: answered without an error?
CanRelease(e, c) == IF c \in Readers THEN ~IsWriteLock(e) ELSE IsWriteLock(e)

\* Mutants of Released: the map entry is deleted whatever its UID; an entry is
\* counted off without being found.
ReleasedAll(e, c) == NoEntries
\* removeEntry takes one entry with the caller's UID, if there is one.
Released(e, c) == [e EXCEPT ![c] = IF @ > 0 THEN @ - 1 ELSE 0]

-----------------------------------------------------------------------------
(* lock(): one attempt. *)

Fault == faults < MaxFaults /\ faults' = faults + 1

\* lockBlocking calls lock(): the array is cleared and the request broadcast.
StartAttempt(c) ==
  /\ phase[c] \in {"idle", "retry"}
  /\ att[c] < (IF c \in OneShot THEN 1 ELSE MaxAttempts)
  /\ att' = [att EXCEPT ![c] = @ + 1]
  /\ phase' = [phase EXCEPT ![c] = "acquire"]
  /\ rpc' = [rpc EXCEPT ![c][att[c] + 1] = [n \in Nodes |-> "sent"]]
  /\ locks' = [locks EXCEPT ![c] = {}]
  /\ UNCHANGED <<lockMap, failed, rel, cancelled, faults, lost, unsure>>

\* The context of lockBlocking ends: GetLock returns false.
GiveUp(c) ==
  /\ phase[c] = "retry"
  /\ phase' = [phase EXCEPT ![c] = "gaveup"]
  /\ locks' = [locks EXCEPT ![c] = {}]
  /\ UNCHANGED <<lockMap, att, rpc, failed, rel, cancelled, faults, lost, unsure>>

\* The node executes Lock or RLock.  The request is never cancelled, so this
\* may happen long after lock() stopped waiting for it.
Execute(c, a, n) ==
  /\ rpc[c][a][n] = "sent"
  /\ LET ok == CanGrant(lockMap[n], c)
     IN /\ rpc' = [rpc EXCEPT ![c][a][n] = IF ok THEN "granted" ELSE "denied"]
        /\ lockMap' = IF ok THEN [lockMap EXCEPT ![n] = Granted(@, c)] ELSE lockMap
  /\ UNCHANGED <<phase, att, locks, failed, rel, cancelled, faults, lost, unsure>>

\* The call returns an error: the node was not reached (a nil locker included),
\* or it granted the lock and the reply was lost.
ExecuteError(c, a, n, done) ==
  /\ rpc[c][a][n] = "sent"
  /\ Fault
  /\ done => CanGrant(lockMap[n], c)
  /\ rpc' = [rpc EXCEPT ![c][a][n] = "denied"]
  /\ lockMap' = IF done THEN [lockMap EXCEPT ![n] = Granted(@, c)] ELSE lockMap
  /\ unsure' = IF done THEN [unsure EXCEPT ![c] = @ \cup {n}] ELSE unsure
  /\ UNCHANGED <<phase, att, locks, failed, rel, cancelled, lost>>

\* Has the loop of lock() seen enough?
Waiting(c) == Cardinality(locks[c]) + failed[c] < N /\ failed[c] <= Tolerance(c)

\* case grant := <-ch
Consume(c, n) ==
  /\ phase[c] = "acquire"
  /\ Waiting(c)
  /\ rpc[c][att[c]][n] \in {"granted", "denied"}
  /\ rpc' = [rpc EXCEPT ![c][att[c]][n] = "taken"]
  /\ IF rpc[c][att[c]][n] = "granted"
       THEN locks' = [locks EXCEPT ![c] = @ \cup {n}] /\ UNCHANGED failed
       ELSE failed' = [failed EXCEPT ![c] = @ + 1] /\ UNCHANGED locks
  /\ UNCHANGED <<lockMap, phase, att, rel, cancelled, faults, lost, unsure>>

\* case <-ctx.Done(): each turn counts one answer as failed.
AcquireTimeout(c) ==
  /\ phase[c] = "acquire"
  /\ Waiting(c)
  /\ failed' = [failed EXCEPT ![c] = @ + 1]
  /\ UNCHANGED <<lockMap, phase, att, rpc, locks, rel, cancelled, faults, lost, unsure>>

\* quorumLocked, or releaseAll of what was granted so far.
Decide(c) ==
  /\ phase[c] = "acquire"
  /\ ~Waiting(c)
  /\ IF Cardinality(locks[c]) >= Quorum(c) /\ failed[c] <= Tolerance(c)
       THEN phase' = [phase EXCEPT ![c] = "held"] /\ UNCHANGED rel
       ELSE /\ phase' = [phase EXCEPT ![c] = "abandon"]
            /\ rel' = [rel EXCEPT ![c] = locks[c]]
  /\ failed' = [failed EXCEPT ![c] = 0]
  /\ UNCHANGED <<lockMap, att, rpc, locks, cancelled, faults, lost, unsure>>

-----------------------------------------------------------------------------
(* Releases. *)

\* What sendRelease does at node n: the node executes it and the answer comes
\* back (TRUE: no error); executed, answer lost; not executed.
SendRelease(c, n, answered) ==
  \/ /\ answered = CanRelease(lockMap[n], c)
     /\ lockMap' = IF answered THEN [lockMap EXCEPT ![n] = Released(@, c)] ELSE lockMap
     /\ UNCHANGED <<faults, unsure>>
  \/ /\ Fault
     /\ ~answered
     /\ CanRelease(lockMap[n], c)
     /\ lockMap' = [lockMap EXCEPT ![n] = Released(@, c)]
     /\ UNCHANGED unsure
  \/ /\ Fault
     /\ ~answered
     /\ unsure' = [unsure EXCEPT ![c] = @ \cup {n}]
     /\ UNCHANGED lockMap

\* A goroutine of releaseAll, in an abandoned attempt or in Unlock.
Release(c, n) ==
  /\ phase[c] \in {"abandon", "unlocking"}
  /\ n \in rel[c]
  /\ \E ok \in BOOLEAN :
       /\ SendRelease(c, n, ok)
       /\ locks' = IF ok THEN [locks EXCEPT ![c] = @ \ {n}] ELSE locks
  /\ rel' = [rel EXCEPT ![c] = @ \ {n}]
  /\ UNCHANGED <<phase, att, rpc, failed, cancelled, lost>>

\* releaseAll returns: an abandoned attempt only logs a failure, Unlock and
\* RUnlock call it again until enough nodes are released.
ReleaseAllReturns(c) ==
  /\ rel[c] = {}
  /\ \/ /\ phase[c] = "abandon"
        /\ phase' = [phase EXCEPT ![c] = "retry"]
        /\ UNCHANGED rel
     \/ /\ phase[c] = "unlocking"
        /\ IF FailedUnlocks(Cardinality(locks[c]))
             THEN rel' = [rel EXCEPT ![c] = locks[c]] /\ UNCHANGED phase
             ELSE phase' = [phase EXCEPT ![c] = "done"] /\ UNCHANGED rel
  /\ UNCHANGED <<lockMap, att, rpc, locks, failed, cancelled, faults, lost, unsure>>

\* Mutant of Drain: grants nobody consumed are dropped.
DrainForgets(c, a, n) ==
  /\ a < att[c] \/ phase[c] \notin {"acquire", "abandon"}
  /\ phase[c] # "crashed"
  /\ rpc[c][a][n] = "granted"
  /\ rpc' = [rpc EXCEPT ![c][a][n] = "taken"]
  /\ UNCHANGED <<lockMap, phase, att, locks, failed, rel, cancelled, faults, lost, unsure>>

\* The goroutine lock() leaves behind: once every request of the attempt is
\* answered it releases the grants lock() did not consume.
Drain(c, a, n) ==
  /\ a < att[c] \/ phase[c] \notin {"acquire", "abandon"}
  /\ phase[c] # "crashed"
  /\ \A m \in Nodes : rpc[c][a][m] \in {"granted", "denied", "taken"}
  /\ rpc[c][a][n] = "granted"
  /\ rpc' = [rpc EXCEPT ![c][a][n] = "taken"]
  /\ \E ok \in BOOLEAN : SendRelease(c, n, ok)
  /\ UNCHANGED <<phase, att, locks, failed, rel, cancelled, lost>>

\* Unlock or RUnlock: the refresh stops, a copy of the array is released.
Unlock(c) ==
  /\ phase[c] = "held"
  /\ phase' = [phase EXCEPT ![c] = "unlocking"]
  /\ rel' = [rel EXCEPT ![c] = locks[c]]
  /\ UNCHANGED <<lockMap, att, rpc, locks, failed, cancelled, faults, lost, unsure>>

-----------------------------------------------------------------------------
(* Refresh, expiry and failures. *)

EntriesOf(c) == {n \in Nodes : lockMap[n][c] > 0}

\* Mutant of StillRefreshed: nodes that did not answer count as lost.
StillRefreshedStrict(c, succeeded, notFound) == succeeded >= Quorum(c)

\* The verdict of refresh() on the numbers of answers.
StillRefreshed(c, succeeded, notFound) ==
  succeeded >= Quorum(c) \/ notFound < Quorum(c)

\* A round of the refresh goroutine; the nodes in off answer with an error or
\* not at all.  A round that is not lost changes time stamps only, and a lost
\* one ends the goroutine.
Refresh(c, off) ==
  /\ phase[c] = "held"
  /\ ~cancelled[c]
  /\ cancelled' = [cancelled EXCEPT ![c] =
       ~StillRefreshed(c, Cardinality(EntriesOf(c) \ off),
                          Cardinality((Nodes \ EntriesOf(c)) \ off))]
  /\ UNCHANGED <<lockMap, phase, att, rpc, locks, failed, rel, faults, lost, unsure>>

\* Node n is left with the entries e of the ones it had.
DropEntries(n, e) ==
  /\ e # lockMap[n]
  /\ \A c \in Clients : e[c] <= lockMap[n][c]
  /\ Fault
  /\ lockMap' = [lockMap EXCEPT ![n] = e]
  /\ lost' = [c \in Clients |-> IF e[c] < lockMap[n][c] THEN lost[c] \cup {n} ELSE lost[c]]
  /\ UNCHANGED <<phase, att, rpc, locks, failed, rel, cancelled, unsure>>

\* expireOldLocks: entries whose refresh did not reach the node for
\* lockValidityDuration go away.
Expire(n, e) == DropEntries(n, e)

\* The lock map is in memory only; ForceUnlock deletes the resource from it.
RestartOrForceUnlock(n) == DropEntries(n, NoEntries)

\* The process of the client dies, its goroutines with it.
Crash(c) ==
  /\ phase[c] \notin {"idle", "done", "gaveup", "crashed"}
  /\ Fault
  /\ phase' = [phase EXCEPT ![c] = "crashed"]
  /\ locks' = [locks EXCEPT ![c] = {}]
  /\ failed' = [failed EXCEPT ![c] = 0]
  /\ rel' = [rel EXCEPT ![c] = {}]
  /\ UNCHANGED <<lockMap, att, rpc, cancelled, lost, unsure>>

-----------------------------------------------------------------------------
\* What the goroutines of client c do by themselves.
ClientStep(c) ==
  \/ \E n \in Nodes : Consume(c, n) \/ Release(c, n)
  \/ AcquireTimeout(c)
  \/ Decide(c)
  \/ ReleaseAllReturns(c)
  \/ GiveUp(c)
  \/ \E a \in Attempts, n \in Nodes : Drain(c, a, n)

NodeStep(n) == \E c \in Clients, a \in Attempts : Execute(c, a, n)

FaultStep ==
  \/ \E c \in Clients, a \in Attempts, n \in Nodes, done \in BOOLEAN : ExecuteError(c, a, n, done)
  \/ \E n \in Nodes, e \in [Clients -> 0..MaxAttempts] : Expire(n, e)
  \/ \E n \in Nodes : RestartOrForceUnlock(n)
  \/ \E c \in Clients : Crash(c)

Next ==
  \/ \E c \in Clients : StartAttempt(c) \/ ClientStep(c) \/ Unlock(c)
  \/ \E c \in Clients, off \in SUBSET Nodes : Refresh(c, off)
  \/ \E n \in Nodes : NodeStep(n)
  \/ FaultStep

Spec == Init /\ [][Next]_vars

\* Goroutines run, nodes answer, every release call returns.
FairSpec ==
  /\ Spec
  /\ \A c \in Clients : WF_vars(ClientStep(c))
  /\ \A n \in Nodes : WF_vars(NodeStep(n))

-----------------------------------------------------------------------------
(* Properties *)

Conflict(c, d) == c # d /\ (c \notin Readers \/ d \notin Readers)

\* The map of a node never mixes a writer with anybody else, whatever order
\* requests, late requests, releases and expiries arrive in.
NodeConsistent ==
  \A n \in Nodes, w \in Clients \ Readers :
    lockMap[n][w] > 0 => lockMap[n][w] = 1 /\ \A d \in Clients \ {w} : lockMap[n][d] = 0

\* Two owners that exclude each other were granted the lock by a common node,
\* and every such node has since dropped the entry of one of them (it
\* restarted, expired it or was told to forget it): without such a loss there
\* is one writer, or only readers.
Exclusion ==
  \A c, d \in Clients :
    Conflict(c, d) /\ phase[c] = "held" /\ phase[d] = "held"
      => /\ locks[c] \cap locks[d] # {}
         /\ locks[c] \cap locks[d] \subseteq lost[c] \cup lost[d]

\* Every node in the lock array of an owner still has its entry or lost it: a
\* late answer to an earlier attempt that is drained never takes it away.
OwnerKeepsEntries ==
  \A c \in Clients : phase[c] = "held" => \A n \in locks[c] : lockMap[n][c] > 0 \/ n \in lost[c]

\* When a client has finished and its requests are answered and drained, no
\* node keeps an entry of it, except where a message was lost: grants that come
\* after the quorum decision are given back.
NothingLeftBehind ==
  \A c \in Clients :
    /\ phase[c] \in {"done", "gaveup"}
    /\ \A a \in Attempts, n \in Nodes : rpc[c][a][n] \in {"none", "denied", "taken"}
    => \A n \in Nodes : lockMap[n][c] > 0 => n \in unsure[c]

\* Unlock and RUnlock return.
UnlockReturns == \A c \in Clients : phase[c] = "unlocking" ~> phase[c] \in {"done", "crashed"}

\* Unlock and RUnlock may be held up only where half of the nodes refuse the
\* release: nodes without the writer's entry, or with a writer in the place of the
\* reader.
Refusing(c) == {n \in locks[c] : ~CanRelease(lockMap[n], c)}
UnlockOver(c) == phase[c] \in {"done", "crashed"} \/ 2 * Cardinality(Refusing(c)) >= N

\* Where nodes lost entries and two owners exclude each other, the next refresh
\* round that every node answers takes the lock from one of them.  Odd numbers of
\* nodes only: on an even one half of the nodes may know each owner.
SplitNoticed ==
  \A c, d \in Clients :
    Conflict(c, d) /\ phase[c] = "held" /\ phase[d] = "held"
      => \E e \in {c, d} : ~StillRefreshed(e, Cardinality(EntriesOf(e)), Cardinality(Nodes \ EntriesOf(e)))

\* A refresh never takes the lock away from an owner that a quorum of nodes
\* still knows, whichever nodes fail to answer.
NoFalseLoss ==
  [][\A c \in Clients : cancelled'[c] /\ ~cancelled[c] => Cardinality(EntriesOf(c)) <= Tolerance(c)]_vars
=============================================================================
