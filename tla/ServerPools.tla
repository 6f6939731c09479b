---------------------------- MODULE ServerPools -----------------------------
(* One object in a deployment of several server pools (erasure-server-pool.go). *)
(* A request first asks every pool for the object, and then works in the pool  *)
(* that has it; an object that no pool has is put where there is space.  The   *)
(* pools are asked in parallel, each under its own lock; reads, and deletes of *)
(* a list, hold one lock of the first pool for all their steps.                *)
EXTENDS Integers, FiniteSets

CONSTANTS NPools,
          PoolRequests,
          PoolReaders,     \* those of them that only read
          FirstFree,       \* units of space a pool may have at first
          KeepFree         \* units that must be left: the fill fraction

ASSUME ServerPoolsAssumption ==
  /\ NPools \in Nat \ {0, 1} /\ IsFiniteSet(PoolRequests)
  /\ PoolReaders \subseteq PoolRequests
  /\ FirstFree \subseteq Nat /\ KeepFree \in Nat

Pools == 1..NPools
Absent == 0
MarkerEntry == -1
Size == 2              \* of an object with its parity: "size*2"
UintMax == 2 ^ 16      \* 2^64 in the code
NoRequest == [kind |-> "none", pc |-> "idle", asked |-> {}, found |-> {}, at |-> 0,
         body |-> 0, may |-> {}, old |-> FALSE]

VARIABLES deployment, \* the pools share their lock servers; a delete leaves a marker
          poolObject,   \* what each pool has: Absent, Marker or a content
          free,     \* space left in each pool
          request,
          written,  \* contents so far
          raced     \* history: a pool was written on the strength of an outdated lookup

poolVars == <<deployment, poolObject, free, request, written, raced>>

Holders == {p \in Pools : poolObject[p] # Absent}
Readable == {p \in Pools : poolObject[p] \notin {Absent, MarkerEntry}}
FirstPool(S) == {p \in S : \A q \in S : p <= q}

\* What a read finds that asks all pools at one moment: a delete marker is
\* errFileNotFound like no object at all, and the next pool is looked at.
ObjectSeen == IF FirstPool(Readable) = {} THEN Absent ELSE poolObject[CHOOSE p \in FirstPool(Readable) : TRUE]

\* Type invariant; the space of a pool is never given back twice.
PoolTypeOK ==
  /\ poolObject \in [Pools -> MarkerEntry..written]
  /\ free \in [Pools -> Nat] /\ \A p \in Pools : \E m \in FirstFree : free[p] <= m + Size
  /\ \A r \in PoolRequests :
       /\ request[r].kind \in {"none", "put", "get", "delete", "deletes"}
       /\ request[r].asked \subseteq Pools /\ request[r].found \subseteq request[r].asked
       /\ request[r].at \in 0..NPools
  /\ written \in Nat /\ raced \in BOOLEAN

PoolInit ==
  /\ written = 1 /\ raced = FALSE
  /\ \E p \in Pools : poolObject \in {[q \in Pools |-> Absent], [q \in Pools |-> IF q = p THEN 1 ELSE Absent]}
  /\ free \in [Pools -> FirstFree]
  /\ deployment \in [sharedLockers : BOOLEAN, versioned : BOOLEAN]
  /\ request = [r \in PoolRequests |-> NoRequest]

-----------------------------------------------------------------------------
(* Locks.                                                                     *)

LockDomain(p) == IF deployment.sharedLockers THEN 1 ELSE p

\* GetObjectInfo and DeleteObjects of the pools hold the lock of pool 1.
HoldsLock(r, mode) ==
  request[r].pc # "idle" /\ request[r].pc # "done" /\
  CASE mode = "read" -> request[r].kind = "get" [] mode = "write" -> request[r].kind = "deletes"

CanRead(r, p) == LockDomain(p) = 1 => \A s \in PoolRequests \ {r} : ~HoldsLock(s, "write")

\* Mutant of CanWrite: writers pass readers.
CanWriteAmongReaders(r, p) == CanRead(r, p)

CanWrite(r, p) ==
  LockDomain(p) = 1 => \A s \in PoolRequests \ {r} : ~HoldsLock(s, "write") /\ ~HoldsLock(s, "read")

-----------------------------------------------------------------------------
BeginRequest(r, kind) ==
  /\ request[r].pc = "idle"
  /\ r \in PoolReaders => kind = "get"
  /\ kind = "get" => CanRead(r, 1)
  /\ kind = "deletes" => CanWrite(r, 1)
  /\ written' = IF kind = "put" THEN written + 1 ELSE written
  /\ request' = [request EXCEPT ![r] = [NoRequest EXCEPT !.kind = kind, !.pc = "ask",
                   !.body = IF kind = "put" THEN written + 1 ELSE 0, !.may = {ObjectSeen}]]
  /\ UNCHANGED <<deployment, poolObject, free, raced>>

\* The pools whose answer ends the loop over the pools: for a read those that
\* return content; for a write those that return a delete marker as well
\* ("check objInfo to confirm").
Answering(kind) == IF kind = "get" THEN Readable ELSE Holders

\* A read keeps what the first pool that answers with content returns.
Nearest(r, p) ==
  request[r].kind = "get" /\ p \in Readable /\ \A q \in request[r].found : p < q

\* pool.GetObjectInfo, in parallel for all pools: the request that holds the
\* lock itself takes no other.
AskPool(r, p) ==
  LET q == request[r]
  IN /\ q.pc = "ask" /\ p \notin q.asked
     /\ q.kind \in {"put", "delete"} => CanRead(r, p)
     /\ request' = [request EXCEPT ![r] = [q EXCEPT
                      !.asked = q.asked \cup {p},
                      !.found = IF p \in Answering(q.kind) THEN q.found \cup {p} ELSE q.found,
                      !.body = IF Nearest(r, p) THEN poolObject[p] ELSE q.body]]
     /\ UNCHANGED <<deployment, poolObject, free, written, raced>>

\* getServerPoolsAvailableSpace: "available -= -uint64(size)".
SpaceLeft(p, size) ==
  LET available == IF free[p] < size THEN 0 ELSE free[p]
      after == (available - (UintMax - size)) % UintMax
  IN IF available = 0 \/ after <= KeepFree THEN 0 ELSE after

\* getPoolIdx, getPoolIdxExisting
PoolChoices(found) == IF found # {} THEN FirstPool(found) ELSE {p \in Pools : SpaceLeft(p, Size) > 0}

ChoosePool(r) ==
  /\ request[r].pc = "ask" /\ request[r].asked = Pools /\ request[r].kind # "get"
  /\ IF PoolChoices(request[r].found) = {} \/ (request[r].found = {} /\ request[r].kind # "put")
     THEN request' = [request EXCEPT ![r] = [NoRequest EXCEPT !.pc = "done"]]
     ELSE \E p \in PoolChoices(request[r].found) :
            request' = [request EXCEPT ![r] = [@ EXCEPT !.pc = "work", !.at = p]]
  /\ UNCHANGED <<deployment, poolObject, free, written, raced>>

\* Every request in flight learns what the object now is, and that a lookup
\* may be outdated.
LookupsOutdated(req, r, view) ==
  [s \in PoolRequests |-> IF s = r THEN [NoRequest EXCEPT !.pc = "done"]
                      ELSE [req[s] EXCEPT !.may = IF req[s].pc = "ask" THEN @ \cup {view} ELSE @,
                                          !.old = @ \/ req[s].pc \in {"ask", "work"}]]

AfterDelete(p) == IF deployment.versioned THEN [poolObject EXCEPT ![p] = MarkerEntry] ELSE [poolObject EXCEPT ![p] = Absent]

SpaceChange(before, after) ==
  CASE before = Absent /\ after # Absent -> -Size [] before # Absent /\ after = Absent -> Size [] OTHER -> 0

\* The pool's own PutObject, DeleteObject or DeleteObjects, under its lock
\* unless the request holds one.
WorkInPool(r) ==
  LET p == request[r].at
      put == request[r].kind = "put"
  IN /\ request[r].pc = "work"
     /\ request[r].kind \in {"put", "delete"} => CanWrite(r, p)
     /\ poolObject' = CASE put -> [poolObject EXCEPT ![p] = request[r].body]
                       [] ~put /\ poolObject[p] # Absent -> AfterDelete(p)
                       [] OTHER -> poolObject
     /\ free' = [free EXCEPT ![p] = @ + SpaceChange(poolObject[p], poolObject'[p])]
     /\ raced' = (raced \/ request[r].old)
     /\ request' = LookupsOutdated(request, r, ObjectSeen')
     /\ UNCHANGED <<deployment, written>>

\* PutObject of the pool fails: no write quorum, or no space after all.
PoolPutFails(r) ==
  /\ request[r].pc = "work" /\ request[r].kind = "put"
  /\ request' = [request EXCEPT ![r] = [NoRequest EXCEPT !.pc = "done"]]
  /\ UNCHANGED <<deployment, poolObject, free, written, raced>>

\* The read returns what it kept, or ObjectNotFound.
AnswerGet(r) ==
  /\ request[r].kind = "get" /\ request[r].pc = "ask" /\ request[r].asked = Pools
  /\ request' = [request EXCEPT ![r] = [NoRequest EXCEPT !.pc = "done"]]
  /\ UNCHANGED <<deployment, poolObject, free, written, raced>>

PoolNext ==
  \E r \in PoolRequests :
    \/ \E k \in {"put", "get", "delete", "deletes"} : BeginRequest(r, k)
    \/ \E p \in Pools : AskPool(r, p)
    \/ ChoosePool(r) \/ WorkInPool(r) \/ PoolPutFails(r) \/ AnswerGet(r)

PoolSpec == PoolInit /\ [][PoolNext]_poolVars

-----------------------------------------------------------------------------
(* Properties.                                                                *)

\* The object is in one pool only, unless a request worked on the strength of
\* a lookup that another request had outdated.
OnePool == (\A p, q \in Holders : p = q) \/ raced

\* A read returns what the object was at some moment while it was read (its
\* content, or not found when it was deleted), even if it is in two pools, as
\* long as the lock of the read covers all pools.
ReadsAMoment ==
  \A r \in PoolRequests : request[r].kind = "get" /\ request[r].asked = Pools
                        => request[r].body \in request[r].may \/ (raced /\ ~deployment.sharedLockers)

\* An object that was deleted is not found: its marker does not let the read
\* go on to older content in another pool, unless a write followed an outdated
\* lookup.
DeleteUncovers ==
  [][\A r \in PoolRequests :
       request[r].pc = "work" /\ request[r].kind \in {"delete", "deletes"} /\ request'[r].pc = "done"
         => ObjectSeen' = Absent \/ raced']_poolVars

\* A new object is sent only to a pool that can hold it, and an object that
\* exists to the pool that has it, unless the lookup was outdated.
SentToRoom ==
  \A r \in PoolRequests : request[r].pc = "work" /\ request[r].kind = "put" /\ ~request[r].old
    => poolObject[request[r].at] # Absent \/ free[request[r].at] >= Size

\* Several pools look like one as long as no request writes on the strength of
\* a lookup that another has outdated: an object, its delete marker included,
\* is in one of them, a read returns what the object was while it was read,
\* uploads go where there is room and a delete does not uncover older content.
\* Under lock servers that the pools share, the reads keep this even when such
\* a write has left the object in two pools.
PoolsAsOne == [](OnePool /\ ReadsAMoment /\ SentToRoom) /\ DeleteUncovers

\* "Make sure we can fit "size" on to the disk without getting above the
\* diskFillFraction": what must be left is left after a new object.
FillFractionKept ==
  \A r \in PoolRequests : request[r].pc = "work" /\ request[r].kind = "put" /\ ~request[r].old
    => poolObject[request[r].at] # Absent \/ free[request[r].at] - Size > KeepFree

\* "By using the existing namespace for lookup validation OtterIO ensures
\* conflicting objects are not created."
NoConflict == \A p, q \in Holders : p = q
=============================================================================
