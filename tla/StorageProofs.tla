--------------------------- MODULE StorageProofs ----------------------------
(* TLAPS proofs about where an object is kept: the server pools that hold it  *)
(* (ServerPools), and its versions and their data on a drive (XLMetaV2).      *)
EXTENDS ServerPools, XLMetaV2, TLAPS

\* Zenon is the default prover here; the steps that need arithmetic or the
\* theory of functions and records cite SMT.
USE Zenon

-----------------------------------------------------------------------------
(* Server pools.  A request that saw no write since its lookup began knows    *)
(* which pools have the object; writes that came in between are marked.       *)

RequestKinds == {"put", "get", "delete", "deletes"}
PoolRequest == [kind : RequestKinds \cup {"none"}, pc : {"idle", "ask", "work", "done"}, asked : SUBSET Pools,
                found : SUBSET Pools, at : Int, body : Int, may : SUBSET Int, old : BOOLEAN]
PoolRest ==
  /\ poolObject \in [Pools -> Int] /\ free \in [Pools -> Int] /\ written \in Int /\ raced \in BOOLEAN
  /\ deployment \in [sharedLockers : BOOLEAN, versioned : BOOLEAN]
  /\ request \in [PoolRequests -> PoolRequest]

\* A request that has seen no write since it began knows which of the pools it
\* asked have what it looks for, and what it found decides where it works.
LookupOK(q) ==
  /\ q.found \subseteq q.asked /\ (q.pc = "ask" => q.kind # "none")
  /\ q.pc \in {"ask", "work"} /\ ~q.old => q.found = q.asked \cap Answering(q.kind)
WorkOK(q) ==
  q.pc = "work" =>
    /\ q.kind \in {"put", "delete", "deletes"} /\ q.asked = Pools /\ q.at \in Pools
    /\ q.found # {} => q.at \in q.found
    /\ q.found = {} /\ ~q.old => free[q.at] >= Size

\* What a read has gathered.  Under one lock for all pools nothing changes while
\* it reads; otherwise what it took was the object when it was asked for, or the
\* object was missing for a while, or is in a pool that is still to be asked.
GetOK(q) ==
  q.kind = "get" =>
    /\ q.pc = "ask" /\ ObjectSeen \in q.may
    /\ q.found = {} => q.body = Absent
    /\ deployment.sharedLockers =>
         ~q.old /\ (q.found # {} => \E p \in FirstPool(q.found) : q.body = poolObject[p])
    /\ ~raced => /\ q.found # {} => q.body \in q.may
                 /\ q.found = {} => Absent \in q.may \/ Readable \ q.asked # {}

\* The lock of the first pool that GetObjectInfo and DeleteObjects hold.
Reads(q) == q.pc # "idle" /\ q.pc # "done" /\ q.kind = "get"
Clears(q) == q.pc # "idle" /\ q.pc # "done" /\ q.kind = "deletes"
Excluded == \A r, s \in PoolRequests : ~(Reads(request[r]) /\ Clears(request[s]))

PoolIInv ==
  /\ PoolRest /\ OnePool /\ Excluded
  /\ \A r \in PoolRequests : LookupOK(request[r]) /\ WorkOK(request[r]) /\ GetOK(request[r])

\* What the assumptions say about the constants, and a request at rest.
LEMMA PoolFacts == Pools \subseteq Int /\ Size \in Int /\ Absent \in Int /\ MarkerEntry \in Int /\ NoRequest \in PoolRequest
                   /\ NoRequest.kind = "none" /\ NoRequest.pc = "idle" /\ NoRequest.asked = {} /\ NoRequest.found = {}
                   /\ ~NoRequest.old
<1>1. Pools \subseteq Int /\ Size \in Int /\ Absent \in Int /\ MarkerEntry \in Int /\ 0 \in Int
  BY SMT, ServerPoolsAssumption DEF Pools, Size, Absent, MarkerEntry
<1>2. /\ NoRequest \in PoolRequest /\ NoRequest.kind = "none" /\ NoRequest.pc = "idle" /\ NoRequest.asked = {}
      /\ NoRequest.found = {} /\ ~NoRequest.old
  BY <1>1 DEF NoRequest, PoolRequest
<1> QED BY <1>1, <1>2

\* A set of pools has at most one first pool.
LEMMA FirstIsOne == ASSUME NEW S \in SUBSET Pools, NEW p \in FirstPool(S), NEW q \in FirstPool(S) PROVE p = q
BY SMT, PoolFacts DEF FirstPool

\* What the object is taken to be when the pools hold o.
With(o) == {p \in Pools : o[p] \notin {Absent, MarkerEntry}}
Seen(o) == IF FirstPool(With(o)) = {} THEN Absent ELSE o[CHOOSE p \in FirstPool(With(o)) : TRUE]

\* The object is what the first pool with content holds.
LEMMA SeenFirst == ASSUME NEW o, NEW p \in FirstPool(With(o)) PROVE Seen(o) = o[p]
<1>1. With(o) \in SUBSET Pools
  BY DEF With
<1>2. PICK q : q = CHOOSE x \in FirstPool(With(o)) : TRUE
  OBVIOUS
<1>3. q \in FirstPool(With(o))
  BY <1>2
<1>4. q = p
  BY <1>1, <1>3, FirstIsOne
<1> QED BY <1>2, <1>4 DEF Seen

\* The object is what the only pool with content holds.
LEMMA SeenOnly == ASSUME NEW o, NEW p \in With(o), \A q \in With(o) : q = p PROVE Seen(o) = o[p]
<1>1. p \in Int /\ p <= p
  BY SMT, PoolFacts DEF With
<1>2. p \in FirstPool(With(o))
  BY <1>1 DEF FirstPool
<1> QED BY <1>2, SeenFirst

\* The object is not found when no pool has content.
LEMMA SeenNone == ASSUME NEW o, With(o) = {} PROVE Seen(o) = Absent
BY DEF Seen, FirstPool

\* What the object is, is a number.
LEMMA SeenType == ASSUME NEW o \in [Pools -> Int] PROVE Seen(o) \in Int
<1>1. CASE FirstPool(With(o)) = {}
  BY <1>1, PoolFacts DEF Seen
<1>2. CASE FirstPool(With(o)) # {}
  <2>1. PICK p : p \in FirstPool(With(o))
    BY <1>2
  <2>2. p \in Pools
    BY <2>1 DEF FirstPool, With
  <2>3. Seen(o) = o[p]
    BY <2>1, SeenFirst
  <2> QED BY <2>2, <2>3
<1> QED BY <1>1, <1>2

\* The operators above describe the state.
LEMMA SeenNow == Readable = With(poolObject) /\ ObjectSeen = Seen(poolObject) /\ Readable \subseteq Holders
BY DEF Readable, Holders, ObjectSeen, With, Seen

\* The operators above describe the next state.
LEMMA SeenThen == Readable' = With(poolObject') /\ ObjectSeen' = Seen(poolObject') /\ Readable' \subseteq Holders'
BY DEF Readable, Holders, ObjectSeen, With, Seen

\* Requests that have not begun and an object in at most one pool satisfy the invariant.
LEMMA PoolInitIInv == PoolInit => PoolIInv
<1> SUFFICES ASSUME PoolInit PROVE PoolIInv
  OBVIOUS
<1>1. /\ request = [r \in PoolRequests |-> NoRequest] /\ free \in [Pools -> FirstFree] /\ written = 1 /\ raced = FALSE
      /\ deployment \in [sharedLockers : BOOLEAN, versioned : BOOLEAN]
  BY DEF PoolInit
<1>2. PICK p \in Pools : poolObject \in {[q \in Pools |-> Absent], [q \in Pools |-> IF q = p THEN 1 ELSE Absent]}
  BY DEF PoolInit
<1>3. FirstFree \subseteq Int /\ 1 \in Int
  BY SMT, ServerPoolsAssumption
<1>4. PoolRest
  BY <1>1, <1>2, <1>3, PoolFacts DEF PoolRest
<1>5. \A q \in Holders : q = p
  BY <1>2 DEF Holders
<1>6. OnePool
  BY <1>5 DEF OnePool
<1>7. \A r \in PoolRequests : request[r] = NoRequest
  BY <1>1
<1>8. Excluded
  BY <1>7, PoolFacts DEF Excluded, Reads
<1>9. LookupOK(NoRequest) /\ WorkOK(NoRequest) /\ GetOK(NoRequest)
  BY PoolFacts DEF LookupOK, WorkOK, GetOK
<1> QED BY <1>4, <1>6, <1>7, <1>8, <1>9 DEF PoolIInv

\* Who holds the lock of the first pool.
LEMMA LockHolders ==
  ASSUME NEW r
  PROVE  (HoldsLock(r, "read") <=> Reads(request[r])) /\ (HoldsLock(r, "write") <=> Clears(request[r]))
BY SMT DEF HoldsLock, Reads, Clears

\* One request moves on and no pool changes.
LEMMA OneRequest ==
  ASSUME PoolIInv, UNCHANGED <<deployment, poolObject, free, raced>>, written' \in Int,
         NEW r \in PoolRequests, NEW q \in PoolRequest, request' = [request EXCEPT ![r] = q],
         LookupOK(q), WorkOK(q), GetOK(q),
         Reads(q) => \A s \in PoolRequests \ {r} : ~Clears(request[s]),
         Clears(q) => \A s \in PoolRequests \ {r} : ~Reads(request[s])
  PROVE  PoolIInv'
<1>1. request \in [PoolRequests -> PoolRequest]
  BY DEF PoolIInv, PoolRest
<1>2. request'[r] = q /\ \A s \in PoolRequests \ {r} : request'[s] = request[s]
  BY <1>1
<1>3. PoolRest'
  BY <1>1 DEF PoolIInv, PoolRest
<1>4. OnePool'
  BY DEF PoolIInv, OnePool, Holders
<1>5. Excluded'
  <2> SUFFICES ASSUME NEW s \in PoolRequests, NEW t \in PoolRequests, Reads(request'[s]), Clears(request'[t])
               PROVE  FALSE
    BY DEF Excluded, Reads, Clears
  <2>1. s # t
    BY DEF Reads, Clears
  <2>2. CASE s = r
    BY <1>2, <2>1, <2>2
  <2>3. CASE t = r
    BY <1>2, <2>1, <2>3
  <2>4. CASE s # r /\ t # r
    BY <1>2, <2>4 DEF PoolIInv, Excluded
  <2> QED BY <2>2, <2>3, <2>4
<1>6. ASSUME NEW x PROVE (LookupOK(x) => LookupOK(x)') /\ (WorkOK(x) => WorkOK(x)') /\ (GetOK(x) => GetOK(x)')
  BY DEF LookupOK, WorkOK, GetOK, Answering, Readable, Holders, ObjectSeen
<1>7. \A s \in PoolRequests : LookupOK(request[s])' /\ WorkOK(request[s])' /\ GetOK(request[s])'
  <2> SUFFICES ASSUME NEW s \in PoolRequests
               PROVE  LookupOK(request[s])' /\ WorkOK(request[s])' /\ GetOK(request[s])'
    OBVIOUS
  <2> PICK x : x = request'[s]
    OBVIOUS
  <2>1. LookupOK(x) /\ WorkOK(x) /\ GetOK(x)
    BY <1>2 DEF PoolIInv
  <2>2. LookupOK(x)' /\ WorkOK(x)' /\ GetOK(x)'
    BY <2>1, <1>6
  <2> QED BY <2>2
<1> QED BY <1>3, <1>4, <1>5, <1>7 DEF PoolIInv

\* A request that is over.
LEMMA RequestOver ==
  ASSUME PoolIInv, UNCHANGED <<deployment, poolObject, free, written, raced>>,
         NEW r \in PoolRequests, request' = [request EXCEPT ![r] = [NoRequest EXCEPT !.pc = "done"]]
  PROVE  PoolIInv'
<1> PICK q : q = [NoRequest EXCEPT !.pc = "done"]
  OBVIOUS
<1>1. q \in PoolRequest /\ q.pc = "done" /\ q.kind = "none" /\ q.found = {}
  BY PoolFacts DEF PoolRequest
<1>2. LookupOK(q) /\ WorkOK(q) /\ GetOK(q) /\ ~Reads(q) /\ ~Clears(q)
  BY <1>1 DEF LookupOK, WorkOK, GetOK, Reads, Clears
<1>3. written' \in Int
  BY DEF PoolIInv, PoolRest
<1> QED BY <1>1, <1>2, <1>3, OneRequest

\* A request arrives; a read and a delete of a list take the lock of the first pool.
LEMMA BeginRequestIInv ==
  ASSUME PoolIInv, NEW r \in PoolRequests, NEW k \in RequestKinds, BeginRequest(r, k) PROVE PoolIInv'
<1> PICK b : b = IF k = "put" THEN written + 1 ELSE 0
  OBVIOUS
<1> PICK v : v = ObjectSeen
  OBVIOUS
<1> PICK q : q = [NoRequest EXCEPT !.kind = k, !.pc = "ask", !.body = b, !.may = {v}]
  OBVIOUS
<1>1. /\ UNCHANGED <<deployment, poolObject, free, raced>> /\ request' = [request EXCEPT ![r] = q]
      /\ written' = IF k = "put" THEN written + 1 ELSE written
      /\ k = "get" => CanRead(r, 1)
      /\ k = "deletes" => CanWrite(r, 1)
  BY DEF BeginRequest
<1>2. written \in Int /\ v \in Int
  BY SeenNow, SeenType DEF PoolIInv, PoolRest
<1>3. written' \in Int /\ b \in Int
  BY SMT, <1>1, <1>2
<1>4. q \in PoolRequest /\ q.kind = k /\ q.pc = "ask" /\ q.body = b /\ q.may = {v} /\ q.asked = {} /\ q.found = {} /\ ~q.old
  BY <1>2, <1>3, PoolFacts DEF PoolRequest
<1>5. LookupOK(q) /\ WorkOK(q)
  BY <1>4 DEF LookupOK, WorkOK, RequestKinds
<1>6. GetOK(q)
  <2>1. k = "get" => b = Absent
    BY DEF Absent
  <2>2. Absent = v \/ Readable # {}
    BY SeenNow, SeenNone
  <2> QED BY <1>4, <2>1, <2>2 DEF GetOK
<1>7. LockDomain(1) = 1
  BY DEF LockDomain
<1>8. k = "get" => \A s \in PoolRequests \ {r} : ~Clears(request[s])
  BY <1>1, <1>7, LockHolders DEF CanRead
<1>9. k = "deletes" => \A s \in PoolRequests \ {r} : ~Reads(request[s])
  BY <1>1, <1>7, LockHolders DEF CanWrite
<1>10. (Reads(q) => k = "get") /\ (Clears(q) => k = "deletes")
  BY <1>4 DEF Reads, Clears
<1> QED BY <1>1, <1>3, <1>4, <1>5, <1>6, <1>8, <1>9, <1>10, OneRequest

\* pool.GetObjectInfo of one more pool.
LEMMA AskPoolIInv == ASSUME PoolIInv, NEW r \in PoolRequests, NEW p \in Pools, AskPool(r, p) PROVE PoolIInv'
<1> PICK x : x = request[r]
  OBVIOUS
<1> PICK c : c = poolObject[p]
  OBVIOUS
<1>0. PICK f, b :
        /\ f = IF p \in Answering(request[r].kind) THEN request[r].found \cup {p} ELSE request[r].found
        /\ b = IF Nearest(r, p) THEN poolObject[p] ELSE request[r].body
  OBVIOUS
<1> PICK q : q = [x EXCEPT !.asked = x.asked \cup {p}, !.found = f, !.body = b]
  OBVIOUS
<1>1. /\ UNCHANGED <<deployment, poolObject, free, written, raced>> /\ request' = [request EXCEPT ![r] = q]
      /\ x.pc = "ask" /\ p \notin x.asked
  <2>1. UNCHANGED <<deployment, poolObject, free, written, raced>> /\ x.pc = "ask" /\ p \notin x.asked
    BY DEF AskPool
  <2>2. request' = [request EXCEPT ![r] = [request[r] EXCEPT
                     !.asked = request[r].asked \cup {p},
                     !.found = IF p \in Answering(request[r].kind) THEN request[r].found \cup {p} ELSE request[r].found,
                     !.body = IF Nearest(r, p) THEN poolObject[p] ELSE request[r].body]]
    BY DEF AskPool
  <2>3. q = [request[r] EXCEPT
                     !.asked = request[r].asked \cup {p},
                     !.found = IF p \in Answering(request[r].kind) THEN request[r].found \cup {p} ELSE request[r].found,
                     !.body = IF Nearest(r, p) THEN poolObject[p] ELSE request[r].body]
    BY <1>0
  <2> QED BY <2>1, <2>2, <2>3
<1>2. x \in PoolRequest /\ LookupOK(x) /\ GetOK(x) /\ c \in Int /\ written \in Int
  BY DEF PoolIInv, PoolRest
<1>3. x.found \subseteq x.asked /\ x.asked \subseteq Pools /\ x.body \in Int /\ x.kind # "none"
  BY <1>1, <1>2 DEF LookupOK, PoolRequest
<1>4. /\ q \in PoolRequest /\ q.asked = x.asked \cup {p} /\ q.found = f /\ q.body = b /\ q.kind = x.kind /\ q.pc = x.pc
      /\ q.old = x.old /\ q.may = x.may
  BY ZenonT(60), <1>0, <1>2, <1>3 DEF PoolRequest
<1>5. x.kind = "get" => Answering(x.kind) = Readable
  BY DEF Answering
<1>6. LookupOK(q) /\ WorkOK(q)
  <2>1. f \subseteq x.asked \cup {p}
    BY <1>0, <1>3
  <2>2. ~x.old => f = (x.asked \cup {p}) \cap Answering(x.kind)
    BY <1>0, <1>1, <1>2 DEF LookupOK
  <2> QED BY <1>1, <1>3, <1>4, <2>1, <2>2 DEF LookupOK, WorkOK
<1>7. ASSUME x.kind = "get" PROVE GetOK(q)
  <2>1. /\ ObjectSeen \in x.may
        /\ x.found = {} => x.body = Absent
        /\ deployment.sharedLockers => ~x.old /\ (x.found # {} => \E y \in FirstPool(x.found) : x.body = poolObject[y])
        /\ ~raced => /\ x.found # {} => x.body \in x.may
                     /\ x.found = {} => Absent \in x.may \/ Readable \ x.asked # {}
    BY <1>2, <1>7 DEF GetOK
  <2>2. CASE p \notin Readable
    <3>1. f = x.found /\ b = x.body
      BY <1>0, <1>5, <1>7, <2>2 DEF Nearest
    <3>2. Readable \ (x.asked \cup {p}) = Readable \ x.asked
      BY <2>2
    <3> QED BY SMTT(60), <1>1, <1>4, <2>1, <3>1, <3>2 DEF GetOK
  <2>3. CASE p \in Readable /\ \A y \in x.found : p < y
    <3>1. f = x.found \cup {p} /\ b = c
      BY <1>0, <1>5, <1>7, <2>3 DEF Nearest
    <3>2. \A y \in f : p <= y
      BY SMT, <1>3, <2>3, <3>1, PoolFacts
    <3>3. p \in FirstPool(f)
      BY <3>1, <3>2 DEF FirstPool
    <3>4. ~raced => b \in x.may
      <4> SUFFICES ASSUME ~raced PROVE b \in x.may
        OBVIOUS
      <4>1. p \in With(poolObject) /\ \A y \in With(poolObject) : y = p
        BY <2>3, SeenNow DEF PoolIInv, OnePool
      <4>2. ObjectSeen = c
        BY <4>1, SeenOnly, SeenNow
      <4> QED BY <2>1, <3>1, <4>2
    <3> QED BY <1>1, <1>4, <2>1, <3>1, <3>3, <3>4 DEF GetOK
  <2>4. CASE p \in Readable /\ ~\A y \in x.found : p < y
    <3>1. f = x.found \cup {p} /\ b = x.body /\ x.found # {}
      BY <1>0, <1>5, <1>7, <2>4 DEF Nearest
    <3>2. ASSUME NEW y \in FirstPool(x.found) PROVE y \in FirstPool(f)
      <4>1. PICK z \in x.found : ~(p < z)
        BY <2>4
      <4>2. y \in x.found /\ y <= z
        BY <4>1 DEF FirstPool
      <4>3. y <= p
        BY SMT, <1>3, <4>1, <4>2, PoolFacts
      <4> QED BY <3>1, <4>2, <4>3 DEF FirstPool
    <3> QED BY SMTT(60), <1>1, <1>4, <2>1, <3>1, <3>2 DEF GetOK
  <2> QED BY <2>2, <2>3, <2>4
<1>8. GetOK(q)
  BY <1>4, <1>7 DEF GetOK
<1>9. (Reads(q) => Reads(x)) /\ (Clears(q) => Clears(x))
  BY <1>4 DEF Reads, Clears
<1>10. /\ Reads(q) => \A s \in PoolRequests \ {r} : ~Clears(request[s])
       /\ Clears(q) => \A s \in PoolRequests \ {r} : ~Reads(request[s])
  BY <1>9 DEF PoolIInv, Excluded
<1>11. written' \in Int
  BY <1>1, <1>2
<1> QED BY <1>1, <1>4, <1>6, <1>8, <1>10, <1>11, OneRequest

\* A pool with room has at least the size of the object.
LEMMA RoomEnough == ASSUME PoolRest, NEW p \in Pools, SpaceLeft(p, Size) > 0 PROVE free[p] >= Size
<1>1. free[p] \in Int
  BY DEF PoolRest
<1>2. ~(free[p] < Size)
  <2> SUFFICES ASSUME free[p] < Size PROVE SpaceLeft(p, Size) = 0 /\ ~(0 > 0)
    OBVIOUS
  <2>1. ~(0 > 0)
    BY SMT
  <2> QED BY <2>1 DEF SpaceLeft
<1> QED BY SMT, <1>1, <1>2, PoolFacts

\* getPoolIdx: the first pool that was found to have the object, or one with room.
LEMMA ChoosePoolIInv == ASSUME PoolIInv, NEW r \in PoolRequests, ChoosePool(r) PROVE PoolIInv'
<1> PICK x : x = request[r]
  OBVIOUS
<1>1. UNCHANGED <<deployment, poolObject, free, written, raced>> /\ x.pc = "ask" /\ x.asked = Pools /\ x.kind # "get"
  BY DEF ChoosePool
<1>2. x \in PoolRequest /\ LookupOK(x) /\ written \in Int
  BY DEF PoolIInv, PoolRest
<1>3. CASE request' = [request EXCEPT ![r] = [NoRequest EXCEPT !.pc = "done"]]
  BY <1>1, <1>3, RequestOver
<1>4. ASSUME NEW p \in PoolChoices(x.found),
             request' = [request EXCEPT ![r] = [x EXCEPT !.pc = "work", !.at = p]]
      PROVE  PoolIInv'
  <2> PICK q : q = [x EXCEPT !.pc = "work", !.at = p]
    OBVIOUS
  <2>1. x.found \subseteq Pools /\ x.kind \in {"put", "delete", "deletes"}
    BY <1>1, <1>2 DEF LookupOK, PoolRequest, RequestKinds
  <2>2. p \in Pools /\ (x.found # {} => p \in x.found)
    BY <1>4, <2>1 DEF PoolChoices, FirstPool
  <2>3. x.found = {} => free[p] >= Size
    BY <1>4, <2>2, RoomEnough DEF PoolChoices, PoolIInv
  <2>4. p \in Int
    BY <2>2, PoolFacts
  <2>5. /\ q \in PoolRequest /\ q.pc = "work" /\ q.at = p /\ q.kind = x.kind /\ q.asked = x.asked /\ q.found = x.found
        /\ q.old = x.old
    BY <1>2, <2>4 DEF PoolRequest
  <2>6. LookupOK(q)
    BY <1>1, <1>2, <2>5 DEF LookupOK
  <2>7. WorkOK(q) /\ GetOK(q)
    BY <1>1, <2>1, <2>2, <2>3, <2>5 DEF WorkOK, GetOK
  <2>8. ~Reads(q) /\ (Clears(q) => Clears(x))
    BY <1>1, <2>5 DEF Reads, Clears
  <2>9. Clears(q) => \A s \in PoolRequests \ {r} : ~Reads(request[s])
    BY <2>8 DEF PoolIInv, Excluded
  <2>10. written' \in Int
    BY <1>1, <1>2
  <2> QED BY <1>1, <1>4, <2>5, <2>6, <2>7, <2>8, <2>9, <2>10, OneRequest
<1> QED BY <1>3, <1>4 DEF ChoosePool

\* What the pool's own operation does: only pool p changes, and unless the
\* lookup was outdated p is then the only pool that may have the object.
LEMMA WorkFacts ==
  ASSUME PoolIInv, NEW r \in PoolRequests, WorkInPool(r), NEW p, p = request[r].at
  PROVE  /\ p \in Pools /\ poolObject' \in [Pools -> Int] /\ free' \in [Pools -> Int] /\ raced' \in BOOLEAN
         /\ \A x \in Pools \ {p} : poolObject'[x] = poolObject[x]
         /\ (~raced' => ~raced /\ ~request[r].old)
         /\ (~raced' => (\A x \in Holders : x = p) /\ \A x \in Holders' : x = p)
         /\ deployment.sharedLockers => \A s \in PoolRequests : ~Reads(request[s])
<1> PICK q : q = request[r]
  OBVIOUS
<1>1. /\ q.pc = "work" /\ raced' = (raced \/ q.old) /\ (q.kind \in {"put", "delete"} => CanWrite(r, p))
      /\ free' = [free EXCEPT ![p] = @ + SpaceChange(poolObject[p], poolObject'[p])]
      /\ poolObject' = CASE q.kind = "put" -> [poolObject EXCEPT ![p] = q.body]
                         [] q.kind # "put" /\ poolObject[p] # Absent -> AfterDelete(p)
                         [] OTHER -> poolObject
  BY DEF WorkInPool
<1>2. q \in PoolRequest /\ LookupOK(q) /\ WorkOK(q) /\ poolObject \in [Pools -> Int] /\ free \in [Pools -> Int] /\ raced \in BOOLEAN
  BY DEF PoolIInv, PoolRest
<1>3. q.kind \in {"put", "delete", "deletes"} /\ q.asked = Pools /\ p \in Pools /\ (q.found # {} => p \in q.found)
      /\ q.body \in Int /\ q.old \in BOOLEAN
  BY <1>1, <1>2 DEF WorkOK, PoolRequest
<1>4. \E b \in Int : poolObject' = [poolObject EXCEPT ![p] = b]
  <2>1. CASE q.kind = "put"
    BY <1>1, <1>3, <2>1
  <2>2. CASE q.kind # "put" /\ poolObject[p] # Absent
    <3>1. poolObject' = AfterDelete(p)
      BY <1>1, <2>2
    <3> QED BY <3>1, PoolFacts DEF AfterDelete
  <2>3. CASE q.kind # "put" /\ poolObject[p] = Absent
    <3>1. poolObject' = poolObject
      BY <1>1, <2>3
    <3>2. poolObject = [poolObject EXCEPT ![p] = poolObject[p]] /\ poolObject[p] \in Int
      BY <1>2, <1>3
    <3> QED BY <3>1, <3>2
  <2> QED BY <2>1, <2>2, <2>3
<1>5. poolObject' \in [Pools -> Int] /\ \A x \in Pools \ {p} : poolObject'[x] = poolObject[x]
  BY <1>2, <1>4
<1>6. free' \in [Pools -> Int]
  <2>1. SpaceChange(poolObject[p], poolObject'[p]) \in Int
    BY SMT DEF SpaceChange, Size
  <2>2. free[p] + SpaceChange(poolObject[p], poolObject'[p]) \in Int
    BY SMT, <1>2, <1>3, <2>1
  <2> QED BY <1>1, <1>2, <2>2
<1>7. ~raced' => ~raced /\ ~q.old
  BY <1>1
<1>8. ASSUME ~raced' PROVE (\A x \in Holders : x = p) /\ \A x \in Holders' : x = p
  <2>1. q.found = Pools \cap Holders /\ Holders \subseteq Pools
    BY <1>1, <1>2, <1>3, <1>7, <1>8 DEF LookupOK, Answering, Holders
  <2>2. \A x, y \in Holders : x = y
    BY <1>7, <1>8 DEF PoolIInv, OnePool
  <2>3. \A x \in Holders : x = p
    BY <1>3, <2>1, <2>2
  <2>4. \A x \in Holders' : x = p \/ x \in Holders
    BY <1>5 DEF Holders
  <2> QED BY <2>3, <2>4
<1>9. ASSUME deployment.sharedLockers, NEW s \in PoolRequests, Reads(request[s]) PROVE FALSE
  <2>1. s # r
    BY <1>3, <1>9 DEF Reads
  <2>2. CASE q.kind \in {"put", "delete"}
    <3>1. CanWrite(r, p) /\ LockDomain(p) = 1
      BY <1>1, <1>9, <2>2 DEF LockDomain
    <3> QED BY <1>9, <2>1, <3>1, LockHolders DEF CanWrite
  <2>3. CASE q.kind = "deletes"
    <3>1. Clears(q)
      BY <1>1, <2>3 DEF Clears
    <3> QED BY <1>9, <3>1 DEF PoolIInv, Excluded
  <2> QED BY <1>3, <2>2, <2>3
<1>10. raced' \in BOOLEAN
  BY <1>1, <1>2, <1>3
<1> QED BY <1>3, <1>5, <1>6, <1>7, <1>8, <1>9, <1>10

\* The operation of the chosen pool, and what it means for the requests that look the object up.
LEMMA WorkInPoolIInv == ASSUME PoolIInv, NEW r \in PoolRequests, WorkInPool(r) PROVE PoolIInv'
<1> PICK p : p = request[r].at
  OBVIOUS
<1> PICK v : v = ObjectSeen'
  OBVIOUS
<1>1. /\ p \in Pools /\ poolObject' \in [Pools -> Int] /\ free' \in [Pools -> Int] /\ raced' \in BOOLEAN
      /\ \A x \in Pools \ {p} : poolObject'[x] = poolObject[x]
      /\ (~raced' => ~raced /\ ~request[r].old)
      /\ (~raced' => (\A x \in Holders : x = p) /\ \A x \in Holders' : x = p)
      /\ deployment.sharedLockers => \A s \in PoolRequests : ~Reads(request[s])
  BY WorkFacts
<1>2. UNCHANGED <<deployment, written>> /\ request' = LookupsOutdated(request, r, v)
  BY DEF WorkInPool
<1>3. request \in [PoolRequests -> PoolRequest] /\ v \in Int
  BY <1>1, SeenThen, SeenType DEF PoolIInv, PoolRest
<1>4. ASSUME NEW s \in PoolRequests \ {r}
      PROVE  /\ request'[s] \in PoolRequest /\ request'[s].kind = request[s].kind /\ request'[s].pc = request[s].pc
             /\ request'[s].asked = request[s].asked /\ request'[s].found = request[s].found
             /\ request'[s].body = request[s].body /\ request'[s].at = request[s].at
             /\ request[s].may \subseteq request'[s].may /\ (request[s].pc = "ask" => v \in request'[s].may)
             /\ (request[s].pc \in {"ask", "work"} => request'[s].old)
  <2> PICK y : y = request[s]
    OBVIOUS
  <2> PICK m : m = IF y.pc = "ask" THEN y.may \cup {v} ELSE y.may
    OBVIOUS
  <2> PICK o : o = (y.old \/ y.pc \in {"ask", "work"})
    OBVIOUS
  <2> PICK x : x = [y EXCEPT !.may = m, !.old = o]
    OBVIOUS
  <2>1. y \in PoolRequest
    BY <1>3
  <2>2. m \in SUBSET Int /\ y.may \subseteq m /\ (y.pc = "ask" => v \in m) /\ o \in BOOLEAN
    BY <1>3, <2>1 DEF PoolRequest
  <2>3. /\ x \in PoolRequest /\ x.kind = y.kind /\ x.pc = y.pc /\ x.asked = y.asked /\ x.found = y.found
        /\ x.body = y.body /\ x.at = y.at /\ x.may = m /\ x.old = o
    BY <2>1, <2>2 DEF PoolRequest
  <2>4. request'[s] = x
    BY <1>2 DEF LookupsOutdated
  <2> QED BY <2>2, <2>3, <2>4
<1>5. /\ request'[r] = [NoRequest EXCEPT !.pc = "done"] /\ request'[r] \in PoolRequest
      /\ request'[r].kind = "none" /\ request'[r].pc = "done" /\ request'[r].found = {}
  <2>1. request'[r] = [NoRequest EXCEPT !.pc = "done"]
    BY <1>2 DEF LookupsOutdated
  <2> QED BY <2>1, PoolFacts DEF PoolRequest
<1>6. request' \in [PoolRequests -> PoolRequest]
  <2>1. \A s \in PoolRequests : request'[s] \in PoolRequest
    <3> TAKE s \in PoolRequests
    <3>1. CASE s = r
      BY <1>5, <3>1
    <3>2. CASE s # r
      BY <1>4, <3>2
    <3> QED BY <3>1, <3>2
  <2>2. request' = [s \in PoolRequests |-> request'[s]]
    BY <1>2 DEF LookupsOutdated
  <2> QED BY <2>1, <2>2
<1>7. PoolRest'
  BY <1>1, <1>2, <1>6 DEF PoolIInv, PoolRest
<1>8. OnePool'
  BY <1>1 DEF OnePool
<1>9. Excluded'
  <2>1. \A s \in PoolRequests : (Reads(request'[s]) => s # r /\ Reads(request[s])) /\ (Clears(request'[s]) => s # r /\ Clears(request[s]))
    <3> TAKE s \in PoolRequests
    <3>1. CASE s = r
      BY <1>5, <3>1 DEF Reads, Clears
    <3>2. CASE s # r
      <4>1. request'[s].kind = request[s].kind /\ request'[s].pc = request[s].pc
        BY <1>4, <3>2
      <4> QED BY <3>2, <4>1 DEF Reads, Clears
    <3> QED BY <3>1, <3>2
  <2>2. \A s, t \in PoolRequests : ~(Reads(request'[s]) /\ Clears(request'[t]))
    BY <2>1 DEF PoolIInv, Excluded
  <2> QED BY <2>2 DEF Excluded, Reads, Clears
<1>10. ASSUME NEW s \in PoolRequests PROVE LookupOK(request[s])' /\ WorkOK(request[s])' /\ GetOK(request[s])'
  <2>1. CASE s = r
    BY <1>5, <2>1 DEF LookupOK, WorkOK, GetOK
  <2>2. CASE s # r
    <3> PICK y : y = request[s]
      OBVIOUS
    <3> PICK x : x = request'[s]
      OBVIOUS
    <3>1.      /\ request'[s] = x /\ x.kind = y.kind /\ x.pc = y.pc /\ x.asked = y.asked
               /\ x.found = y.found /\ x.body = y.body /\ x.at = y.at
               /\ y.may \subseteq x.may /\ (y.pc = "ask" => v \in x.may)
               /\ (y.pc \in {"ask", "work"} => x.old)
      BY <1>4, <2>2
    <3>2. LookupOK(y) /\ WorkOK(y) /\ GetOK(y)
      BY DEF PoolIInv
    <3>3. LookupOK(x)' /\ WorkOK(x)'
      BY <3>1, <3>2 DEF LookupOK, WorkOK
    <3>4. ASSUME y.kind = "get" PROVE GetOK(x)'
      <4>1. y.pc = "ask" /\ (y.found = {} => y.body = Absent)
            /\ (~raced => /\ y.found # {} => y.body \in y.may
                          /\ y.found = {} => Absent \in y.may \/ Readable \ y.asked # {})
        BY <3>2, <3>4 DEF GetOK
      <4>2. ~deployment.sharedLockers
        BY <1>1, <3>4, <4>1 DEF Reads
      <4>3. v \in x.may
        BY <3>1, <4>1
      <4>4. ASSUME ~raced', y.found = {} PROVE Absent \in x.may \/ Readable' \ x.asked # {}
        <5>1. CASE Absent \in y.may
          BY <3>1, <5>1
        <5>2. CASE Readable \ y.asked # {}
          <6>1. p \notin y.asked
            BY <1>1, <4>4, <5>2, SeenNow
          <6>2. CASE Readable' = {}
            <7>1. v = Absent
              BY <6>2, SeenThen, SeenNone
            <7> QED BY <4>3, <7>1
          <6>3. CASE Readable' # {}
            BY <1>1, <3>1, <4>4, <6>1, <6>3, SeenThen
          <6> QED BY <6>2, <6>3
        <5> QED BY <1>1, <4>1, <4>4, <5>1, <5>2
      <4>5. ASSUME ~raced', y.found # {} PROVE y.body \in x.may
        BY <1>1, <3>1, <4>1, <4>5
      <4> QED BY <1>2, <3>1, <4>1, <4>2, <4>3, <4>4, <4>5 DEF GetOK
    <3>5. GetOK(x)'
      BY <3>1, <3>4 DEF GetOK
    <3> QED BY <3>1, <3>3, <3>5
  <2> QED BY <2>1, <2>2
<1> QED BY <1>7, <1>8, <1>9, <1>10 DEF PoolIInv

\* Every step of a request preserves the invariant.
LEMMA PoolNextIInv == PoolIInv /\ [PoolNext]_poolVars => PoolIInv'
<1> SUFFICES ASSUME PoolIInv, [PoolNext]_poolVars PROVE PoolIInv'
  OBVIOUS
<1>1. ASSUME NEW r \in PoolRequests, \E k \in {"put", "get", "delete", "deletes"} : BeginRequest(r, k) PROVE PoolIInv'
  BY <1>1, BeginRequestIInv DEF RequestKinds
<1>2. ASSUME NEW r \in PoolRequests, \E p \in Pools : AskPool(r, p) PROVE PoolIInv'
  BY <1>2, AskPoolIInv
<1>3. ASSUME NEW r \in PoolRequests, ChoosePool(r) PROVE PoolIInv'
  BY <1>3, ChoosePoolIInv
<1>4. ASSUME NEW r \in PoolRequests, WorkInPool(r) PROVE PoolIInv'
  BY <1>4, WorkInPoolIInv
<1>5. ASSUME NEW r \in PoolRequests, PoolPutFails(r) \/ AnswerGet(r) PROVE PoolIInv'
  <2>1. /\ UNCHANGED <<deployment, poolObject, free, written, raced>>
        /\ request' = [request EXCEPT ![r] = [NoRequest EXCEPT !.pc = "done"]]
    BY <1>5 DEF PoolPutFails, AnswerGet
  <2> QED BY <2>1, RequestOver
<1>6. CASE UNCHANGED poolVars
  <2>1. PoolRest' /\ OnePool' /\ Excluded'
    BY <1>6 DEF poolVars, PoolIInv, PoolRest, OnePool, Holders, Excluded, Reads, Clears
  <2>2. \A r \in PoolRequests : LookupOK(request[r])' /\ WorkOK(request[r])'
    BY <1>6 DEF poolVars, PoolIInv, LookupOK, WorkOK, Answering, Readable, Holders
  <2>3. \A r \in PoolRequests : GetOK(request[r])'
    BY SMTT(60), <1>6 DEF poolVars, PoolIInv, GetOK, Readable, ObjectSeen
  <2> QED BY <2>1, <2>2, <2>3 DEF PoolIInv
<1> QED BY <1>1, <1>2, <1>3, <1>4, <1>5, <1>6 DEF PoolNext

\* The invariant gives the three state properties.
LEMMA PoolSound == PoolIInv => OnePool /\ ReadsAMoment /\ SentToRoom
<1> SUFFICES ASSUME PoolIInv PROVE OnePool /\ ReadsAMoment /\ SentToRoom
  OBVIOUS
<1>1. ASSUME NEW r \in PoolRequests, request[r].kind = "get", request[r].asked = Pools
      PROVE  request[r].body \in request[r].may \/ (raced /\ ~deployment.sharedLockers)
  <2> PICK q : q = request[r]
    OBVIOUS
  <2>1. LookupOK(q) /\ GetOK(q) /\ q.kind = "get" /\ q.asked = Pools /\ Readable \subseteq Pools
    BY <1>1 DEF PoolIInv, Readable
  <2>2. CASE deployment.sharedLockers
    <3>1. q.found = Readable
      BY <2>1, <2>2 DEF LookupOK, GetOK, Answering
    <3>2. CASE Readable = {}
      <4>1. ObjectSeen = Absent
        BY <3>2, SeenNow, SeenNone
      <4> QED BY <2>1, <3>1, <3>2, <4>1 DEF GetOK
    <3>3. CASE Readable # {}
      <4>1. PICK p \in FirstPool(With(poolObject)) : q.body = poolObject[p]
        BY <2>1, <2>2, <3>1, <3>3, SeenNow DEF GetOK
      <4>2. ObjectSeen = q.body
        BY <4>1, SeenNow, SeenFirst
      <4> QED BY <2>1, <4>2 DEF GetOK
    <3> QED BY <3>2, <3>3
  <2>3. CASE ~raced
    BY <2>1, <2>3 DEF GetOK
  <2> QED BY <2>2, <2>3
<1>2. ASSUME NEW r \in PoolRequests, request[r].pc = "work", request[r].kind = "put", ~request[r].old
      PROVE  poolObject[request[r].at] # Absent \/ free[request[r].at] >= Size
  BY <1>2 DEF PoolIInv, LookupOK, WorkOK, Answering, Holders
<1> QED BY <1>1, <1>2 DEF ReadsAMoment, SentToRoom, PoolIInv

\* Only the operation of the pool ends a delete that has chosen one.
LEMMA DeleteEnds ==
  ASSUME PoolIInv, [PoolNext]_poolVars, NEW r \in PoolRequests, request[r].pc = "work",
         request[r].kind \in {"delete", "deletes"}, request'[r].pc = "done"
  PROVE  WorkInPool(r)
<1>1. request \in [PoolRequests -> PoolRequest]
  BY DEF PoolIInv, PoolRest
<1>2. \A s \in PoolRequests : \A q : s # r /\ request' = [request EXCEPT ![s] = q] => request'[r] = request[r]
  BY <1>1
<1>3. ASSUME NEW s \in PoolRequests, NEW k \in RequestKinds, BeginRequest(s, k) PROVE FALSE
  <2>1. request[s].pc = "idle" /\ \E q : request' = [request EXCEPT ![s] = q]
    BY <1>3 DEF BeginRequest
  <2> QED BY <1>2, <2>1
<1>4. ASSUME NEW s \in PoolRequests, NEW p \in Pools, AskPool(s, p) PROVE FALSE
  <2>1. request[s].pc = "ask" /\ \E q : request' = [request EXCEPT ![s] = q]
    BY <1>4 DEF AskPool
  <2> QED BY <1>2, <2>1
<1>5. ASSUME NEW s \in PoolRequests, ChoosePool(s) PROVE FALSE
  <2>1. request[s].pc = "ask" /\ \E q : request' = [request EXCEPT ![s] = q]
    BY <1>5 DEF ChoosePool
  <2> QED BY <1>2, <2>1
<1>6. ASSUME NEW s \in PoolRequests, PoolPutFails(s) \/ AnswerGet(s) PROVE FALSE
  <2>1. request[s].kind \in {"put", "get"} /\ \E q : request' = [request EXCEPT ![s] = q]
    BY <1>6 DEF PoolPutFails, AnswerGet
  <2> QED BY <1>2, <2>1
<1>7. ASSUME NEW s \in PoolRequests, s # r, WorkInPool(s) PROVE FALSE
  <2> PICK v : v = ObjectSeen'
    OBVIOUS
  <2> PICK m : m = IF request[r].pc = "ask" THEN request[r].may \cup {v} ELSE request[r].may
    OBVIOUS
  <2> PICK o : o = (request[r].old \/ request[r].pc \in {"ask", "work"})
    OBVIOUS
  <2>1. request' = LookupsOutdated(request, s, v)
    BY <1>7 DEF WorkInPool
  <2>2. request'[r] = [request[r] EXCEPT !.may = m, !.old = o]
    BY <1>7, <2>1 DEF LookupsOutdated
  <2>3. request[r] \in PoolRequest
    BY <1>1
  <2>4. [request[r] EXCEPT !.may = m, !.old = o].pc = request[r].pc
    BY <2>3 DEF PoolRequest
  <2> QED BY <2>2, <2>4
<1>8. ~UNCHANGED poolVars
  BY DEF poolVars
<1> QED BY <1>3, <1>4, <1>5, <1>6, <1>7, <1>8 DEF PoolNext, RequestKinds

\* A delete leaves its pool without content, and no other pool has any.
LEMMA DeleteLeavesNone ==
  ASSUME PoolIInv, NEW r \in PoolRequests, WorkInPool(r), request[r].kind \in {"delete", "deletes"}, ~raced'
  PROVE  ObjectSeen' = Absent
<1> PICK p : p = request[r].at
  OBVIOUS
<1>1. p \in Pools /\ \A x \in Holders' : x = p
  BY WorkFacts
<1>2. poolObject'[p] \in {Absent, MarkerEntry}
  <2>1. poolObject \in [Pools -> Int]
    BY DEF PoolIInv, PoolRest
  <2>2. CASE poolObject[p] = Absent
    <3>1. poolObject' = poolObject
      BY <2>2 DEF WorkInPool
    <3> QED BY <2>2, <3>1
  <2>3. CASE poolObject[p] # Absent
    <3>1. poolObject' = AfterDelete(p)
      BY <2>3 DEF WorkInPool
    <3> QED BY <1>1, <2>1, <3>1 DEF AfterDelete
  <2> QED BY <2>2, <2>3
<1>3. Readable' = {}
  BY <1>1, <1>2, SeenThen DEF Readable
<1> QED BY <1>3, SeenThen, SeenNone

\* A delete that ends leaves no pool with an older object, unless a write came in between.
LEMMA UncoverStep ==
  PoolIInv /\ [PoolNext]_poolVars =>
    [\A r \in PoolRequests :
       request[r].pc = "work" /\ request[r].kind \in {"delete", "deletes"} /\ request'[r].pc = "done"
         => ObjectSeen' = Absent \/ raced']_poolVars
BY DeleteEnds, DeleteLeavesNone

\* No interleaving of puts, reads and deletes over the pools breaks the invariant (getPoolIdx,
\* GetObjectNInfo, DeleteObject and DeleteObjects of erasureServerPools).
THEOREM PoolInvariantHolds == PoolSpec => []PoolIInv
BY PoolInitIInv, PoolNextIInv, PTL DEF PoolSpec

\* For any number of pools and requests the pools together behave as one store (erasureServerPools):
\* as long as no write followed an outdated lookup, the object is in one pool, a read returns what the
\* object was at some moment of it, a put is sent to a pool with room, and a deleted object is not found
\* although a read passes over delete markers; reads keep this after such a write if the pools share locks.
THEOREM PoolsAsOneHolds == PoolSpec => PoolsAsOne
BY PoolInvariantHolds, PoolSound, UncoverStep, PTL DEF PoolSpec, PoolsAsOne, DeleteUncovers

-----------------------------------------------------------------------------
(* Versions on a drive.  The journal is a sequence, and its operations find,  *)
(* replace, append and drop entries; the invariant speaks of the set of its   *)
(* entries, on which each of them adds and takes away at most one.            *)

\* The entries of a journal, its inline data and its directories: one entry for
\* an id, entries that share a directory are of one kind, inline data belongs to
\* small entries only, and everything is older than the clock.
OneOfEach(R) == \A v, w \in R : v.id = w.id => v = w
Held(R, inl, ds) == \A v \in R : NeedsDir(v) => IF v.small THEN v.id \in inl ELSE v.dir \in ds
Used(R, ds, lk) == \A d \in ds \ lk : \E v \in R : NeedsDir(v) /\ v.dir = d
Kinds(R, inl, ds) ==
  /\ \A v, w \in R : v.type = "object" /\ w.type = "object" /\ v.dir = w.dir => v.small = w.small
  /\ \A v \in R : v.type = "object" => (v.id \in inl => v.small) /\ (v.small => v.dir \notin ds)
Older(R, inl, ds, ck) ==
  /\ \A v \in R : v.id < ck /\ v.dir < ck /\ v.time < ck
  /\ \A x \in inl \cup ds : x < ck
  /\ NoDir \notin ds

JournalOK(R, inl, ds, lk, ck) ==
  OneOfEach(R) /\ Held(R, inl, ds) /\ Used(R, ds, lk) /\ Kinds(R, inl, ds) /\ Older(R, inl, ds, ck)

XLIInv ==
  /\ XLTypeOK /\ OneEntryPerVersion
  /\ JournalOK(Range(versions), inline, dirs, leaked, clock)
  /\ mode = "off" => \A v \in Range(versions) : v.id = Null
-----------------------------------------------------------------------------
(* The journal as a set of entries.                                           *)

\* The entries with another id, and the journal once v replaced what had its id.
Others(R, id) == {w \in R : w.id # id}
Put(R, v) == Others(R, v.id) \cup {v}

Distinct(vs) == \A i, j \in DOMAIN vs : vs[i].id = vs[j].id => i = j

\* The entries of a journal, and the empty journal.
LEMMA RangeIn == ASSUME NEW S, NEW vs \in Seq(S) PROVE Range(vs) \subseteq S /\ (Range(vs) = {} <=> vs = <<>>)
<1>1. vs \in [1..Len(vs) -> S] /\ Len(vs) \in Nat /\ DOMAIN vs = 1..Len(vs)
  BY SMT
<1>2. Range(vs) \subseteq S
  BY <1>1 DEF Range
<1>3. ASSUME vs # <<>> PROVE 1 \in DOMAIN vs
  BY <1>1, <1>3, SMT
<1>4. vs = <<>> => DOMAIN vs = {}
  BY SMT
<1> QED BY <1>2, <1>3, <1>4 DEF Range

\* The place of an entry that is there (the loops over Versions).
LEMMA PlaceFound ==
  ASSUME NEW vs \in Seq(VersionEntry), Distinct(vs), NEW id, Has(vs, id)
  PROVE  LET i == Place(vs, id) IN i \in DOMAIN vs /\ vs[i].id = id /\ vs[i] \in Range(vs)
<1>1. PICK i \in DOMAIN vs : vs[i].id = id
  BY DEF Has, Range
<1>2. DOMAIN vs = 1..Len(vs) /\ Len(vs) \in Nat
  BY SMT
<1>3. IsPlace(vs, id, i)
  <2> SUFFICES ASSUME NEW j \in 1..i - 1 PROVE vs[j].id # id
    BY <1>1 DEF IsPlace
  <2>1. j \in DOMAIN vs /\ j # i
    BY <1>2, SMT
  <2> QED BY <2>1, <1>1 DEF Distinct
<1>4. Place(vs, id) \in DOMAIN vs /\ IsPlace(vs, id, Place(vs, id))
  BY <1>3 DEF Place
<1> QED BY <1>4 DEF IsPlace, Range

\* An entry that is replaced: the journal as a set of entries.
LEMMA Replaced ==
  ASSUME NEW vs \in Seq(VersionEntry), Distinct(vs), NEW i \in DOMAIN vs,
         NEW v \in VersionEntry, v.id = vs[i].id
  PROVE  LET ws == [vs EXCEPT ![i] = v]
         IN ws \in Seq(VersionEntry) /\ Distinct(ws) /\ Range(ws) = Put(Range(vs), v) /\ ws # <<>>
<1> DEFINE ws == [vs EXCEPT ![i] = v]
<1>1. ws \in Seq(VersionEntry) /\ DOMAIN ws = DOMAIN vs /\ ws[i] = v /\ \A j \in DOMAIN vs : j # i => ws[j] = vs[j]
  BY SMT
<1>2. Distinct(ws)
  BY SMTT(60), <1>1 DEF Distinct
<1>3. Range(ws) = Put(Range(vs), v)
  BY <1>1 DEF Distinct, Range, Put, Others
<1>4. ws # <<>>
  BY <1>1, SMT
<1> QED BY <1>1, <1>2, <1>3, <1>4

\* An entry that is appended: the journal as a set of entries.
LEMMA Appended ==
  ASSUME NEW vs \in Seq(VersionEntry), Distinct(vs), NEW v \in VersionEntry, ~Has(vs, v.id)
  PROVE  LET ws == Append(vs, v)
         IN ws \in Seq(VersionEntry) /\ Distinct(ws) /\ Range(ws) = Put(Range(vs), v) /\ ws # <<>>
<1> DEFINE ws == Append(vs, v)
           n == Len(vs) + 1
<1>1. /\ ws \in Seq(VersionEntry) /\ DOMAIN ws = DOMAIN vs \cup {n} /\ n \notin DOMAIN vs
      /\ ws[n] = v /\ \A j \in DOMAIN vs : ws[j] = vs[j]
  BY SMT
<1> HIDE DEF ws, n
<1>2. Distinct(ws)
  BY <1>1 DEF Distinct, Has, Range
<1>3. Range(ws) = Range(vs) \cup {v}
  BY SMTT(60), <1>1 DEF Range
<1>4. Range(ws) = Put(Range(vs), v)
  BY <1>3 DEF Put, Others, Has
<1>5. ws # <<>>
  BY <1>1, SMT
<1> QED BY <1>1, <1>2, <1>4, <1>5 DEF ws

\* An entry that is removed: the journal as a set of entries.
LEMMA Removed ==
  ASSUME NEW vs \in Seq(VersionEntry), Distinct(vs), NEW i \in DOMAIN vs
  PROVE  LET ws == Dropped(vs, i)
         IN ws \in Seq(VersionEntry) /\ Distinct(ws) /\ Range(ws) = Others(Range(vs), vs[i].id)
<1> DEFINE ws == Dropped(vs, i)
<1>1. Len(vs) \in Nat \ {0} /\ DOMAIN vs = 1..Len(vs) /\ i \in 1..Len(vs) /\ vs \in [1..Len(vs) -> VersionEntry]
  BY SMT
<1>2. \A j \in 1..Len(vs) - 1 : j \in DOMAIN vs /\ j + 1 \in DOMAIN vs /\ j \in Int /\ i \in Int
  BY <1>1, SMT
<1>3. ws \in [1..Len(vs) - 1 -> VersionEntry] /\ DOMAIN ws = 1..Len(vs) - 1
  BY <1>1, <1>2, SMT DEF Dropped
<1>4. Len(vs) - 1 \in Nat
  BY <1>1, SMT
<1>5. ws \in Seq(VersionEntry)
  BY <1>3, <1>4, SMT
<1> DEFINE From(j) == IF j < i THEN j ELSE j + 1
<1>6. \A j \in DOMAIN ws : From(j) \in DOMAIN vs /\ From(j) # i /\ ws[j] = vs[From(j)]
  BY <1>1, <1>2, <1>3, SMT DEF Dropped
<1>7. \A j, k \in DOMAIN ws : From(j) = From(k) => j = k
  BY <1>1, <1>3, SMT
<1>8. \A k \in DOMAIN vs : k # i => \E j \in DOMAIN ws : From(j) = k
  <2> SUFFICES ASSUME NEW k \in DOMAIN vs, k # i PROVE \E j \in DOMAIN ws : From(j) = k
    OBVIOUS
  <2>1. k < i => k \in DOMAIN ws /\ From(k) = k
    BY <1>1, <1>3, SMT
  <2>2. ~(k < i) => k - 1 \in DOMAIN ws /\ From(k - 1) = k
    BY <1>1, <1>3, SMT
  <2> QED BY <2>1, <2>2
<1> HIDE DEF From, ws
<1>9. Distinct(ws)
  BY SMTT(60), <1>6, <1>7 DEF Distinct
<1>10. Range(ws) = Others(Range(vs), vs[i].id)
  <2>1. ASSUME NEW w \in Range(ws) PROVE w \in Others(Range(vs), vs[i].id)
    <3>1. PICK j \in DOMAIN ws : w = ws[j]
      BY DEF Range
    <3>2. w = vs[From(j)] /\ From(j) \in DOMAIN vs /\ From(j) # i
      BY <3>1, <1>6
    <3> QED BY <3>2 DEF Range, Others, Distinct
  <2>2. ASSUME NEW w \in Others(Range(vs), vs[i].id) PROVE w \in Range(ws)
    <3>1. PICK k \in DOMAIN vs : w = vs[k] /\ k # i
      BY DEF Range, Others
    <3>2. PICK j \in DOMAIN ws : From(j) = k
      BY <3>1, <1>8
    <3> QED BY <3>1, <3>2, <1>6 DEF Range
  <2> QED BY <2>1, <2>2
<1> QED BY <1>5, <1>9, <1>10 DEF ws

\* AddVersion: the journal as a set of entries.
LEMMA Added ==
  ASSUME NEW vs \in Seq(VersionEntry), Distinct(vs), NEW v \in VersionEntry
  PROVE  LET ws == AddVersion(vs, v)
         IN ws \in Seq(VersionEntry) /\ Distinct(ws) /\ Range(ws) = Put(Range(vs), v) /\ ws # <<>>
<1>1. CASE Has(vs, v.id)
  BY <1>1, PlaceFound, Replaced DEF AddVersion
<1>2. CASE ~Has(vs, v.id)
  BY <1>2, Appended DEF AddVersion
<1> QED BY <1>1, <1>2
-----------------------------------------------------------------------------
(* What the operations do to the entries and their data.                      *)

\* The fields of an entry.
LEMMA EntryFields ==
  ASSUME NEW v \in VersionEntry
  PROVE  /\ v.type \in {"object", "delete"} /\ v.id \in Ids /\ v.dir \in Ids /\ v.time \in Ids
         /\ v.small \in BOOLEAN /\ v.restored \in BOOLEAN /\ v.tier \in {"", "pending", "complete"}
BY DEF VersionEntry

\* The ids are numbers, and the null version is one of them.
LEMMA Numbers == Ids \subseteq Int /\ Null \in Ids /\ NoDir \in Ids /\ Null = 0 /\ NoDir = 0 /\ AnyId \notin Ids
BY SMT, MaxOpsAssumption DEF Ids, Null, NoDir, AnyId

\* Data as it is before an operation.
Journal(R, inl, ds, lk, ck) ==
  R \subseteq VersionEntry /\ inl \subseteq Ids /\ ds \subseteq Ids /\ lk \subseteq Ids /\ ck \in 1..MaxOps
  /\ JournalOK(R, inl, ds, lk, ck)

\* What an operation at time ck adds is not younger than ck.
Grows(R, inl, ds, ck, R2, inl2, ds2) ==
  /\ R2 \subseteq VersionEntry /\ inl2 \subseteq Ids /\ ds2 \subseteq ds \cup {ck}
  /\ \A x \in inl2 : x \in inl \/ x <= ck
  /\ \A v \in R2 : v \in R \/ (v.id <= ck /\ v.dir <= ck /\ v.time <= ck)

\* What an operation leaves is older than the clock after it.
LEMMA OlderStep ==
  ASSUME NEW R, NEW inl, NEW ds, NEW lk, NEW ck, Journal(R, inl, ds, lk, ck),
         NEW R2, NEW inl2, NEW ds2, Grows(R, inl, ds, ck, R2, inl2, ds2)
  PROVE  Older(R2, inl2, ds2, ck + 1)
<1>0. /\ R \subseteq VersionEntry /\ inl \subseteq Ids /\ ds \subseteq Ids /\ ck \in 1..MaxOps
      /\ Older(R, inl, ds, ck)
  BY DEF Journal, JournalOK
<1>1. ck \in Int /\ 0 < ck /\ 0 # ck
  BY <1>0, SMT, MaxOpsAssumption
<1>2. \A v \in R2 : v.id < ck + 1 /\ v.dir < ck + 1 /\ v.time < ck + 1
  <2> SUFFICES ASSUME NEW v \in R2 PROVE v.id < ck + 1 /\ v.dir < ck + 1 /\ v.time < ck + 1
    OBVIOUS
  <2>1. v.id \in Int /\ v.dir \in Int /\ v.time \in Int
    BY EntryFields, Numbers DEF Grows
  <2>2. (v.id < ck /\ v.dir < ck /\ v.time < ck) \/ (v.id <= ck /\ v.dir <= ck /\ v.time <= ck)
    BY <1>0 DEF Older, Grows
  <2> QED BY <1>1, <2>1, <2>2, SMT
<1>3. \A x \in inl2 \cup ds2 : x < ck + 1
  <2> SUFFICES ASSUME NEW x \in inl2 \cup ds2 PROVE x < ck + 1
    OBVIOUS
  <2>1. x \in inl \cup ds \/ (x \in Int /\ x <= ck) \/ x = ck
    BY Numbers DEF Grows
  <2>2. x \in inl \cup ds => x \in Int /\ x < ck
    BY <1>0, Numbers DEF Older
  <2> QED BY <1>1, <2>1, <2>2, SMT
<1>4. NoDir \notin ds2
  BY <1>0, <1>1, Numbers DEF Older, Grows
<1> QED BY <1>2, <1>3, <1>4 DEF Older

\* RenameData with a new data directory.  The directory od is given up: it was
\* that of the entry replaced, and no other entry needs it.
FreesOld(R, ds, lk0, lk, v, od) ==
  /\ lk0 \subseteq lk
  /\ \A u \in Others(R, v.id) : NeedsDir(u) /\ u.dir \in ds => u.dir # od
  /\ \A w \in R : w.id = v.id /\ NeedsDir(w) /\ w.dir \in ds =>
       w.dir = od \/ w.dir \in lk \/ \E u \in Others(R, v.id) : NeedsDir(u) /\ u.dir = w.dir

NewEntry(v, ck) == v \in VersionEntry /\ NeedsDir(v) /\ v.dir = ck /\ v.id <= ck /\ v.time <= ck
Renamed(inl, ds, v, od, inl2, ds2) ==
  /\ inl2 = IF v.small THEN inl \cup {v.id} ELSE inl \ {v.id}
  /\ ds2 = (ds \ {od}) \cup (IF v.small THEN {} ELSE {v.dir})

\* RenameData keeps the journal and its data in agreement.
LEMMA RenameOK ==
  ASSUME NEW R, NEW inl, NEW ds, NEW lk, NEW ck, Journal(R, inl, ds, lk, ck),
         NEW v, NewEntry(v, ck), NEW od, NEW lk2, FreesOld(R, ds, lk, lk2, v, od),
         NEW inl2, NEW ds2, Renamed(inl, ds, v, od, inl2, ds2)
  PROVE  JournalOK(Put(R, v), inl2, ds2, lk2, ck + 1) /\ inl2 \subseteq Ids /\ ds2 \subseteq Ids
<1> DEFINE P == Put(R, v)
<1> USE DEF NewEntry, Renamed
<1>0. v.id \in Ids /\ v.dir \in Ids /\ v.type = "object" /\ v.small \in BOOLEAN
  BY EntryFields DEF NeedsDir
<1>1. R \subseteq VersionEntry /\ inl \subseteq Ids /\ ds \subseteq Ids /\ ck \in 1..MaxOps
      /\ OneOfEach(R) /\ Held(R, inl, ds) /\ Used(R, ds, lk) /\ Kinds(R, inl, ds) /\ Older(R, inl, ds, ck)
  BY DEF Journal, JournalOK
<1>2. inl2 \subseteq Ids /\ ds2 \subseteq Ids /\ P \subseteq VersionEntry
  BY <1>0, <1>1 DEF Put, Others
<1>a. v \in P /\ \A u \in P : u = v \/ (u \in R /\ u.id # v.id /\ u \in Others(R, v.id))
  BY DEF Put, Others
<1>b. \A u \in R : u.dir # ck /\ u.id # ck
  <2> SUFFICES ASSUME NEW u \in R PROVE u.dir # ck /\ u.id # ck
    OBVIOUS
  <2>1. u.dir < ck /\ u.dir \in Int /\ u.id < ck /\ u.id \in Int
    BY <1>1, EntryFields, Numbers DEF Older
  <2> QED BY <2>1, SMT
<1>c. ck \notin ds
  <2>1. \A x \in ds : x \in Int /\ x < ck
    BY <1>1, Numbers DEF Older
  <2> QED BY <2>1, SMT
<1>d. \A x : x # v.id => (x \in inl2 <=> x \in inl)
  OBVIOUS
<1>3. OneOfEach(P)
  BY <1>a, <1>1 DEF OneOfEach
<1>4. Held(P, inl2, ds2)
  <2> SUFFICES ASSUME NEW u \in P, NeedsDir(u) PROVE IF u.small THEN u.id \in inl2 ELSE u.dir \in ds2
    BY DEF Held
  <2>1. CASE u = v
    BY <2>1
  <2>2. CASE u # v
    <3>1. u \in R /\ u.id # v.id /\ (u.dir \in ds => u.dir # od)
      BY <2>2, <1>a DEF FreesOld
    <3> QED BY <3>1, <1>1, <1>d DEF Held
  <2> QED BY <2>1, <2>2
<1>5. Used(P, ds2, lk2)
  <2> SUFFICES ASSUME NEW d \in ds2 \ lk2 PROVE \E u \in P : NeedsDir(u) /\ u.dir = d
    BY DEF Used
  <2>1. CASE d = v.dir
    BY <2>1, <1>a
  <2>2. CASE d # v.dir
    <3>1. d \in ds \ lk /\ d # od
      BY <2>2 DEF FreesOld
    <3>2. PICK u \in R : NeedsDir(u) /\ u.dir = d
      BY <3>1, <1>1 DEF Used
    <3>3. CASE u.id = v.id
      BY <3>1, <3>2, <3>3 DEF Put, FreesOld
    <3>4. CASE u.id # v.id
      BY <3>2, <3>4 DEF Put, Others
    <3> QED BY <3>3, <3>4
  <2> QED BY <2>1, <2>2
<1>6. Kinds(P, inl2, ds2)
  <2>1. ASSUME NEW u \in P, NEW w \in P, u.type = "object", w.type = "object", u.dir = w.dir PROVE u.small = w.small
    BY <2>1, <1>a, <1>b, <1>1 DEF Kinds
  <2>2. ASSUME NEW u \in P, u.type = "object" PROVE (u.id \in inl2 => u.small) /\ (u.small => u.dir \notin ds2)
    <3>1. CASE u = v
      BY <3>1, <1>c
    <3>2. CASE u # v
      <4>1. u \in R /\ u.id # v.id /\ u.dir # ck
        BY <3>2, <1>a, <1>b
      <4> QED BY <4>1, <2>2, <1>1, <1>d DEF Kinds
    <3> QED BY <3>1, <3>2
  <2> QED BY <2>1, <2>2 DEF Kinds
<1>7. Older(P, inl2, ds2, ck + 1)
  <2>1. ck \in Int /\ ck <= ck
    BY <1>1, SMT, MaxOpsAssumption
  <2>2. Grows(R, inl, ds, ck, P, inl2, ds2)
    BY <1>1, <1>2, <1>a, <2>1 DEF Grows
  <2> HIDE DEF P
  <2> QED BY <2>2, OlderStep
<1> QED BY <1>2, <1>3, <1>4, <1>5, <1>6, <1>7 DEF JournalOK

\* An entry that is rewritten and refers to the data it referred to.
LEMMA UpdateOK ==
  ASSUME NEW R, NEW inl, NEW ds, NEW lk, NEW ck, Journal(R, inl, ds, lk, ck),
         NEW w \in R, NEW v \in VersionEntry, v.id = w.id, v.type = w.type, v.dir = w.dir, v.time = w.time,
         v.small = w.small, NeedsDir(v) <=> NeedsDir(w)
  PROVE  JournalOK(Put(R, v), inl, ds, lk, ck + 1)
<1> DEFINE P == Put(R, v)
<1>1. R \subseteq VersionEntry /\ inl \subseteq Ids /\ ds \subseteq Ids /\ ck \in 1..MaxOps
      /\ OneOfEach(R) /\ Held(R, inl, ds) /\ Used(R, ds, lk) /\ Kinds(R, inl, ds) /\ Older(R, inl, ds, ck)
  BY DEF Journal, JournalOK
<1>a. v \in P /\ \A u \in P : u = v \/ (u \in R /\ u.id # v.id)
  BY DEF Put, Others
<1>b. \A u \in R : u = w \/ u \in P
  BY <1>1 DEF Put, Others, OneOfEach
<1>3. OneOfEach(P)
  BY <1>a, <1>1 DEF OneOfEach
<1>4. Held(P, inl, ds)
  BY <1>a, <1>1 DEF Held
<1>5. Used(P, ds, lk)
  <2> SUFFICES ASSUME NEW d \in ds \ lk PROVE \E u \in P : NeedsDir(u) /\ u.dir = d
    BY DEF Used
  <2>1. PICK u \in R : NeedsDir(u) /\ u.dir = d
    BY <1>1 DEF Used
  <2> QED BY <2>1, <1>a, <1>b
<1>6. Kinds(P, inl, ds)
  <2>1. ASSUME NEW u \in P, NEW y \in P, u.type = "object", y.type = "object", u.dir = y.dir PROVE u.small = y.small
    BY SMTT(60), <2>1, <1>a, <1>1 DEF Kinds
  <2>2. ASSUME NEW u \in P, u.type = "object" PROVE (u.id \in inl => u.small) /\ (u.small => u.dir \notin ds)
    BY <2>2, <1>a, <1>1 DEF Kinds
  <2> QED BY <2>1, <2>2 DEF Kinds
<1>7. Older(P, inl, ds, ck + 1)
  <2>0. ck \in Int
    BY <1>1, SMT, MaxOpsAssumption
  <2>1. v.id \in Int /\ v.dir \in Int /\ v.time \in Int /\ ck \in Int
    BY <2>0, EntryFields, Numbers
  <2>2. v.id < ck /\ v.dir < ck /\ v.time < ck
    BY <1>1 DEF Older
  <2>3. v.id <= ck /\ v.dir <= ck /\ v.time <= ck
    BY <2>1, <2>2, SMT
  <2>4. Grows(R, inl, ds, ck, P, inl, ds)
    BY <1>1, <1>a, <2>3 DEF Grows
  <2> HIDE DEF P
  <2> QED BY <2>4, OlderStep
<1> QED BY <1>3, <1>4, <1>5, <1>6, <1>7 DEF JournalOK

\* The directory g that goes with the entry of id: none when the entry has no
\* data, or another entry needs the directory.
GivenUp(R, inl, id, g) ==
  \/ /\ g = NoDir
     /\ \A w \in R : w.id = id /\ NeedsDir(w) =>
          w.dir = NoDir \/ \E u \in Others(R, id) : NeedsDir(u) /\ u.dir = w.dir
  \/ \E w \in R : /\ w.id = id /\ w.type = "object" /\ g = w.dir
                  /\ id \in inl \/ ~\E u \in Others(R, id) : NeedsDir(u) /\ u.dir = g

\* What is left of an entry whose data goes: nothing, or an entry without data.
LeftOver(R, id, ck, x) ==
  /\ x \in VersionEntry /\ x.id = id /\ ~NeedsDir(x) /\ x.id <= ck /\ x.dir <= ck /\ x.time <= ck
  /\ x.type = "object" => \E w \in R : w.id = id /\ w.type = "object" /\ x.dir = w.dir /\ x.small = w.small

\* An entry whose data goes leaves the journal and its data in agreement.
LEMMA GiveUpOK ==
  ASSUME NEW R, NEW inl, NEW ds, NEW lk, NEW ck, Journal(R, inl, ds, lk, ck),
         NEW id, NEW g, GivenUp(R, inl, id, g), NEW X, \A x \in X : LeftOver(R, id, ck, x), \A x, y \in X : x = y,
         NEW inl2, inl2 = IF g = NoDir THEN inl ELSE inl \ {id}
  PROVE  JournalOK(Others(R, id) \cup X, inl2, ds \ {g}, lk, ck + 1)
<1> DEFINE P == Others(R, id) \cup X
           ds2 == ds \ {g}
<1>1. R \subseteq VersionEntry /\ inl \subseteq Ids /\ ds \subseteq Ids /\ ck \in 1..MaxOps
      /\ OneOfEach(R) /\ Held(R, inl, ds) /\ Used(R, ds, lk) /\ Kinds(R, inl, ds) /\ Older(R, inl, ds, ck)
  BY DEF Journal, JournalOK
<1>2. inl2 \subseteq inl /\ ds2 \subseteq ds /\ \A y \in inl : y # id => y \in inl2
  OBVIOUS
<1>a. \A u \in P : u \in X \/ (u \in R /\ u.id # id /\ u \in Others(R, id))
  BY DEF Others
<1>b. \A x \in X : x \in VersionEntry /\ x.id = id /\ ~NeedsDir(x)
  BY DEF LeftOver
<1>3. OneOfEach(P)
  BY <1>a, <1>b, <1>1 DEF OneOfEach
<1>c. \A u \in Others(R, id) : NeedsDir(u) /\ ~u.small => u.dir # g
  <2> SUFFICES ASSUME NEW u \in Others(R, id), NeedsDir(u), ~u.small, u.dir = g PROVE FALSE
    OBVIOUS
  <2>1. u \in R /\ u.dir \in ds /\ u.type = "object"
    BY <1>1 DEF Held, Others, NeedsDir
  <2>2. g # NoDir
    BY <2>1, <1>1 DEF Older
  <2>3. PICK w \in R : /\ w.id = id /\ w.type = "object" /\ g = w.dir
                       /\ id \in inl \/ ~\E y \in Others(R, id) : NeedsDir(y) /\ y.dir = g
    BY <2>2 DEF GivenUp
  <2>4. w.small
    BY <2>3, <1>1 DEF Kinds
  <2> QED BY <2>1, <2>3, <2>4, <1>1 DEF Kinds
<1>4. Held(P, inl2, ds2)
  <2> SUFFICES ASSUME NEW u \in P, NeedsDir(u) PROVE IF u.small THEN u.id \in inl2 ELSE u.dir \in ds2
    BY DEF Held
  <2>1. u \in R /\ u.id # id /\ u \in Others(R, id)
    BY <1>a, <1>b
  <2> QED BY <2>1, <1>2, <1>c, <1>1 DEF Held
<1>5. Used(P, ds2, lk)
  <2> SUFFICES ASSUME NEW d \in ds2 \ lk PROVE \E u \in P : NeedsDir(u) /\ u.dir = d
    BY DEF Used
  <2>1. d \in ds \ lk /\ d # g /\ d # NoDir
    BY <1>1 DEF Older
  <2>2. PICK u \in R : NeedsDir(u) /\ u.dir = d
    BY <2>1, <1>1 DEF Used
  <2>3. CASE u.id # id
    BY <2>2, <2>3 DEF Others
  <2>4. CASE u.id = id
    <3>1. CASE g = NoDir /\ \A w \in R : w.id = id /\ NeedsDir(w) =>
                 w.dir = NoDir \/ \E y \in Others(R, id) : NeedsDir(y) /\ y.dir = w.dir
      BY <3>1, <2>1, <2>2, <2>4
    <3>2. CASE \E w \in R : w.id = id /\ w.type = "object" /\ g = w.dir
      BY <3>2, <2>1, <2>2, <2>4, <1>1 DEF OneOfEach
    <3> QED BY <3>1, <3>2 DEF GivenUp
  <2> QED BY <2>3, <2>4
<1>d. \A u \in P : u.type = "object" =>
        \E w \in R : w.type = "object" /\ w.id = u.id /\ w.dir = u.dir /\ w.small = u.small
  <2> SUFFICES ASSUME NEW u \in P, u.type = "object"
               PROVE  \E w \in R : w.type = "object" /\ w.id = u.id /\ w.dir = u.dir /\ w.small = u.small
    OBVIOUS
  <2>1. CASE u \in X
    BY <2>1 DEF LeftOver
  <2> QED BY <2>1, <1>a
<1>6. Kinds(P, inl2, ds2)
  <2> HIDE DEF P, ds2
  <2>1. ASSUME NEW u \in P, NEW w \in P, u.type = "object", w.type = "object", u.dir = w.dir PROVE u.small = w.small
    <3>1. PICK a \in R : a.type = "object" /\ a.dir = u.dir /\ a.small = u.small
      BY <2>1, <1>d
    <3>2. PICK b \in R : b.type = "object" /\ b.dir = w.dir /\ b.small = w.small
      BY <2>1, <1>d
    <3> QED BY <2>1, <3>1, <3>2, <1>1 DEF Kinds
  <2>2. ASSUME NEW u \in P, u.type = "object" PROVE (u.id \in inl2 => u.small) /\ (u.small => u.dir \notin ds2)
    <3>1. PICK a \in R : a.type = "object" /\ a.id = u.id /\ a.dir = u.dir /\ a.small = u.small
      BY <2>2, <1>d
    <3> QED BY <3>1, <1>1, <1>2 DEF Kinds
  <2> QED BY <2>1, <2>2 DEF Kinds
<1>7. Older(P, inl2, ds2, ck + 1)
  <2>1. \A u \in P : u \in VersionEntry /\ (u \in R \/ (u.id <= ck /\ u.dir <= ck /\ u.time <= ck))
    BY <1>a, <1>1 DEF LeftOver
  <2>2. Grows(R, inl, ds, ck, P, inl2, ds2)
    BY <1>1, <1>2, <2>1 DEF Grows
  <2> HIDE DEF P, ds2
  <2> QED BY <2>2, OlderStep
<1> QED BY <1>3, <1>4, <1>5, <1>6, <1>7 DEF JournalOK

\* CopyObject: a new entry for the data of src.
LEMMA CopyOK ==
  ASSUME NEW R, NEW inl, NEW ds, NEW lk, NEW ck, Journal(R, inl, ds, lk, ck),
         NEW src \in R, NeedsDir(src), NEW v \in VersionEntry, NeedsDir(v), v.id = ck, v.time = ck,
         v.dir = src.dir, v.small = src.small,
         NEW inl2, inl2 = IF src.id \in inl THEN inl \cup {ck} ELSE inl
  PROVE  JournalOK(Put(R, v), inl2, ds, lk, ck + 1)
<1> DEFINE P == Put(R, v)
<1>1. R \subseteq VersionEntry /\ inl \subseteq Ids /\ ds \subseteq Ids /\ ck \in 1..MaxOps
      /\ OneOfEach(R) /\ Held(R, inl, ds) /\ Used(R, ds, lk) /\ Kinds(R, inl, ds) /\ Older(R, inl, ds, ck)
  BY DEF Journal, JournalOK
<1>a. v \in P /\ \A u \in P : u = v \/ (u \in R /\ u.id # v.id)
  BY DEF Put, Others
<1>b. ck \notin inl /\ \A u \in R : u.id # ck
  <2>1. \A x \in inl : x \in Int /\ x < ck
    BY <1>1, Numbers DEF Older
  <2>2. \A u \in R : u.id \in Int /\ u.id < ck
    BY <1>1, Numbers, EntryFields DEF Older
  <2>3. ck \notin inl
    BY <2>1, SMT
  <2> SUFFICES ASSUME NEW u \in R PROVE u.id # ck
    BY <2>3
  <2>4. u.id \in Int /\ u.id < ck
    BY <2>2
  <2> QED BY <2>4, SMT
<1>c. \A u \in R : u \in P
  BY <1>b DEF Put, Others
<1>d. \A x : x # ck => (x \in inl2 <=> x \in inl)
  OBVIOUS
<1>3. OneOfEach(P)
  BY <1>a, <1>1 DEF OneOfEach
<1>4. Held(P, inl2, ds)
  BY <1>a, <1>1, <1>d DEF Held
<1>5. Used(P, ds, lk)
  BY <1>1, <1>c DEF Used
<1>e. src.type = "object" /\ v.type = "object"
  BY DEF NeedsDir
<1>6. Kinds(P, inl2, ds)
  <2>1. ASSUME NEW u \in P, NEW w \in P, u.type = "object", w.type = "object", u.dir = w.dir PROVE u.small = w.small
    BY <2>1, <1>a, <1>e, <1>1 DEF Kinds
  <2>2. ASSUME NEW u \in P, u.type = "object" PROVE (u.id \in inl2 => u.small) /\ (u.small => u.dir \notin ds)
    <3>1. CASE u = v
      BY <3>1, <1>b, <1>e, <1>1 DEF Kinds
    <3>2. CASE u # v
      BY <3>2, <2>2, <1>a, <1>b, <1>d, <1>1 DEF Kinds
    <3> QED BY <3>1, <3>2
  <2> QED BY <2>1, <2>2 DEF Kinds
<1>7. Older(P, inl2, ds, ck + 1)
  <2>1. ck \in Int /\ ck <= ck /\ ck \in Ids
    BY <1>1, SMT, MaxOpsAssumption DEF Ids
  <2>2. src.dir < ck /\ src.dir \in Int
    BY <1>1, EntryFields, Numbers DEF Older
  <2>3. v.dir <= ck
    BY <2>1, <2>2, SMT
  <2>4. inl2 \subseteq Ids /\ \A x \in inl2 : x \in inl \/ x <= ck
    BY <1>1, <2>1
  <2>5. \A u \in P : u \in VersionEntry /\ (u \in R \/ (u.id <= ck /\ u.dir <= ck /\ u.time <= ck))
    BY <1>a, <1>1, <2>1, <2>3
  <2>6. Grows(R, inl, ds, ck, P, inl2, ds)
    BY <2>4, <2>5 DEF Grows
  <2> HIDE DEF P
  <2> QED BY <2>6, OlderStep
<1> QED BY <1>3, <1>4, <1>5, <1>6, <1>7 DEF JournalOK
-----------------------------------------------------------------------------
(* xlStorage.DeleteVersion.                                                   *)

\* What an operation at time clock must leave behind.
After(vs, inl, ds, lk) ==
  /\ vs \in Seq(VersionEntry) /\ Distinct(vs) /\ inl \subseteq Ids /\ ds \subseteq Ids /\ lk \subseteq Ids
  /\ JournalOK(Range(vs), inl, ds, lk, clock + 1)
  /\ mode = "off" => \A v \in Range(vs) : v.id = Null

\* The requests of the object layer.
DeleteFI(fi) ==
  /\ fi.id \in Ids /\ fi.id <= clock /\ fi.deleted \in BOOLEAN /\ fi.mark \in BOOLEAN
  /\ fi.purge \in {"", "PENDING", "COMPLETE"} /\ fi.tier \in {"", "pending", "complete"}
  /\ mode = "off" => ~fi.deleted
  /\ fi.tier = "pending" => \A v \in Range(versions) : v.id = fi.id => v.tier = "" /\ v.type = "object"
Updates(fi) == IF fi.purge = "" THEN fi.mark ELSE fi.purge # "COMPLETE"

\* What the invariant says before an operation.
LEMMA Now ==
  ASSUME XLIInv, clock <= MaxOps
  PROVE  /\ Journal(Range(versions), inline, dirs, leaked, clock) /\ versions \in Seq(VersionEntry)
         /\ Distinct(versions) /\ Range(versions) \subseteq VersionEntry /\ clock \in Ids /\ clock \in Int
         /\ inline \subseteq Ids /\ dirs \subseteq Ids /\ leaked \subseteq Ids /\ clock > 0
<1>1. clock \in 1..MaxOps /\ clock \in Ids /\ clock \in Int /\ clock > 0
  BY SMT, MaxOpsAssumption DEF XLIInv, XLTypeOK, Ids
<1>2. Range(versions) \subseteq VersionEntry
  BY RangeIn DEF XLIInv, XLTypeOK
<1> QED BY <1>1, <1>2 DEF XLIInv, XLTypeOK, Journal, OneEntryPerVersion, Distinct

\* The delete marker of a request.
LEMMA MarkerOK ==
  ASSUME XLIInv, clock <= MaxOps, NEW fi, DeleteFI(fi)
  PROVE  /\ Marker(fi) \in VersionEntry /\ Marker(fi).id = fi.id /\ Marker(fi).type = "delete"
         /\ Marker(fi).time = clock /\ Marker(fi).dir = NoDir /\ ~NeedsDir(Marker(fi))
         /\ LeftOver(Range(versions), fi.id, clock, Marker(fi))
<1>1. clock \in Ids /\ NoDir \in Ids /\ NoDir <= clock /\ clock <= clock
  BY Now, Numbers, SMT
<1>2. /\ Marker(fi) \in VersionEntry /\ Marker(fi).id = fi.id /\ Marker(fi).type = "delete"
      /\ Marker(fi).time = clock /\ Marker(fi).dir = NoDir
  BY <1>1 DEF Marker, VersionEntry, DeleteFI
<1>3. ~NeedsDir(Marker(fi))
  BY <1>2 DEF NeedsDir
<1> QED BY <1>1, <1>2, <1>3 DEF LeftOver, DeleteFI

\* The entries that DeleteVersion rewrites.
LEMMA Purged ==
  ASSUME NEW v \in VersionEntry, NEW p \in {"", "PENDING"}
  PROVE  LET w == [v EXCEPT !.purge = p]
         IN w \in VersionEntry /\ w.id = v.id /\ w.type = v.type /\ w.dir = v.dir /\ w.time = v.time
            /\ w.small = v.small /\ w.tier = v.tier /\ w.restored = v.restored
BY DEF VersionEntry

\* A drive without the object is in agreement.
LEMMA EmptyOK == ASSUME NEW lk, NEW ck PROVE JournalOK({}, {}, {}, lk, ck)
BY DEF JournalOK, OneOfEach, Held, Used, Kinds, Older

\* SharedDataDirCount looks at the entries with another id.
LEMMA SharedIs ==
  ASSUME NEW vs, NEW id, NEW d
  PROVE  SharedDataDir(vs, id, d) <=>
           ((id = Null \/ id \notin inline) /\ \E u \in Others(Range(vs), id) : NeedsDir(u) /\ u.dir = d)
BY DEF SharedDataDir, Others

\* What DeleteVersion does to the entries.
Hist(fi, vs) ==
  /\ \A v \in Range(versions) : v.id # fi.id => Has(vs, v.id)
  /\ Has(versions, fi.id) /\ Updates(fi) => Has(vs, fi.id)
  /\ Has(versions, fi.id) /\ fi.tier # "" /\ (\A v \in Range(versions) : v.id = fi.id => v.type = "object") => Has(vs, fi.id)
  /\ ~Has(versions, fi.id) => Range(vs) = Put(Range(versions), Marker(fi))
  /\ Has(versions, fi.id) /\ ~Updates(fi) /\ fi.tier = "" /\ ~fi.deleted => Range(vs) = Others(Range(versions), fi.id)

\* The two results of DeleteVersion.
LEMMA ResultFields == ASSUME NEW r, NEW a, NEW b, r = [vs |-> a, dir |-> b] PROVE r.vs = a /\ r.dir = b
OBVIOUS

\* xlStorage.DeleteVersion: what it leaves on the drive, and what it does to the entries.
LEMMA DeleteOK ==
  ASSUME XLIInv, clock <= MaxOps, NEW fi, DeleteFI(fi), DriveDeleteVersion(fi)
  PROVE  After(versions', inline', dirs', leaked) /\ Hist(fi, versions')
<1> DEFINE R == Range(versions)
           id == fi.id
           i == Place(versions, id)
           v == versions[i]
           res == DeleteVersion(fi)
           gone == IF fi.tier = "pending" THEN NoDir ELSE res.dir
<1>0. /\ Journal(R, inline, dirs, leaked, clock) /\ versions \in Seq(VersionEntry) /\ Distinct(versions)
      /\ R \subseteq VersionEntry /\ clock \in Ids /\ inline \subseteq Ids /\ dirs \subseteq Ids /\ leaked \subseteq Ids
      /\ OneOfEach(R) /\ NoDir \notin dirs
  BY Now DEF Journal, JournalOK, Older
<1>m. mode = "off" => \A u \in R : u.id = Null
  BY DEF XLIInv
<1>d. /\ fi.deleted \/ Has(versions, fi.id)
      /\ versions' = res.vs
      /\ res.vs = <<>> => inline' = {} /\ dirs' = {}
      /\ res.vs # <<>> => inline' = (IF gone = NoDir THEN inline ELSE inline \ {id}) /\ dirs' = dirs \ {gone}
  BY DEF DriveDeleteVersion
<1>g. (fi.tier = "pending" => gone = NoDir) /\ (fi.tier # "pending" => gone = res.dir)
  OBVIOUS
<1> HIDE DEF res, gone
<1>n. \A u \in R : u.id # id => u \in Others(R, id)
  BY DEF Others
<1>k. dirs \ {NoDir} = dirs
  BY <1>0
<1>a. CASE ~Has(versions, id)
  <2>1. res = [vs |-> Append(versions, Marker(fi)), dir |-> NoDir]
    BY <1>a, <1>d DEF DeleteVersion, res
  <2>2. res.vs = Append(versions, Marker(fi)) /\ res.dir = NoDir /\ gone = NoDir
    BY <2>1, <1>g, ResultFields
  <2>m. Marker(fi) \in VersionEntry /\ Marker(fi).id = id
    BY MarkerOK
  <2>3. res.vs \in Seq(VersionEntry) /\ Distinct(res.vs) /\ Range(res.vs) = Put(R, Marker(fi)) /\ res.vs # <<>>
    BY <2>2, <2>m, <1>a, <1>0, Appended
  <2>4. inline' = inline /\ dirs' = dirs
    BY <1>d, <1>k, <2>2, <2>3
  <2>5. GivenUp(R, inline, id, NoDir)
    BY <1>a DEF GivenUp, Has
  <2>6. JournalOK(Others(R, id) \cup {Marker(fi)}, inline, dirs \ {NoDir}, leaked, clock + 1)
    BY <2>5, <1>0, MarkerOK, GiveUpOK
  <2>7. JournalOK(Range(res.vs), inline, dirs, leaked, clock + 1)
    BY <2>6, <2>3, <2>m, <1>k DEF Put
  <2>8. mode = "off" => FALSE
    BY <1>a, <1>d DEF DeleteFI
  <2>9. After(versions', inline', dirs', leaked)
    BY <2>3, <2>4, <2>7, <2>8, <1>0, <1>d DEF After
  <2>10. \A u \in R : u.id # id => u \in Range(versions')
    BY <2>3, <2>m, <1>d DEF Put, Others
  <2> QED BY <2>3, <2>9, <2>10, <1>a, <1>d DEF Hist, Has
<1>b. CASE Has(versions, id)
  <2>1. i \in DOMAIN versions /\ v.id = id /\ v \in R /\ v \in VersionEntry
    BY <1>b, <1>0, PlaceFound
  <2>u. \A u \in R : u.id = id => u = v
    BY <2>1, <1>0 DEF OneOfEach
  <2>p. \A w : w.id = v.id => w.id = versions[i].id
    OBVIOUS
  <2> HIDE DEF i, v, id
  <2>2. CASE Updates(fi)
    <3>1. PICK w : w = [v EXCEPT !.purge = fi.purge]
      OBVIOUS
    <3>2. fi.purge \in {"", "PENDING"}
      BY <2>2 DEF Updates, DeleteFI
    <3>3. w \in VersionEntry /\ w.id = v.id /\ w.type = v.type /\ w.dir = v.dir /\ w.time = v.time
          /\ w.small = v.small /\ w.tier = v.tier /\ w.restored = v.restored
      BY <3>1, <3>2, <2>1, Purged
    <3>v. PICK vs : vs = [versions EXCEPT ![i] = w]
      OBVIOUS
    <3>4. res = [vs |-> vs, dir |-> NoDir]
      BY <3>1, <3>v, <2>2, <1>b DEF DeleteVersion, Updates, i, v, id, res
    <3>5. res.vs = vs /\ gone = NoDir
      BY <3>4, <1>g, ResultFields
    <3>6. vs \in Seq(VersionEntry) /\ Distinct(vs) /\ Range(vs) = Put(R, w) /\ vs # <<>>
      BY <3>v, <3>3, <2>1, <1>0, Replaced DEF v
    <3>7. inline' = inline /\ dirs' = dirs
      BY <1>d, <1>k, <3>5, <3>6
    <3>8. NeedsDir(w) <=> NeedsDir(v)
      BY <3>3 DEF NeedsDir
    <3>9. JournalOK(Put(R, w), inline, dirs, leaked, clock + 1)
      BY <3>3, <3>8, <2>1, <1>0, UpdateOK
    <3>10. mode = "off" => \A u \in Put(R, w) : u.id = Null
      BY <1>m, <3>3, <2>1 DEF Put, Others
    <3>11. After(versions', inline', dirs', leaked)
      BY <3>5, <3>6, <3>7, <3>9, <3>10, <1>0, <1>d DEF After
    <3>12. \A u \in R : Has(versions', u.id)
      BY <3>5, <3>6, <3>3, <2>u, <1>d DEF Put, Others, Has, OneOfEach
    <3> QED BY <3>11, <3>12, <2>1, <2>2, <1>b DEF Hist, id
  <2>3. CASE ~Updates(fi) /\ v.type = "delete"
    <3>1. res = [vs |-> Dropped(versions, i), dir |-> NoDir]
      BY <2>3, <1>b DEF DeleteVersion, Updates, i, v, id, res
    <3>2. res.vs = Dropped(versions, i) /\ gone = NoDir
      BY <3>1, <1>g, ResultFields
    <3>3. res.vs \in Seq(VersionEntry) /\ Distinct(res.vs) /\ Range(res.vs) = Others(R, id)
      BY <3>2, <2>1, <1>0, Removed DEF v
    <3>4. GivenUp(R, inline, id, NoDir)
      BY <2>3, <2>u DEF GivenUp, NeedsDir
    <3>5. JournalOK(Others(R, id) \cup {}, inline, dirs \ {NoDir}, leaked, clock + 1)
      BY <3>4, <1>0, GiveUpOK
    <3>6. JournalOK(Range(res.vs), inline', dirs', leaked, clock + 1) /\ inline' \subseteq Ids /\ dirs' \subseteq Ids
      <4>1. CASE res.vs = <<>>
        <5>1. Range(res.vs) = {}
          BY <4>1, <3>3, RangeIn
        <5> QED BY <4>1, <5>1, <1>d, EmptyOK
      <4>2. CASE res.vs # <<>>
        BY <4>2, <3>5, <3>3, <3>2, <1>k, <1>0, <1>d
      <4> QED BY <4>1, <4>2
    <3>7. mode = "off" => \A u \in Others(R, id) : u.id = Null
      BY <1>m DEF Others
    <3>8. After(versions', inline', dirs', leaked)
      BY <3>3, <3>6, <3>7, <1>0, <1>d DEF After
    <3>9. \A u \in R : u.id # id => Has(versions', u.id)
      BY <3>3, <1>n, <1>d DEF Has
    <3>10. v.type # "object" /\ v.id = id /\ v \in R
      BY <2>1, <2>3
    <3> QED BY <3>3, <3>8, <3>9, <3>10, <2>3, <1>b, <1>d DEF Hist, id
  <2>4. CASE ~Updates(fi) /\ v.type = "object" /\ fi.tier # ""
    <3>t. fi.tier \in {"pending", "complete"} /\ (v.restored /\ fi.tier # "complete") \in BOOLEAN
      BY <2>4 DEF DeleteFI
    <3>r. PICK r \in BOOLEAN : r = (v.restored /\ fi.tier # "complete")
      BY <3>t
    <3>1. PICK w : w = [v EXCEPT !.tier = fi.tier, !.restored = r]
      OBVIOUS
    <3>3. w \in VersionEntry /\ w.id = v.id /\ w.type = v.type /\ w.dir = v.dir /\ w.time = v.time
          /\ w.small = v.small /\ w.tier = fi.tier /\ w.restored = r
      <4>1. PICK t \in {"pending", "complete"} : t = fi.tier
        BY <3>t
      <4>2. w = [v EXCEPT !.tier = t, !.restored = r]
        BY <3>1, <4>1
      <4>3. w \in VersionEntry /\ w.id = v.id /\ w.type = v.type /\ w.dir = v.dir /\ w.time = v.time
            /\ w.small = v.small /\ w.tier = t /\ w.restored = r
        BY <4>2, <2>1 DEF VersionEntry
      <4> QED BY <4>1, <4>3
    <3>2. PICK vs : vs = [versions EXCEPT ![i] = w]
      OBVIOUS
    <3>4. res = [vs |-> vs, dir |-> IF SharedDataDir(vs, id, v.dir) THEN NoDir ELSE v.dir]
      BY <3>1, <3>2, <3>r, <2>4, <1>b DEF DeleteVersion, Updates, i, v, id, res
    <3>5. res.vs = vs /\ res.dir = IF SharedDataDir(vs, id, v.dir) THEN NoDir ELSE v.dir
      BY <3>4, ResultFields
    <3>6. vs \in Seq(VersionEntry) /\ Distinct(vs) /\ Range(vs) = Put(R, w) /\ vs # <<>>
      BY <3>2, <3>3, <2>1, <1>0, Replaced DEF v
    <3>7. mode = "off" => \A u \in Put(R, w) : u.id = Null
      BY <1>m, <3>3, <2>1 DEF Put, Others
    <3>8. \A u \in R : Has(versions', u.id)
      BY <3>5, <3>6, <3>3, <2>u, <1>d DEF Put, Others, Has, OneOfEach
    <3>9. JournalOK(Put(R, w), inline', dirs', leaked, clock + 1) /\ inline' \subseteq Ids /\ dirs' \subseteq Ids
      <4>1. CASE fi.tier = "pending"
        <5>1. v.tier = ""
          BY <4>1, <2>1 DEF DeleteFI, id
        <5>2. NeedsDir(w) /\ NeedsDir(v)
          BY <5>1, <4>1, <3>3, <2>4 DEF NeedsDir
        <5>3. inline' = inline /\ dirs' = dirs
          BY <4>1, <1>d, <1>g, <1>k, <3>5, <3>6
        <5> QED BY <5>2, <5>3, <3>3, <2>1, <1>0, UpdateOK
      <4>2. CASE fi.tier = "complete"
        <5>1. gone = IF SharedDataDir(vs, id, v.dir) THEN NoDir ELSE v.dir
          BY <4>2, <3>5, <1>g
        <5>2. Put(R, w) = Others(R, id) \cup {w} /\ w.id = id
          BY <3>3, <2>1 DEF Put
        <5>3. SharedDataDir(vs, id, v.dir) <=>
                 ((id = Null \/ id \notin inline) /\ \E u \in Others(R, id) : NeedsDir(u) /\ u.dir = v.dir)
          <6>1. Others(Range(vs), id) = Others(R, id)
            BY <5>2, <3>6 DEF Others
          <6> QED BY <6>1, SharedIs
        <5>4. GivenUp(R, inline, id, gone)
          BY <5>1, <5>3, <2>1, <2>4, <2>u DEF GivenUp
        <5>5. w.id <= clock /\ w.dir <= clock /\ w.time <= clock
          <6>1. v.id < clock /\ v.dir < clock /\ v.time < clock
            BY <2>1, <1>0 DEF Journal, JournalOK, Older
          <6>2. v.id \in Int /\ v.dir \in Int /\ v.time \in Int /\ clock \in Int
            BY <2>1, <1>0, EntryFields, Numbers
          <6>3. v.id <= clock /\ v.dir <= clock /\ v.time <= clock
            BY <6>1, <6>2, SMT
          <6> QED BY <6>3, <3>3
        <5>6. LeftOver(R, id, clock, w)
          BY <5>5, <3>3, <3>r, <2>1, <2>4, <4>2 DEF LeftOver, NeedsDir
        <5>7. PICK inl2 : inl2 = IF gone = NoDir THEN inline ELSE inline \ {id}
          OBVIOUS
        <5>8. JournalOK(Others(R, id) \cup {w}, inl2, dirs \ {gone}, leaked, clock + 1)
          BY <5>4, <5>6, <5>7, <1>0, GiveUpOK
        <5>9. inline' = inl2 /\ dirs' = dirs \ {gone}
          BY <5>7, <3>5, <3>6, <1>d
        <5>10. inl2 \subseteq Ids /\ dirs \ {gone} \subseteq Ids
          BY <5>7, <1>0
        <5> QED BY <5>2, <5>8, <5>9, <5>10
      <4> QED BY <4>1, <4>2, <3>t
    <3>10. After(versions', inline', dirs', leaked)
      BY <3>5, <3>6, <3>7, <3>9, <1>0, <1>d DEF After
    <3> QED BY <3>8, <3>10, <2>1, <2>4, <1>b DEF Hist, id
  <2>5. CASE ~Updates(fi) /\ v.type = "object" /\ fi.tier = ""
    <3>1. PICK X : X = IF fi.deleted THEN {Marker(fi)} ELSE {}
      OBVIOUS
    <3>2. PICK ws : ws = Dropped(versions, i)
      OBVIOUS
    <3>3. PICK vs : vs = IF fi.deleted THEN Append(ws, Marker(fi)) ELSE ws
      OBVIOUS
    <3>4. res = [vs |-> vs, dir |-> IF SharedDataDir(ws, id, v.dir) THEN NoDir ELSE v.dir]
      BY <3>2, <3>3, <2>5, <1>b DEF DeleteVersion, Updates, i, v, id, res
    <3>5. res.vs = vs /\ gone = IF SharedDataDir(ws, id, v.dir) THEN NoDir ELSE v.dir
      BY <3>4, <2>5, <1>g, ResultFields
    <3>6. ws \in Seq(VersionEntry) /\ Distinct(ws) /\ Range(ws) = Others(R, id)
      BY <3>2, <2>1, <1>0, Removed DEF v
    <3>m. Marker(fi) \in VersionEntry /\ Marker(fi).id = id
      BY MarkerOK DEF id
    <3>7. vs \in Seq(VersionEntry) /\ Distinct(vs) /\ Range(vs) = Others(R, id) \cup X
      <4>1. CASE fi.deleted
        <5>1. ~Has(ws, Marker(fi).id)
          BY <3>6, <3>m DEF Has, Others
        <5>2. vs = Append(ws, Marker(fi))
          BY <4>1, <3>3
        <5>3. vs \in Seq(VersionEntry) /\ Distinct(vs) /\ Range(vs) = Put(Others(R, id), Marker(fi))
          BY <5>1, <5>2, <3>6, <3>m, Appended
        <5>4. Put(Others(R, id), Marker(fi)) = Others(R, id) \cup X
          BY <4>1, <3>1, <3>m DEF Put, Others
        <5> QED BY <5>3, <5>4
      <4>2. CASE ~fi.deleted
        <5>1. vs = ws /\ X = {}
          BY <4>2, <3>1, <3>3
        <5>2. Others(R, id) \cup X = Others(R, id)
          BY <5>1
        <5> QED BY <5>1, <5>2, <3>6
      <4> QED BY <4>1, <4>2
    <3>8. SharedDataDir(ws, id, v.dir) <=>
            ((id = Null \/ id \notin inline) /\ \E u \in Others(R, id) : NeedsDir(u) /\ u.dir = v.dir)
      <4>1. Others(Range(ws), id) = Others(R, id)
        BY <3>6 DEF Others
      <4> QED BY <4>1, SharedIs
    <3>9. GivenUp(R, inline, id, gone)
      BY <3>5, <3>8, <2>1, <2>5, <2>u DEF GivenUp
    <3>10. /\ \A x \in X : LeftOver(R, id, clock, x)
           /\ \A x, y \in X : x = y
      BY <3>1, MarkerOK DEF id
    <3>11. PICK inl2 : inl2 = IF gone = NoDir THEN inline ELSE inline \ {id}
      OBVIOUS
    <3>12. JournalOK(Others(R, id) \cup X, inl2, dirs \ {gone}, leaked, clock + 1)
      BY <3>9, <3>10, <3>11, <1>0, GiveUpOK
    <3>13. inl2 \subseteq Ids /\ dirs \ {gone} \subseteq Ids
      BY <3>11, <1>0
    <3>14. JournalOK(Range(vs), inline', dirs', leaked, clock + 1) /\ inline' \subseteq Ids /\ dirs' \subseteq Ids
      <4>1. CASE vs = <<>>
        <5>1. Range(vs) = {}
          BY <4>1, <3>7, RangeIn
        <5> QED BY <4>1, <5>1, <3>5, <1>d, EmptyOK
      <4>2. CASE vs # <<>>
        <5>1. inline' = inl2 /\ dirs' = dirs \ {gone}
          BY <4>2, <3>5, <3>11, <1>d
        <5> QED BY <5>1, <3>7, <3>12, <3>13
      <4> QED BY <4>1, <4>2
    <3>15. mode = "off" => \A u \in Range(vs) : u.id = Null
      BY <1>m, <3>1, <3>7 DEF Others, DeleteFI
    <3>16. After(versions', inline', dirs', leaked)
      BY <3>5, <3>7, <3>14, <3>15, <1>0, <1>d DEF After
    <3>17. \A u \in R : u.id # id => Has(versions', u.id)
      BY <3>5, <3>7, <1>n, <1>d DEF Has
    <3>18. ~fi.deleted => Range(versions') = Others(R, id)
      BY <3>1, <3>5, <3>7, <1>d
    <3> QED BY <3>16, <3>17, <3>18, <2>5, <1>b DEF Hist, id
  <2> QED BY <2>1, <2>2, <2>3, <2>4, <2>5, EntryFields
<1> QED BY <1>a, <1>b
-----------------------------------------------------------------------------
(* The operations.                                                            *)

\* xlStorage.RenameData of an entry with a new data directory.
LEMMA RenameDataOK ==
  ASSUME XLIInv, clock <= MaxOps, NEW v \in VersionEntry, NeedsDir(v), v.dir = clock, v.id <= clock, v.time <= clock,
         RenameData(v), NEW lk \in SUBSET Ids, leaked \subseteq lk, mode = "off" => v.id = Null,
         v.id # Null => \A w \in Range(versions) : w.id = v.id /\ NeedsDir(w) /\ ~w.small => w.dir \in lk
  PROVE  After(versions', inline', dirs', lk) /\ Range(versions') = Put(Range(versions), v)
<1> DEFINE R == Range(versions)
           od == OldDataDir(v)
<1>0. /\ Journal(R, inline, dirs, leaked, clock) /\ versions \in Seq(VersionEntry) /\ Distinct(versions)
      /\ R \subseteq VersionEntry /\ OneOfEach(R) /\ NoDir \notin dirs /\ Kinds(R, inline, dirs)
  BY Now DEF Journal, JournalOK, Older
<1>f. Found(Null) = {w \in R : w.id = Null}
  <2>1. Null # AnyId
    BY Numbers
  <2> QED BY <2>1 DEF Found
<1>s. \A d : SharedDataDir(versions, Null, d) <=> \E u \in Others(R, Null) : NeedsDir(u) /\ u.dir = d
  BY DEF SharedDataDir, Others
<1>1. /\ \A u \in Others(R, v.id) : NeedsDir(u) /\ u.dir \in dirs => u.dir # od
      /\ \A w \in R : w.id = v.id /\ NeedsDir(w) /\ w.dir \in dirs =>
            w.dir = od \/ w.dir \in lk \/ \E u \in Others(R, v.id) : NeedsDir(u) /\ u.dir = w.dir
  <2>1. CASE v.id = Null /\ \E w \in Found(Null) : w.type = "object" /\ ~SharedDataDir(versions, Null, w.dir)
    <3>1. PICK w \in Found(Null) : w.type = "object" /\ ~SharedDataDir(versions, Null, w.dir)
      BY <2>1
    <3>2. \A u \in Found(Null) : u = w
      BY <1>0, <1>f DEF OneOfEach
    <3>3. (CHOOSE u \in Found(Null) : TRUE) = w
      <4>1. (CHOOSE u \in Found(Null) : TRUE) \in Found(Null)
        OBVIOUS
      <4> QED BY <4>1, <3>2
    <3>4. od = w.dir
      BY <2>1, <3>3 DEF OldDataDir
    <3>5. \A u \in R : u.id = v.id => u = w
      BY <2>1, <3>2, <1>f
    <3>6. ~\E u \in Others(R, v.id) : NeedsDir(u) /\ u.dir = w.dir
      BY <2>1, <3>1, <1>s
    <3> HIDE DEF od
    <3> QED BY <3>4, <3>5, <3>6
  <2>2. CASE ~(v.id = Null /\ \E w \in Found(Null) : w.type = "object" /\ ~SharedDataDir(versions, Null, w.dir))
    <3>1. od = NoDir
      BY <2>2 DEF OldDataDir
    <3> HIDE DEF od
    <3>2. \A u \in Others(R, v.id) : NeedsDir(u) /\ u.dir \in dirs => u.dir # od
      BY <3>1, <1>0
    <3> SUFFICES ASSUME NEW w \in R, w.id = v.id, NeedsDir(w), w.dir \in dirs
                 PROVE  w.dir \in lk \/ \E u \in Others(R, v.id) : NeedsDir(u) /\ u.dir = w.dir
      BY <3>2
    <3>3. ~w.small /\ w.type = "object"
      BY <1>0 DEF Kinds, NeedsDir
    <3>4. CASE v.id # Null
      BY <3>3, <3>4
    <3>5. CASE v.id = Null
      BY <3>3, <3>5, <2>2, <1>f, <1>s
    <3> QED BY <3>4, <3>5
  <2> QED BY <2>1, <2>2
<1>2. PICK inl2 : inl2 = IF v.small THEN inline \cup {v.id} ELSE inline \ {v.id}
  OBVIOUS
<1>3. PICK ds2 : ds2 = (dirs \ {od}) \cup (IF v.small THEN {} ELSE {v.dir})
  OBVIOUS
<1>4. inline' = inl2 /\ dirs' = ds2 /\ versions' = AddVersion(versions, v)
  BY <1>2, <1>3 DEF RenameData
<1> HIDE DEF od
<1>f2. FreesOld(R, dirs, leaked, lk, v, od)
  BY <1>1 DEF FreesOld
<1>5. JournalOK(Put(R, v), inl2, ds2, lk, clock + 1) /\ inl2 \subseteq Ids /\ ds2 \subseteq Ids
  <2>1. NewEntry(v, clock) /\ Renamed(inline, dirs, v, od, inl2, ds2)
    BY <1>2, <1>3 DEF NewEntry, Renamed
  <2>2. Journal(R, inline, dirs, leaked, clock)
    BY <1>0
  <2> QED BY ONLY <1>f2, <2>1, <2>2, RenameOK
<1>6. versions' \in Seq(VersionEntry) /\ Distinct(versions') /\ Range(versions') = Put(R, v)
  BY <1>0, <1>4, Added
<1>7. mode = "off" => \A u \in Put(R, v) : u.id = Null
  BY DEF Put, Others, XLIInv
<1> QED BY <1>4, <1>5, <1>6, <1>7 DEF After

\* An operation that leaves the drive in agreement preserves the invariant.
LEMMA AfterIInv ==
  ASSUME XLIInv, After(versions', inline', dirs', leaked'), mode' = mode, NEW op, NEW id, Done(op, id),
         op \in {"put", "copy", "delete", "tag", "tier"}, id \in Ids \cup {AnyId}
  PROVE  XLIInv'
<1>1. clock' \in 1..MaxOps + 1 /\ clock' = clock + 1
  BY SMT, MaxOpsAssumption DEF XLIInv, XLTypeOK, Done
<1>2. did' \in [op : {"none", "put", "copy", "delete", "tag", "tier", "mode"}, id : Ids \cup {AnyId}]
  BY DEF Done
<1>3. XLTypeOK'
  BY <1>1, <1>2 DEF XLIInv, XLTypeOK, After
<1>4. OneEntryPerVersion'
  BY DEF After, Distinct, OneEntryPerVersion
<1>5. JournalOK(Range(versions'), inline', dirs', leaked', clock')
  BY <1>1 DEF After
<1>6. mode' = "off" => \A v \in Range(versions') : v.id = Null
  BY DEF After
<1>7. JournalOK(Range(versions), inline, dirs, leaked, clock)'
  BY <1>5 DEF JournalOK, OneOfEach, Held, Used, Kinds, Older, Range
<1> QED BY <1>3, <1>4, <1>6, <1>7 DEF XLIInv, Range

\* What a step must not do to the history of the object.
KeepStep ==
  \A v \in Range(versions) :
    v.id # Null /\ ~Has(versions', v.id) => did'.op = "delete" /\ did'.id = v.id
HideStep == did'.op = "delete" /\ did'.id = AnyId /\ mode # "suspended" => ~Visible'

\* ToFileInfo finds an entry of the journal.
LEMMA FoundIn ==
  ASSUME NEW id PROVE \A v \in Found(id) : v \in Range(versions) /\ (id # AnyId => v.id = id)
BY DEF Found

\* A journal in which one entry was put has the ids it had.
LEMMA PutKeeps ==
  ASSUME NEW v, Range(versions') = Put(Range(versions), v)
  PROVE  \A u \in Range(versions) : Has(versions', u.id)
<1> SUFFICES ASSUME NEW u \in Range(versions) PROVE \E y \in Range(versions') : y.id = u.id
  BY DEF Has
<1>1. CASE u.id = v.id
  <2>1. v \in Range(versions')
    BY DEF Put
  <2> QED BY <1>1, <2>1
<1>2. CASE u.id # v.id
  <2>1. u \in Range(versions')
    BY <1>2 DEF Put, Others
  <2> QED BY <2>1
<1> QED BY <1>1, <1>2

\* What is recorded of an operation.
LEMMA DidIs == ASSUME NEW op, NEW id, Done(op, id) PROVE did'.op = op /\ did'.id = id /\ clock <= MaxOps
BY DEF Done

\* putObject: the data of the null version it replaces goes unless it is shared.
LEMMA PutObjectOK ==
  ASSUME XLIInv, NEW small \in BOOLEAN, PutObject(small) PROVE XLIInv' /\ KeepStep /\ HideStep
<1>1. PICK id : id = IF mode = "enabled" THEN clock ELSE Null
  OBVIOUS
<1>2. PICK v : v = [type |-> "object", id |-> id, dir |-> clock, time |-> clock,
                    small |-> small, tier |-> "", restored |-> FALSE, purge |-> "", tagged |-> FALSE]
  OBVIOUS
<1>3. RenameData(v) /\ Done("put", id) /\ leaked' = leaked /\ mode' = mode
  BY <1>1, <1>2 DEF PutObject
<1>4. did'.op = "put" /\ clock <= MaxOps
  BY <1>3, DidIs
<1>5. clock \in Ids /\ Null \in Ids /\ clock <= clock /\ Null <= clock
  BY <1>4, Now, Numbers, SMT
<1>6. v \in VersionEntry /\ NeedsDir(v) /\ v.dir = clock /\ v.id = id /\ v.time = clock /\ id \in Ids
  BY <1>1, <1>2, <1>5 DEF VersionEntry, NeedsDir
<1>7. v.id <= clock /\ v.time <= clock
  BY <1>1, <1>5, <1>6
<1>8. \A w \in Range(versions) : w.id # clock
  <2> SUFFICES ASSUME NEW w \in Range(versions) PROVE w.id # clock
    OBVIOUS
  <2>1. w.id < clock /\ w.id \in Int
    BY <1>4, Now, EntryFields, Numbers DEF Journal, JournalOK, Older
  <2> QED BY <2>1, SMT
<1>9. /\ v.id # Null => \A w \in Range(versions) : w.id = v.id /\ NeedsDir(w) /\ ~w.small => w.dir \in leaked
      /\ mode = "off" => v.id = Null
  BY <1>1, <1>6, <1>8
<1>10. leaked \in SUBSET Ids
  BY <1>4, Now
<1>11. After(versions', inline', dirs', leaked) /\ Range(versions') = Put(Range(versions), v)
  BY <1>3, <1>4, <1>6, <1>7, <1>9, <1>10, RenameDataOK
<1>12. XLIInv'
  BY <1>3, <1>6, <1>11, AfterIInv
<1>13. KeepStep
  BY <1>11, PutKeeps DEF KeepStep
<1> QED BY <1>4, <1>12, <1>13 DEF HideStep

\* The entry of a copy.
LEMMA CopyEntry ==
  ASSUME NEW src \in VersionEntry, NEW ck \in Ids
  PROVE  LET v == [src EXCEPT !.id = ck, !.time = ck]
         IN v \in VersionEntry /\ v.id = ck /\ v.time = ck /\ v.dir = src.dir /\ v.small = src.small
            /\ v.type = src.type /\ v.tier = src.tier /\ v.restored = src.restored
BY DEF VersionEntry

\* CopyObject onto itself shares the data directory of its source.
LEMMA CopyVersionOnlyOK ==
  ASSUME XLIInv, NEW id, CopyVersionOnly(id) PROVE XLIInv' /\ KeepStep /\ HideStep
<1>1. PICK src \in Found(id) :
       /\ src.type = "object" /\ src.tier = "" /\ src.purge = ""
       /\ versions' = AddVersion(versions, [src EXCEPT !.id = clock, !.time = clock])
       /\ inline' = IF src.id \in inline THEN inline \cup {clock} ELSE inline
  BY DEF CopyVersionOnly
<1>2. Done("copy", clock) /\ dirs' = dirs /\ leaked' = leaked /\ mode' = mode /\ mode = "enabled"
  BY DEF CopyVersionOnly
<1>3. did'.op = "copy" /\ clock <= MaxOps
  BY <1>2, DidIs
<1>4. /\ Journal(Range(versions), inline, dirs, leaked, clock) /\ versions \in Seq(VersionEntry) /\ Distinct(versions)
      /\ Range(versions) \subseteq VersionEntry /\ clock \in Ids
      /\ inline \subseteq Ids /\ dirs \subseteq Ids /\ leaked \subseteq Ids
  BY <1>3, Now
<1>5. src \in Range(versions) /\ src \in VersionEntry
  BY <1>4, FoundIn
<1>6. PICK v : v = [src EXCEPT !.id = clock, !.time = clock]
  OBVIOUS
<1>7. v \in VersionEntry /\ v.id = clock /\ v.time = clock /\ v.dir = src.dir /\ v.small = src.small
      /\ v.type = src.type /\ v.tier = src.tier
  BY <1>4, <1>5, <1>6, CopyEntry
<1>8. NeedsDir(v) /\ NeedsDir(src)
  BY <1>1, <1>7 DEF NeedsDir
<1>9. versions' \in Seq(VersionEntry) /\ Distinct(versions') /\ Range(versions') = Put(Range(versions), v)
  BY <1>1, <1>4, <1>6, <1>7, Added
<1>10. PICK inl2 : inl2 = IF src.id \in inline THEN inline \cup {clock} ELSE inline
  OBVIOUS
<1>11. JournalOK(Put(Range(versions), v), inl2, dirs, leaked, clock + 1)
  BY <1>4, <1>5, <1>7, <1>8, <1>10, CopyOK
<1>12. inl2 \subseteq Ids /\ inline' = inl2
  BY <1>1, <1>4, <1>10
<1>13. After(versions', inline', dirs', leaked')
  BY <1>2, <1>4, <1>9, <1>11, <1>12 DEF After
<1>14. XLIInv'
  BY <1>2, <1>4, <1>13, AfterIInv
<1>15. KeepStep
  BY <1>9, PutKeeps DEF KeepStep
<1> QED BY <1>3, <1>14, <1>15 DEF HideStep

\* A marker with the latest time hides the object.
LEMMA HiddenByMarker ==
  ASSUME XLIInv, clock <= MaxOps, NEW x, x.type = "delete", x.time = clock, Range(versions') = Put(Range(versions), x)
  PROVE  ~Visible'
<1> SUFFICES ASSUME NEW v \in Range(versions'), \A w \in Range(versions') : w.time <= v.time, v.type = "object" PROVE FALSE
  BY DEF Visible, Found, Range
<1>1. x \in Range(versions') /\ v \in Range(versions) /\ v \in VersionEntry
  BY Now DEF Put, Others
<1>2. clock <= v.time /\ v.time < clock /\ v.time \in Int /\ clock \in Int
  BY <1>1, Now, EntryFields, Numbers DEF Journal, JournalOK, Older
<1> QED BY <1>2, SMT

\* An object without versions is not found.
LEMMA HiddenByRemoval == ASSUME Range(versions') = {} PROVE ~Visible'
BY DEF Visible, Found, Range

\* The entries are older than the clock.
LEMMA Times ==
  ASSUME XLIInv, clock <= MaxOps
  PROVE  /\ clock \in Ids /\ Null \in Ids /\ clock <= clock /\ Null <= clock
         /\ \A w \in Range(versions) : w.id # clock /\ w.id <= clock
<1>1. clock \in Ids /\ Null \in Ids /\ clock \in Int /\ clock > 0 /\ Null = 0
  BY Now, Numbers
<1>2. clock <= clock /\ Null <= clock
  BY <1>1, SMT
<1> SUFFICES ASSUME NEW w \in Range(versions) PROVE w.id # clock /\ w.id <= clock
  BY <1>1, <1>2
<1>3. w.id < clock /\ w.id \in Int
  BY Now, EntryFields, Numbers DEF Journal, JournalOK, Older
<1> QED BY <1>1, <1>3, SMT

\* A delete without versionId hides the object, when versioning is not suspended.
LEMMA DeleteHidesOK ==
  ASSUME XLIInv, clock <= MaxOps, NEW fi, DeleteFI(fi), Hist(fi, versions'), mode # "suspended",
         fi.id = IF mode = "enabled" THEN clock ELSE Null, fi.purge = "", fi.tier = "",
         mode = "off" => ~fi.mark /\ ~fi.deleted, fi.deleted \/ Has(versions, fi.id)
  PROVE  ~Visible'
<1>1. CASE mode = "enabled"
  <2>1. ~Has(versions, fi.id)
    BY <1>1, Times DEF Has
  <2>2. Range(versions') = Put(Range(versions), Marker(fi))
    BY <2>1 DEF Hist
  <2> QED BY <2>2, MarkerOK, HiddenByMarker
<1>2. CASE mode = "off"
  <2>1. Range(versions') = Others(Range(versions), fi.id)
    BY <1>2 DEF Hist, Updates
  <2>2. Range(versions') = {}
    BY <2>1, <1>2 DEF XLIInv, Others
  <2> QED BY <2>2, HiddenByRemoval
<1> QED BY <1>1, <1>2 DEF XLIInv, XLTypeOK

\* DeleteObject, of a version or without versionId.
LEMMA DeleteObjectOK ==
  ASSUME XLIInv, NEW id \in Ids \cup {AnyId}, NEW purge \in {"", "PENDING", "COMPLETE"}, DeleteObject(id, purge)
  PROVE  XLIInv' /\ KeepStep /\ HideStep
<1>1. PICK goi \in Found(id) : DriveDeleteVersion(DeleteRequest(goi, id, purge))
  BY DEF DeleteObject
<1>2. PICK di : di = IF purge = "PENDING" THEN Null ELSE id
  OBVIOUS
<1>3. Done("delete", di) /\ leaked' = leaked /\ mode' = mode /\ (purge # "" => id # AnyId /\ mode = "enabled")
  BY <1>2 DEF DeleteObject
<1>4. did'.op = "delete" /\ did'.id = di /\ clock <= MaxOps
  BY <1>3, DidIs
<1>5. PICK fi : fi = DeleteRequest(goi, id, purge)
  OBVIOUS
<1>6. /\ fi.id = IF id # AnyId THEN id ELSE IF mode = "enabled" THEN clock ELSE Null
      /\ fi.mark = (mode # "off" /\ (id = AnyId \/ purge = "PENDING"))
      /\ fi.deleted = (mode # "off" /\ (id = AnyId \/ goi.type = "delete"))
      /\ fi.purge = purge /\ fi.tier = ""
  BY <1>5 DEF DeleteRequest
<1>7. goi \in Range(versions) /\ (id # AnyId => goi.id = id)
  BY FoundIn
<1>8. /\ clock \in Ids /\ Null \in Ids /\ clock <= clock /\ Null <= clock
      /\ \A w \in Range(versions) : w.id # clock /\ w.id <= clock
  BY <1>4, Times
<1>9. fi.id \in Ids /\ fi.id <= clock
  BY <1>6, <1>7, <1>8
<1>10. DeleteFI(fi)
  BY <1>6, <1>9 DEF DeleteFI
<1>11. After(versions', inline', dirs', leaked) /\ Hist(fi, versions')
  BY <1>1, <1>4, <1>5, <1>10, DeleteOK
<1>12. di \in Ids \cup {AnyId}
  BY <1>2, <1>8
<1>13. XLIInv'
  BY <1>3, <1>11, <1>12, AfterIInv
<1>14. KeepStep
  <2> SUFFICES ASSUME NEW v \in Range(versions), v.id # Null, ~Has(versions', v.id) PROVE di = v.id
    BY <1>4 DEF KeepStep
  <2>1. v.id = fi.id /\ Has(versions, fi.id)
    BY <1>11 DEF Hist, Has
  <2>2. id # AnyId /\ fi.id = id
    BY <2>1, <1>6, <1>8
  <2>3. purge # "PENDING"
    BY <2>1, <1>6, <1>11 DEF Hist, Updates
  <2> QED BY <2>1, <2>2, <2>3, <1>2
<1>15. HideStep
  <2> SUFFICES ASSUME di = AnyId, mode # "suspended" PROVE ~Visible'
    BY <1>4 DEF HideStep
  <2>1. id = AnyId /\ purge = ""
    BY <1>2, <1>3, Numbers
  <2>2. fi.id = IF mode = "enabled" THEN clock ELSE Null
    BY <2>1, <1>6
  <2>3. fi.purge = "" /\ fi.tier = "" /\ (mode = "off" => ~fi.mark /\ ~fi.deleted)
    BY <2>1, <1>6
  <2>4. fi.deleted \/ Has(versions, fi.id)
    BY <1>1, <1>5 DEF DriveDeleteVersion
  <2> QED BY <2>2, <2>3, <2>4, <1>4, <1>10, <1>11, DeleteHidesOK
<1> QED BY <1>13, <1>14, <1>15

\* DeleteObjects sends an entry of its own making.
LEMMA DeleteObjectsOK ==
  ASSUME XLIInv, NEW id \in Ids \cup {AnyId}, DeleteObjects(id)
  PROVE  XLIInv' /\ KeepStep /\ HideStep
<1>1. PICK fi : fi = IF id = AnyId
                     THEN [id |-> IF mode = "enabled" THEN clock ELSE Null, mark |-> FALSE,
                           deleted |-> mode # "off", purge |-> "", tier |-> ""]
                     ELSE [id |-> id, mark |-> FALSE, deleted |-> FALSE, purge |-> "", tier |-> ""]
  OBVIOUS
<1>2. DriveDeleteVersion(fi) /\ Done("delete", id) /\ leaked' = leaked /\ mode' = mode
  BY <1>1 DEF DeleteObjects
<1>3. did'.op = "delete" /\ did'.id = id /\ clock <= MaxOps
  BY <1>2, DidIs
<1>4. /\ fi.id = IF id # AnyId THEN id ELSE IF mode = "enabled" THEN clock ELSE Null
      /\ fi.mark = FALSE /\ fi.deleted = (mode # "off" /\ id = AnyId) /\ fi.purge = "" /\ fi.tier = ""
  <2>1. CASE id = AnyId
    <3>1. fi = [id |-> IF mode = "enabled" THEN clock ELSE Null, mark |-> FALSE,
                deleted |-> mode # "off", purge |-> "", tier |-> ""]
      BY <1>1, <2>1
    <3> QED BY <2>1, <3>1
  <2>2. CASE id # AnyId
    <3>1. fi = [id |-> id, mark |-> FALSE, deleted |-> FALSE, purge |-> "", tier |-> ""]
      BY <1>1, <2>2
    <3> QED BY <2>2, <3>1
  <2> QED BY <2>1, <2>2
<1>5. fi.deleted \/ Has(versions, fi.id)
  BY <1>2 DEF DriveDeleteVersion
<1>8. /\ clock \in Ids /\ Null \in Ids /\ clock <= clock /\ Null <= clock
      /\ \A w \in Range(versions) : w.id # clock /\ w.id <= clock
  BY <1>3, Times
<1>9. fi.id \in Ids /\ fi.id <= clock
  BY <1>4, <1>5, <1>8 DEF Has
<1>10. DeleteFI(fi)
  BY <1>4, <1>9 DEF DeleteFI
<1>11. After(versions', inline', dirs', leaked) /\ Hist(fi, versions')
  BY <1>2, <1>3, <1>10, DeleteOK
<1>13. XLIInv'
  BY <1>2, <1>11, AfterIInv
<1>14. KeepStep
  <2> SUFFICES ASSUME NEW v \in Range(versions), v.id # Null, ~Has(versions', v.id) PROVE id = v.id
    BY <1>3 DEF KeepStep
  <2>1. v.id = fi.id
    BY <1>11 DEF Hist, Has
  <2> QED BY <2>1, <1>4, <1>8
<1>15. HideStep
  <2> SUFFICES ASSUME id = AnyId, mode # "suspended" PROVE ~Visible'
    BY <1>3 DEF HideStep
  <2>2. fi.id = IF mode = "enabled" THEN clock ELSE Null
    BY <1>4
  <2>3. fi.purge = "" /\ fi.tier = "" /\ (mode = "off" => ~fi.mark /\ ~fi.deleted)
    BY <1>4
  <2> QED BY <2>2, <2>3, <1>3, <1>5, <1>10, <1>11, DeleteHidesOK
<1> QED BY <1>13, <1>14, <1>15

\* The entry that PutObjectTags writes.
LEMMA Tagged ==
  ASSUME NEW v \in VersionEntry
  PROVE  LET w == [v EXCEPT !.tagged = TRUE]
         IN w \in VersionEntry /\ w.id = v.id /\ w.type = v.type /\ w.dir = v.dir /\ w.time = v.time
            /\ w.small = v.small /\ w.tier = v.tier /\ w.restored = v.restored
BY DEF VersionEntry

\* PutObjectTags rewrites an entry in its place.
LEMMA PutObjectTagsOK ==
  ASSUME XLIInv, NEW id \in Ids \cup {AnyId}, PutObjectTags(id)
  PROVE  XLIInv' /\ KeepStep /\ HideStep
<1>1. PICK fi \in Found(id) :
        /\ CanUpdate(versions, fi.id)
        /\ versions' = [versions EXCEPT ![Place(versions, fi.id)] = [fi EXCEPT !.tagged = TRUE]]
  BY DEF PutObjectTags
<1>2. Done("tag", id) /\ inline' = inline /\ dirs' = dirs /\ leaked' = leaked /\ mode' = mode
  BY DEF PutObjectTags
<1>3. did'.op = "tag" /\ clock <= MaxOps
  BY <1>2, DidIs
<1>4. /\ Journal(Range(versions), inline, dirs, leaked, clock) /\ versions \in Seq(VersionEntry) /\ Distinct(versions)
      /\ Range(versions) \subseteq VersionEntry
      /\ inline \subseteq Ids /\ dirs \subseteq Ids /\ leaked \subseteq Ids
  BY <1>3, Now
<1>5. fi \in Range(versions) /\ fi \in VersionEntry
  BY <1>4, FoundIn
<1>6. PICK w : w = [fi EXCEPT !.tagged = TRUE]
  OBVIOUS
<1>7. w \in VersionEntry /\ w.id = fi.id /\ w.type = fi.type /\ w.dir = fi.dir /\ w.time = fi.time
      /\ w.small = fi.small /\ w.tier = fi.tier /\ w.restored = fi.restored
  BY <1>5, <1>6, Tagged
<1>8. PICK i : i = Place(versions, fi.id)
  OBVIOUS
<1>9. i \in DOMAIN versions /\ versions[i].id = fi.id
  BY <1>1, <1>4, <1>8, PlaceFound DEF CanUpdate
<1>10. versions' = [versions EXCEPT ![i] = w]
  BY <1>1, <1>6, <1>8
<1>11. versions' \in Seq(VersionEntry) /\ Distinct(versions') /\ Range(versions') = Put(Range(versions), w)
  BY <1>4, <1>7, <1>9, <1>10, Replaced
<1>12. NeedsDir(w) <=> NeedsDir(fi)
  BY <1>7 DEF NeedsDir
<1>13. JournalOK(Put(Range(versions), w), inline, dirs, leaked, clock + 1)
  BY <1>4, <1>5, <1>7, <1>12, UpdateOK
<1>14. mode = "off" => \A u \in Put(Range(versions), w) : u.id = Null
  BY <1>5, <1>7 DEF XLIInv, Put, Others
<1>15. After(versions', inline', dirs', leaked')
  BY <1>2, <1>4, <1>11, <1>13, <1>14 DEF After
<1>16. XLIInv'
  BY <1>2, <1>15, AfterIInv
<1>17. KeepStep
  BY <1>11, PutKeeps DEF KeepStep
<1> QED BY <1>3, <1>16, <1>17 DEF HideStep

\* The two steps of a transition differ in the entry they send to the drives.
LEMMA TransitionStepOK ==
  ASSUME XLIInv, NEW id \in Ids, NEW w \in Found(id), NEW t \in {"pending", "complete"},
         w.type = "object", t = "pending" => w.tier = "",
         DriveDeleteVersion([id |-> w.id, mark |-> FALSE, deleted |-> FALSE, purge |-> "", tier |-> t]),
         Done("tier", id), leaked' = leaked, mode' = mode
  PROVE  XLIInv' /\ KeepStep /\ HideStep
<1>1. PICK fi : fi = [id |-> w.id, mark |-> FALSE, deleted |-> FALSE, purge |-> "", tier |-> t]
  OBVIOUS
<1>2. fi.id = w.id /\ fi.mark = FALSE /\ fi.deleted = FALSE /\ fi.purge = "" /\ fi.tier = t
  BY <1>1
<1>3. did'.op = "tier" /\ clock <= MaxOps
  BY DidIs
<1>4. w \in Range(versions) /\ \A v \in Range(versions) : v.id = w.id => v = w
  BY <1>3, Now, FoundIn DEF Journal, JournalOK, OneOfEach
<1>5. w.id \in Ids /\ w.id <= clock
  BY <1>3, <1>4, Times, Now, EntryFields
<1>6. DeleteFI(fi)
  BY <1>2, <1>4, <1>5 DEF DeleteFI
<1>7. After(versions', inline', dirs', leaked) /\ Hist(fi, versions')
  BY <1>1, <1>3, <1>6, DeleteOK
<1>8. XLIInv'
  BY <1>7, AfterIInv
<1>9. Has(versions', fi.id)
  BY <1>2, <1>4, <1>7 DEF Hist, Has
<1>10. KeepStep
  BY <1>7, <1>9 DEF Hist, KeepStep
<1> QED BY <1>3, <1>8, <1>10 DEF HideStep

\* UpdateObjectVersion finds an object version and no delete marker.
LEMMA UpdatesObject ==
  ASSUME XLIInv, clock <= MaxOps, NEW id, CanUpdate(versions, id), NEW w \in Range(versions), w.id = id
  PROVE  w.type = "object"
<1>1. PICK i : i = Place(versions, id)
  OBVIOUS
<1>2. i \in DOMAIN versions /\ versions[i].id = id /\ versions[i] \in Range(versions)
  BY <1>1, Now, PlaceFound DEF CanUpdate
<1>3. i \in 1..i
  BY <1>2, Now, SMT
<1>4. versions[i].type = "object"
  BY <1>1, <1>3 DEF CanUpdate
<1>5. w = versions[i]
  BY <1>2, Now DEF Journal, JournalOK, OneOfEach
<1> QED BY <1>4, <1>5

\* prepareTransition.
LEMMA TransitionPendingOK ==
  ASSUME XLIInv, NEW id \in Ids, TransitionPending(id) PROVE XLIInv' /\ KeepStep /\ HideStep
BY TransitionStepOK DEF TransitionPending

\* transitionObject, and executeExpiry of a restored copy.
LEMMA TransitionCompleteOK ==
  ASSUME XLIInv, NEW id \in Ids, TransitionComplete(id) PROVE XLIInv' /\ KeepStep /\ HideStep
<1>1. PICK fi \in Found(id) :
        /\ CanUpdate(versions, fi.id)
        /\ DriveDeleteVersion([id |-> fi.id, mark |-> FALSE, deleted |-> FALSE, purge |-> "", tier |-> "complete"])
  BY DEF TransitionComplete
<1>2. Done("tier", id) /\ leaked' = leaked /\ mode' = mode
  BY DEF TransitionComplete
<1>3. fi.type = "object"
  BY <1>1, <1>2, DidIs, FoundIn, UpdatesObject
<1> QED BY <1>1, <1>2, <1>3, TransitionStepOK

\* The entry of a restored copy.
LEMMA RestoredEntry ==
  ASSUME NEW v \in VersionEntry, NEW ck \in Ids
  PROVE  LET w == [v EXCEPT !.dir = ck, !.restored = TRUE]
         IN w \in VersionEntry /\ w.id = v.id /\ w.type = v.type /\ w.dir = ck /\ w.time = v.time
            /\ w.small = v.small /\ w.restored
BY DEF VersionEntry

\* restoreTransitionedObject gives the version a new data directory.
LEMMA RestoreOK ==
  ASSUME XLIInv, NEW id \in Ids, Restore(id) PROVE XLIInv' /\ KeepStep /\ HideStep
<1>1. PICK fi \in Found(id) :
        /\ fi.tier = "complete" /\ CanUpdate(versions, fi.id)
        /\ RenameData([fi EXCEPT !.dir = clock, !.restored = TRUE])
        /\ leaked' = IF fi.restored /\ ~fi.small /\ fi.id # Null THEN leaked \cup {fi.dir} ELSE leaked
  BY DEF Restore
<1>2. Done("tier", id) /\ mode' = mode
  BY DEF Restore
<1>3. did'.op = "tier" /\ clock <= MaxOps
  BY <1>2, DidIs
<1>4. /\ Range(versions) \subseteq VersionEntry /\ clock \in Ids /\ leaked \subseteq Ids
      /\ OneOfEach(Range(versions)) /\ clock \in Int
  BY <1>3, Now DEF Journal, JournalOK
<1>5. fi \in Range(versions) /\ fi \in VersionEntry /\ fi.type = "object"
  BY <1>1, <1>3, <1>4, FoundIn, UpdatesObject
<1>6. PICK v : v = [fi EXCEPT !.dir = clock, !.restored = TRUE]
  OBVIOUS
<1>7. v \in VersionEntry /\ v.id = fi.id /\ v.type = fi.type /\ v.dir = clock /\ v.time = fi.time
      /\ v.small = fi.small /\ v.restored
  BY <1>4, <1>5, <1>6, RestoredEntry
<1>8. NeedsDir(v) /\ RenameData(v)
  BY <1>1, <1>5, <1>6, <1>7 DEF NeedsDir
<1>9. v.id <= clock /\ v.time <= clock
  <2>1. v.id < clock /\ v.time < clock
    BY <1>3, <1>5, <1>7, Now DEF Journal, JournalOK, Older
  <2>2. v.id \in Int /\ v.time \in Int
    BY <1>7, EntryFields, Numbers
  <2> QED BY <1>4, <2>1, <2>2, SMT
<1>10. PICK lk : lk = IF fi.restored /\ ~fi.small /\ fi.id # Null THEN leaked \cup {fi.dir} ELSE leaked
  OBVIOUS
<1>11. lk \in SUBSET Ids /\ leaked \subseteq lk /\ leaked' = lk
  BY <1>1, <1>4, <1>5, <1>10, EntryFields
<1>12. \A w \in Range(versions) : w.id = v.id => w = fi
  BY <1>4, <1>5, <1>7 DEF OneOfEach
<1>13. v.id # Null => \A w \in Range(versions) : w.id = v.id /\ NeedsDir(w) /\ ~w.small => w.dir \in lk
  BY <1>1, <1>7, <1>10, <1>12 DEF NeedsDir
<1>14. mode = "off" => v.id = Null
  BY <1>5, <1>7 DEF XLIInv
<1>15. After(versions', inline', dirs', lk) /\ Range(versions') = Put(Range(versions), v)
  BY <1>3, <1>7, <1>8, <1>9, <1>11, <1>13, <1>14, RenameDataOK
<1>16. XLIInv'
  BY <1>2, <1>11, <1>15, AfterIInv
<1>17. KeepStep
  BY <1>15, PutKeeps DEF KeepStep
<1> QED BY <1>3, <1>16, <1>17 DEF HideStep

\* PutBucketVersioning touches no version; a bucket is never unversioned again.
LEMMA SetVersioningOK ==
  ASSUME XLIInv, NEW m \in {"enabled", "suspended"}, SetVersioning(m) PROVE XLIInv' /\ KeepStep /\ HideStep
<1>1. /\ mode' = m /\ Done("mode", AnyId)
      /\ versions' = versions /\ inline' = inline /\ dirs' = dirs /\ leaked' = leaked
  BY DEF SetVersioning
<1>2. did'.op = "mode" /\ did'.id = AnyId /\ clock <= MaxOps
  BY <1>1, DidIs
<1>3. clock' \in 1..MaxOps + 1 /\ clock' = clock + 1
  BY <1>1, SMT, MaxOpsAssumption DEF XLIInv, XLTypeOK, Done
<1>4. did' \in [op : {"none", "put", "copy", "delete", "tag", "tier", "mode"}, id : Ids \cup {AnyId}]
  BY <1>1 DEF Done
<1>5. XLTypeOK' /\ OneEntryPerVersion'
  BY <1>1, <1>3, <1>4 DEF XLIInv, XLTypeOK, OneEntryPerVersion
<1>6. Grows(Range(versions), inline, dirs, clock, Range(versions), inline, dirs)
  BY <1>2, Now DEF Grows
<1>7. Older(Range(versions), inline, dirs, clock + 1)
  BY <1>2, <1>6, Now, OlderStep
<1>8. JournalOK(Range(versions), inline, dirs, leaked, clock + 1)
  BY <1>7 DEF XLIInv, JournalOK
<1>9. JournalOK(Range(versions), inline, dirs, leaked, clock)'
  <2>1. JournalOK(Range(versions'), inline', dirs', leaked', clock')
    BY <1>1, <1>3, <1>8
  <2> QED BY <2>1 DEF JournalOK, OneOfEach, Held, Used, Kinds, Older, Range
<1>10. XLIInv'
  BY <1>1, <1>5, <1>9 DEF XLIInv
<1>11. KeepStep
  BY <1>1 DEF KeepStep, Has
<1> QED BY <1>2, <1>10, <1>11 DEF HideStep

\* Every operation keeps the invariant, the versions it does not name, and hides
\* the object when it is a delete without versionId.
LEMMA XLStepOK ==
  ASSUME XLIInv, XLNext PROVE XLIInv' /\ KeepStep /\ HideStep
<1>1. CASE \E small \in BOOLEAN : PutObject(small)
  BY <1>1, PutObjectOK
<1>2. ASSUME NEW id \in Ids \cup {AnyId}, CopyVersionOnly(id) PROVE XLIInv' /\ KeepStep /\ HideStep
  BY <1>2, CopyVersionOnlyOK
<1>3. ASSUME NEW id \in Ids \cup {AnyId}, NEW purge \in {"", "PENDING", "COMPLETE"}, DeleteObject(id, purge)
      PROVE  XLIInv' /\ KeepStep /\ HideStep
  BY <1>3, DeleteObjectOK
<1>4. ASSUME NEW id \in Ids \cup {AnyId}, DeleteObjects(id) PROVE XLIInv' /\ KeepStep /\ HideStep
  BY <1>4, DeleteObjectsOK
<1>5. ASSUME NEW id \in Ids \cup {AnyId}, PutObjectTags(id) PROVE XLIInv' /\ KeepStep /\ HideStep
  BY <1>5, PutObjectTagsOK
<1>6. ASSUME NEW id \in Ids, TransitionPending(id) PROVE XLIInv' /\ KeepStep /\ HideStep
  BY <1>6, TransitionPendingOK
<1>7. ASSUME NEW id \in Ids, TransitionComplete(id) PROVE XLIInv' /\ KeepStep /\ HideStep
  BY <1>7, TransitionCompleteOK
<1>8. ASSUME NEW id \in Ids, Restore(id) PROVE XLIInv' /\ KeepStep /\ HideStep
  BY <1>8, RestoreOK
<1>9. CASE \E m \in {"enabled", "suspended"} : SetVersioning(m)
  BY <1>9, SetVersioningOK
<1> QED BY <1>1, <1>2, <1>3, <1>4, <1>5, <1>6, <1>7, <1>8, <1>9 DEF XLNext

\* A drive without the object satisfies the invariant.
LEMMA XLInitOK == ASSUME XLInit PROVE XLIInv
<1>1. versions \in Seq(VersionEntry) /\ Range(versions) = {}
  <2>1. versions = <<>> /\ <<>> \in Seq(VersionEntry)
    BY SMT DEF XLInit
  <2> QED BY <2>1, RangeIn
<1>2. clock \in 1..MaxOps + 1
  BY SMT, MaxOpsAssumption DEF XLInit
<1>3. XLTypeOK
  BY <1>1, <1>2 DEF XLInit, XLTypeOK
<1>4. OneEntryPerVersion
  <2>1. DOMAIN versions = {}
    BY SMT DEF XLInit
  <2> QED BY <2>1 DEF OneEntryPerVersion
<1>5. JournalOK(Range(versions), inline, dirs, leaked, clock)
  BY <1>1, EmptyOK DEF XLInit
<1> QED BY <1>1, <1>3, <1>4, <1>5 DEF XLIInv

\* A step that changes nothing preserves the invariant.
LEMMA XLStutterOK == ASSUME XLIInv, UNCHANGED xlVars PROVE XLIInv'
<1>1. /\ versions' = versions /\ inline' = inline /\ dirs' = dirs /\ leaked' = leaked
      /\ mode' = mode /\ clock' = clock /\ did' = did
  BY DEF xlVars
<1>2. JournalOK(Range(versions'), inline', dirs', leaked', clock')
  BY <1>1 DEF XLIInv
<1>3. JournalOK(Range(versions), inline, dirs, leaked, clock)'
  BY <1>2 DEF JournalOK, OneOfEach, Held, Used, Kinds, Older, Range
<1> QED BY <1>1, <1>3 DEF XLIInv, XLTypeOK, OneEntryPerVersion

\* No sequence of operations breaks the invariant (xlMetaV2 and xlStorage).
THEOREM JournalInvariantHolds == XLSpec => []XLIInv
<1>1. XLInit => XLIInv
  BY XLInitOK
<1>2. XLIInv /\ [XLNext]_xlVars => XLIInv'
  BY XLStepOK, XLStutterOK
<1> QED BY <1>1, <1>2, PTL DEF XLSpec

\* After any number of operations the journal has one entry for an id, every version has its data,
\* shared directories included, and no other directory is left (AddVersion, DeleteVersion, RenameData,
\* SharedDataDirCount): XLIInv implies it.
THEOREM JournalSoundHolds == XLSpec => []JournalSound
<1>1. XLIInv => JournalSound
  BY DEF XLIInv, JournalSound, JournalOK, Held, Used, DataHeld, NoOrphanDir
<1> QED BY <1>1, JournalInvariantHolds, PTL

\* A version leaves the journal only when a request names it, and a delete without versionId hides
\* the object in a bucket whose versioning is not suspended (DeleteVersion, DeleteObject, DeleteObjects).
THEOREM HistoryKeptHolds == XLSpec => HistoryKept
<1>1. XLIInv /\ [XLNext]_xlVars =>
        [\A v \in Range(versions) :
           v.id # Null /\ ~Has(versions', v.id) => did'.op = "delete" /\ did'.id = v.id]_xlVars
  BY XLStepOK DEF KeepStep
<1>2. XLIInv /\ [XLNext]_xlVars =>
        [did'.op = "delete" /\ did'.id = AnyId /\ mode # "suspended" => ~Visible']_xlVars
  BY XLStepOK DEF HideStep
<1> QED BY <1>1, <1>2, JournalInvariantHolds, PTL DEF XLSpec, HistoryKept, VersionsKept, DeleteHides
=============================================================================
