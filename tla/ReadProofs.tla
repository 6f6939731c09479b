----------------------------- MODULE ReadProofs -----------------------------
(* TLAPS proofs about what a client is given: the read of an erasure coded    *)
(* object with missing or damaged shards (DegradedRead), and the requests on  *)
(* an object of the FS backend (FSObject).                                    *)
EXTENDS DegradedRead, FSObject, FiniteSetTheorems, TLAPS

(* Zenon is the default prover here; the steps that need arithmetic or the    *)
(* theory of functions and records cite SMT.                                  *)
USE Zenon

-----------------------------------------------------------------------------
(* Degraded reads.  The positions of preferReaders stay in step with the      *)
(* buffers, and whoever fails is counted in a trigger or in a shard.          *)

\* No drive is preferred, or every one that is usable (prefer is set for the
\* drives without a host name, and a set has only such drives or none).
AllOrNone == (\A d \in Positions : ~prefer[d]) \/ (\A d \in online : prefer[d])

\* What is wrong with the shards of a drive is the same for every part from
\* where it begins, and a drive that was given up is broken.
DamageLasts ==
  /\ \A p, q \in 1..NParts, d \in Positions :
       shards[p][d] # "good" /\ shards[q][d] # "good" => shards[p][d] = shards[q][d]
  /\ \A p \in 1..NParts, d \in Positions : shards[p][d] # "good" => d \in online \/ shards[p][d] = "broken"

\* The loop of preferReaders: what it has not looked at is as it was, and
\* between the preferred positions and there no reader is left.
Preferring ==
  at = "prefer" =>
    /\ \A j \in Positions : j >= looked => toBuf[j] = j /\ readers[j] = IF j \in online THEN j ELSE 0
    /\ \A j \in Positions : j >= nextPos /\ j < looked => (\A d \in Positions : ~prefer[d]) \/ readers[j] = 0

\* readerToBuf is in step with the readers, every drive has one position, and
\* a drive without one has failed.
InStep ==
  /\ \A i \in Positions : readers[i] # 0 => toBuf[i] = readers[i]
  /\ \A i, j \in Positions : readers[i] # 0 /\ readers[i] = readers[j] => i = j
  /\ at # "part" => \A d \in online \ Sick(part) : \E i \in Positions : readers[i] = d

\* Every position that was started and is not running any more has its shard in
\* the buffer, or no reader; the loop ends with enough shards or without readers.
Fetched ==
  /\ running # {} => at \in {"loop", "wait"}
  /\ at \in {"loop", "wait"} =>
       \A i \in Positions : IF i < index THEN i \notin running /\ readers[i] # 0 => bufs[readers[i]] = readers[i]
                            ELSE i \notin running
  /\ at = "wait" => CanDecode \/ index > NReaders

Trues(s) == {k \in 1..Len(s) : s[k] = TRUE}

\* What was fetched, what is being fetched and what is still to be triggered
\* together are no more than the shards needed.
Budget ==
  /\ Cardinality(Filled) <= DataBlocks
  /\ at \in {"loop", "wait"} => Cardinality(Filled) + Cardinality(running) + Cardinality(Trues(triggers)) <= DataBlocks

\* Damage that was met is on its way to Decode's error.
DamageKept ==
  at \notin {"part", "failed", "ended"} =>
    \A d \in Sick(part) : shards[part][d] # "broken" /\ (\A i \in Positions : readers[i] # d)
      => derr # "nil" \/ (at \in {"loop", "wait"} /\ shards[part][d] \in hurt)

ReadTypes ==
  /\ ReadTypeOK
  /\ shards \in [1..NParts -> [Positions -> ShardStates]] /\ prefer \in [Positions -> BOOLEAN]
  /\ derr \in {"nil", "missing", "corrupt"} /\ healStarted \in BOOLEAN

\* The inductive invariant.
ReadIInv ==
  /\ ReadTypes /\ AllOrNone /\ DamageLasts /\ Preferring /\ InStep /\ Fetched /\ Budget /\ DamageKept /\ ReadSound

-----------------------------------------------------------------------------
(* Counting triggers and shards.                                              *)

LEMMA PositionsFinite == IsFiniteSet(Positions) /\ NReaders \in Nat /\ DataBlocks \in Nat
  BY SMT, ReadAssumption, FS_Interval DEF Positions

\* The triggers of a channel that is full of them, as parallelReader.Read makes it.
LEMMA TruesAll ==
  ASSUME NEW s, s = [i \in 1..DataBlocks |-> TRUE]
  PROVE  s \in Seq(BOOLEAN) /\ Len(s) = DataBlocks /\ Cardinality(Trues(s)) = DataBlocks
<1>1. DataBlocks \in Nat
  BY PositionsFinite
<1>2. s \in Seq(BOOLEAN) /\ Len(s) = DataBlocks
  BY <1>1, SMT
<1>3. Trues(s) = 1..DataBlocks
  BY <1>1, <1>2, SMT DEF Trues
<1>4. Cardinality(1..DataBlocks) = DataBlocks
  BY <1>1, FS_Interval, SMT
<1> QED
  BY <1>2, <1>3, <1>4

LEMMA TruesFinite ==
  ASSUME NEW s \in Seq(BOOLEAN)
  PROVE  IsFiniteSet(Trues(s)) /\ Cardinality(Trues(s)) \in Nat
<1>1. IsFiniteSet(1..Len(s))
  BY SMT, FS_Interval
<1>2. Trues(s) \subseteq 1..Len(s)
  BY DEF Trues
<1> QED
  BY <1>1, <1>2, FS_Subset, FS_CardinalityType

\* A receive takes one trigger off, if it is one.
LEMMA TruesTail ==
  ASSUME NEW s \in Seq(BOOLEAN), s # <<>>
  PROVE  Cardinality(Trues(Tail(s))) = IF Head(s) THEN Cardinality(Trues(s)) - 1 ELSE Cardinality(Trues(s))
<1> DEFINE T == Trues(s) \ {1}
           f == [k \in T |-> k - 1]
<1>1. Len(s) \in Nat /\ Tail(s) \in Seq(BOOLEAN) /\ Len(Tail(s)) = Len(s) - 1 /\ Head(s) = s[1] /\ Len(s) > 0
  BY SMT
<1>2. \A k \in 1..Len(s) - 1 : Tail(s)[k] = s[k + 1]
  BY SMT
<1>3. f \in Bijection(T, Trues(Tail(s)))
  <2>1. f \in [T -> Trues(Tail(s))]
    BY <1>1, <1>2, SMT DEF Trues
  <2>2. \A a, b \in T : f[a] = f[b] => a = b
    BY <1>1, SMT DEF Trues
  <2>3. \A t \in Trues(Tail(s)) : \E a \in T : f[a] = t
    <3> SUFFICES ASSUME NEW t \in Trues(Tail(s)) PROVE \E a \in T : f[a] = t
      OBVIOUS
    <3>1. t + 1 \in T /\ t \in Nat
      BY <1>1, <1>2, SMT DEF Trues
    <3>2. f[t + 1] = t
      BY <3>1, SMT
    <3> QED
      BY <3>1, <3>2
  <2> QED
    BY <2>1, <2>2, <2>3, Zenon DEF Bijection, Injection, IsInjective, Surjection
<1>4. IsFiniteSet(Trues(s)) /\ Cardinality(Trues(s)) \in Nat
  BY TruesFinite
<1>5. Cardinality(Trues(Tail(s))) = Cardinality(T)
  <2>1. IsFiniteSet(T)
    BY <1>4, FS_RemoveElement
  <2> QED
    BY <2>1, <1>3, FS_Bijection, SMT DEF ExistsBijection
<1>6. (1 \in Trues(s) <=> s[1] = TRUE) /\ s[1] \in BOOLEAN
  BY <1>1, SMT DEF Trues
<1>7. CASE Head(s)
  BY <1>1, <1>4, <1>5, <1>6, <1>7, FS_RemoveElement
<1>8. CASE ~Head(s)
  <2>1. T = Trues(s)
    BY <1>1, <1>6, <1>8, Zenon
  <2> QED
    BY <2>1, <1>5, <1>8
<1> QED
  BY <1>7, <1>8

\* A send adds one, if it is one.
LEMMA TruesAppend ==
  ASSUME NEW s \in Seq(BOOLEAN), NEW b \in BOOLEAN
  PROVE  Cardinality(Trues(Append(s, b))) = IF b THEN Cardinality(Trues(s)) + 1 ELSE Cardinality(Trues(s))
<1>1. Len(s) \in Nat /\ Len(Append(s, b)) = Len(s) + 1 /\ Append(s, b)[Len(s) + 1] = b
  BY SMT
<1>2. \A k \in 1..Len(s) : Append(s, b)[k] = s[k]
  BY SMT
<1>3. IsFiniteSet(Trues(s)) /\ Cardinality(Trues(s)) \in Nat
  BY TruesFinite
<1>4. CASE b
  <2>1. Trues(Append(s, b)) = Trues(s) \cup {Len(s) + 1}
    BY <1>1, <1>2, <1>4, SMT DEF Trues
  <2>2. Len(s) + 1 \notin Trues(s)
    BY <1>1, SMT DEF Trues
  <2> QED
    BY <2>1, <2>2, <1>3, <1>4, FS_AddElement
<1>5. CASE ~b
  <2>1. Trues(Append(s, b)) = Trues(s)
    BY <1>1, <1>2, <1>5, SMT DEF Trues
  <2> QED
    BY <2>1, <1>5
<1> QED
  BY <1>4, <1>5

LEMMA FilledFinite ==
  ASSUME NEW b
  PROVE  /\ IsFiniteSet({s \in Positions : b[s] # 0}) /\ Cardinality({s \in Positions : b[s] # 0}) \in Nat
  BY PositionsFinite, FS_Subset, FS_CardinalityType

\* One more shard is one more at most.
LEMMA FilledOneMore ==
  ASSUME NEW b, NEW c, NEW k \in Positions, \A s \in Positions : s # k => c[s] = b[s]
  PROVE  Cardinality({s \in Positions : c[s] # 0}) <= Cardinality({s \in Positions : b[s] # 0}) + 1
<1> DEFINE B == {s \in Positions : b[s] # 0}
           C == {s \in Positions : c[s] # 0}
<1>1. C \subseteq B \cup {k}
  OBVIOUS
<1>2. IsFiniteSet(B) /\ Cardinality(B) \in Nat
  BY FilledFinite
<1>3. IsFiniteSet(B \cup {k}) /\ Cardinality(B \cup {k}) <= Cardinality(B) + 1
  <2>1. CASE k \in B
    <3>1. B \cup {k} = B
      BY <2>1
    <3> HIDE DEF B
    <3> QED
      BY <1>2, <3>1, SMT
  <2>2. CASE k \notin B
    <3>1. IsFiniteSet(B \cup {k}) /\ Cardinality(B \cup {k}) = Cardinality(B) + 1
      BY <1>2, <2>2, FS_AddElement, Zenon
    <3> HIDE DEF B
    <3> QED
      BY <1>2, <3>1, SMT
  <2> QED
    BY <2>1, <2>2
<1>4. IsFiniteSet(C) /\ Cardinality(C) \in Nat
  BY FilledFinite
<1>5. Cardinality(C) <= Cardinality(B \cup {k})
  BY <1>1, <1>3, FS_Subset
<1>6. Cardinality(B \cup {k}) \in Nat
  BY <1>3, FS_CardinalityType
<1> QED
  BY <1>2, <1>3, <1>4, <1>5, <1>6, SMT

LEMMA RunningFinite ==
  ASSUME ReadTypes
  PROVE  IsFiniteSet(running) /\ Cardinality(running) \in Nat
  BY PositionsFinite, FS_Subset, FS_CardinalityType DEF ReadTypes, ReadTypeOK

-----------------------------------------------------------------------------
(* The steps of a read.                                                       *)

LEMMA ReadInitOK == ReadInit => ReadIInv
<1> SUFFICES ASSUME ReadInit PROVE ReadIInv
  OBVIOUS
<1> USE ReadAssumption
<1>0. PICK bad \in SUBSET Positions :
        /\ online \subseteq Positions /\ Positions \ online \subseteq bad
        /\ \E how \in [bad \cap online -> ShardStates \ {"good"}], since \in [bad \cap online -> 1..NParts] :
                shards = [p \in 1..NParts |-> [d \in Positions |->
                            IF d \in bad \cap online /\ p >= since[d] THEN how[d] ELSE "good"]]
  BY Zenon DEF ReadInit
<1>a. /\ part = 1 /\ block = 1 /\ looked = 1 /\ nextPos = 1
      /\ readers = [i \in Positions |-> 0] /\ toBuf = [i \in Positions |-> i]
      /\ triggers = <<>> /\ index = 1 /\ running = {} /\ bufs = [s \in Positions |-> 0]
      /\ hurt = {} /\ derr = "nil" /\ served = 0 /\ at = "part"
  BY Zenon DEF ReadInit
<1>1. PICK how \in [bad \cap online -> ShardStates \ {"good"}], since \in [bad \cap online -> 1..NParts] :
         shards = [p \in 1..NParts |-> [d \in Positions |->
                     IF d \in bad \cap online /\ p >= since[d] THEN how[d] ELSE "good"]]
  BY <1>0
<1>2. PICK hostless \in BOOLEAN : prefer = [d \in Positions |-> hostless /\ d \in online]
  BY DEF ReadInit
<1>3. ReadTypes
  <2>1. shards \in [1..NParts -> [Positions -> ShardStates]]
    BY <1>1 DEF ShardStates
  <2>2. prefer \in [Positions -> BOOLEAN]
    BY <1>2, Zenon
  <2>3. ReadTypeOK
    <3>1. at = "part" /\ triggers \in Seq(BOOLEAN) /\ Len(triggers) = 0
      BY <1>a, SMT
    <3> QED
      BY <1>0, <1>a, <3>1, SMT DEF ReadTypeOK, Positions
  <2> QED
    BY <1>a, <2>1, <2>2, <2>3, Zenon DEF ReadTypes, ReadInit
<1>4. AllOrNone
  BY <1>0, <1>2, Zenon DEF AllOrNone
<1>5. DamageLasts
  <2>1. \A p \in 1..NParts, d \in Positions : shards[p][d] # "good" => d \in bad \cap online /\ shards[p][d] = how[d]
    BY <1>1
  <2> QED
    BY <2>1 DEF DamageLasts
<1>6. Filled = {} /\ running = {}
  BY <1>a, SMT DEF Filled
<1>7. Cardinality(Filled) = 0
  BY <1>6, FS_EmptySet
<1>8. Preferring /\ InStep /\ Fetched /\ Budget /\ DamageKept
  <2>1. at = "part"
    BY <1>a
  <2>2. InStep /\ Fetched /\ Budget
    BY <1>a, <1>6, <1>7, SMT DEF InStep, Fetched, Budget
  <2> QED
    BY <2>1, <2>2, Zenon DEF Preferring, DamageKept
<1>9. ReadSound
  <2>1. at = "part"
    BY <1>a
  <2>2. RightShards /\ QuorumDecides
    BY <1>a, <1>6, <1>7, PositionsFinite, SMT DEF RightShards, QuorumDecides
  <2> QED
    BY <2>1, <2>2, Zenon DEF ReadSound, HealStarted
<1> QED
  BY <1>3, <1>4, <1>5, <1>8, <1>9 DEF ReadIInv

LEMMA SituationKept ==
  ASSUME AllOrNone, DamageLasts, UNCHANGED <<shards, online, prefer>>
  PROVE  AllOrNone' /\ DamageLasts'
<1>1. shards' = shards /\ online' = online /\ prefer' = prefer
  OBVIOUS
<1> QED
  BY ONLY AllOrNone, DamageLasts, <1>1, ZenonT(60) DEF AllOrNone, DamageLasts

LEMMA BeginPartOK == ReadIInv /\ BeginPart => ReadIInv'
<1> SUFFICES ASSUME ReadIInv, BeginPart PROVE ReadIInv'
  OBVIOUS
<1> USE ReadAssumption
<1>0. /\ ReadTypeOK /\ readers' = [i \in Positions |-> IF i \in online THEN i ELSE 0]
      /\ toBuf' = [i \in Positions |-> i] /\ looked' = 1 /\ nextPos' = 1
      /\ block' = 1 /\ derr' = "nil" /\ at' = "prefer"
      /\ UNCHANGED <<shards, online, part, triggers, index, running, bufs, hurt, served>>
  BY Zenon DEF BeginPart, ReadIInv, ReadTypes
<1>1. ReadTypes'
  <2>a. online \subseteq Positions /\ 0 \in 0..NReaders
    BY <1>0, SMT DEF ReadTypeOK
  <2>b. readers' \in [Positions -> 0..NReaders] /\ toBuf' \in [Positions -> Positions]
    BY <1>0, <2>a, SMT DEF Positions
  <2>c. block' \in 1..NBlocks /\ looked' \in 1..NReaders + 1 /\ nextPos' \in 1..looked'
    BY <1>0, SMT
  <2>1. ReadTypeOK'
    BY <1>0, <2>b, <2>c, Zenon DEF ReadTypeOK
  <2> QED
    BY <1>0, <2>1, Zenon DEF ReadIInv, ReadTypes, BeginPart
<1>2. AllOrNone' /\ DamageLasts'
  <2>1. AllOrNone /\ DamageLasts /\ UNCHANGED <<shards, online, prefer>>
    BY Zenon DEF ReadIInv, BeginPart
  <2> QED
    BY <2>1, SituationKept
<1>3. Preferring'
  <2>1. \A j \in Positions : ~(j >= nextPos' /\ j < looked')
    BY <1>0, SMT DEF Positions
  <2> QED
    BY <1>0, <2>1, Zenon DEF Preferring
<1>4. \A i \in Positions : readers'[i] = (IF i \in online THEN i ELSE 0) /\ toBuf'[i] = i
  BY DEF BeginPart
<1>5. InStep'
  <2>1. online \subseteq Positions /\ online' = online
    BY DEF ReadIInv, ReadTypes, ReadTypeOK, BeginPart
  <2> QED
    BY <1>4, <2>1, SMT DEF InStep, Sick, Positions
<1>6. Fetched'
  BY DEF ReadIInv, Fetched, BeginPart
<1>7. Budget'
  BY DEF ReadIInv, Budget, BeginPart, Filled
<1>8. DamageKept'
  <2>1. \A d \in Positions : shards[part][d] # "good" => d \in online \/ shards[part][d] = "broken"
    BY DEF ReadIInv, DamageLasts, ReadTypes, ReadTypeOK
  <2> QED
    BY <1>4, <2>1 DEF DamageKept, Sick, BeginPart
<1>9. ReadSound'
  BY DEF ReadIInv, ReadSound, RightShards, QuorumDecides, HealStarted, BeginPart, Filled
<1> QED
  BY <1>1, <1>2, <1>3, <1>5, <1>6, <1>7, <1>8, <1>9 DEF ReadIInv

\* Between two Reads nothing is fetched.
LEMMA NotFetching ==
  ASSUME Fetched, Budget, RightShards, QuorumDecides,
         at \notin {"loop", "wait"}, at' \notin {"loop", "wait", "failed", "decoded"}, UNCHANGED <<running, bufs>>
  PROVE  Fetched' /\ Budget' /\ RightShards' /\ QuorumDecides'
<1>1. running' = running /\ bufs' = bufs
  OBVIOUS
<1>2. Filled' = Filled
  BY <1>1 DEF Filled
<1>3. Fetched'
  BY <1>1, Zenon DEF Fetched
<1>4. Budget'
  BY <1>1, <1>2, Zenon DEF Budget
<1> QED
  BY <1>1, <1>2, <1>3, <1>4, Zenon DEF RightShards, QuorumDecides

LEMMA PreferReaderOK == ReadIInv /\ PreferReader => ReadIInv'
<1> SUFFICES ASSUME ReadIInv, PreferReader PROVE ReadIInv'
  OBVIOUS
<1> USE ReadAssumption
<1>0. /\ ReadTypeOK /\ AllOrNone /\ DamageLasts /\ Preferring /\ InStep /\ Fetched /\ Budget /\ DamageKept
      /\ RightShards /\ QuorumDecides
      /\ at = "prefer" /\ at' = "prefer" /\ looked <= NReaders /\ looked' = looked + 1
      /\ shards' = shards /\ online' = online /\ part' = part /\ block' = block /\ triggers' = triggers /\ index' = index
      /\ running' = running /\ bufs' = bufs /\ hurt' = hurt /\ derr' = derr /\ served' = served
  BY Zenon DEF PreferReader, ReadIInv, ReadTypes, ReadSound
<1>p. prefer' = prefer /\ prefer \in [Positions -> BOOLEAN] /\ healStarted' = healStarted
  BY Zenon DEF PreferReader, ReadIInv, ReadTypes
<1>1. looked \in Positions /\ nextPos \in Positions /\ nextPos <= looked
  BY <1>0, SMT DEF ReadTypeOK, Positions
<1>2. /\ readers \in [Positions -> 0..NReaders] /\ toBuf \in [Positions -> Positions] /\ online \subseteq Positions
      /\ Positions = 1..NReaders /\ NReaders \in Nat
  BY <1>0 DEF ReadTypeOK, Positions
<1>3. readers[looked] = (IF looked \in online THEN looked ELSE 0) /\ toBuf[looked] = looked
  <2>1. looked >= looked
    BY <1>1, <1>2, SMT
  <2> QED
    BY <1>0, <1>1, <2>1, Zenon DEF Preferring
<1>d. 0 \notin Positions
  BY <1>2, SMT
\* What a round leaves, whichever way it goes.
<1>4. /\ readers' \in [Positions -> 0..NReaders] /\ toBuf' \in [Positions -> Positions]
      /\ nextPos' \in 1..looked + 1
      /\ \A j \in Positions : j > looked => readers'[j] = readers[j] /\ toBuf'[j] = toBuf[j]
      /\ \A j \in Positions : j >= nextPos' /\ j <= looked => (\A d \in Positions : ~prefer[d]) \/ readers'[j] = 0
      /\ \A i \in Positions : readers'[i] # 0 => toBuf'[i] = readers'[i]
      /\ \A i, j \in Positions : readers'[i] # 0 /\ readers'[i] = readers'[j] => i = j
      /\ \A d \in Positions : (\E i \in Positions : readers[i] = d) => \E i \in Positions : readers'[i] = d
  <2>a. CASE ~prefer[looked] \/ readers[looked] = 0
    <3>1. readers' = readers /\ toBuf' = toBuf /\ nextPos' = nextPos
      BY <2>a, Zenon DEF PreferReader
    <3>2. (\A d \in Positions : ~prefer[d]) \/ readers[looked] = 0
      BY <1>0, <1>1, <1>3, <2>a, Zenon DEF AllOrNone
    <3>3. \A j \in Positions : j <= looked => j < looked \/ j = looked
      BY <1>1, <1>2, SMT
    <3>4. \A j \in Positions : j >= nextPos' /\ j <= looked => (\A d \in Positions : ~prefer[d]) \/ readers'[j] = 0
      BY <1>0, <3>1, <3>2, <3>3, Zenon DEF Preferring
    <3>5. nextPos' \in 1..looked + 1
      BY <1>1, <1>2, <3>1, SMT
    <3> QED
      BY <1>0, <1>2, <3>1, <3>4, <3>5, Zenon DEF InStep
  <2>b. CASE prefer[looked] /\ readers[looked] # 0 /\ looked = nextPos
    <3>1. readers' = readers /\ toBuf' = toBuf /\ nextPos' = nextPos + 1
      BY <2>b, Zenon DEF PreferReader
    <3>2. nextPos' \in 1..looked + 1 /\ \A j \in Positions : ~(j >= nextPos' /\ j <= looked)
      BY <1>1, <1>2, <2>b, <3>1, SMT
    <3> QED
      BY <1>0, <1>2, <3>1, <3>2, Zenon DEF InStep
  <2>c. CASE prefer[looked] /\ readers[looked] # 0 /\ looked # nextPos
    <3>1. /\ readers' = Exchange(readers, nextPos, looked) /\ nextPos' = nextPos + 1
          /\ toBuf' = [toBuf EXCEPT ![nextPos] = looked, ![looked] = nextPos]
      BY <2>c, Zenon DEF PreferReader
    <3>0. looked # nextPos
      BY <2>c
    <3>2. nextPos < looked /\ nextPos >= nextPos
      BY <1>1, <1>2, <3>0, SMT
    <3>3. readers[nextPos] = 0 /\ readers[looked] = looked
      BY <1>0, <1>1, <1>3, <2>c, <3>2, Zenon DEF Preferring
    <3>4. /\ readers'[nextPos] = looked /\ readers'[looked] = 0
          /\ \A i \in Positions : i # nextPos /\ i # looked => readers'[i] = readers[i] /\ toBuf'[i] = toBuf[i]
          /\ toBuf'[nextPos] = looked
          /\ readers' \in [Positions -> 0..NReaders] /\ toBuf' \in [Positions -> Positions]
      <4>1. readers' = [readers EXCEPT ![nextPos] = looked, ![looked] = 0]
        BY <3>1, <3>3, Zenon DEF Exchange
      <4>2. looked \in 0..NReaders /\ 0 \in 0..NReaders
        BY <1>1, <1>2, SMT
      <4>3. /\ readers'[nextPos] = looked /\ readers'[looked] = 0 /\ readers' \in [Positions -> 0..NReaders]
            /\ \A i \in Positions : i # nextPos /\ i # looked => readers'[i] = readers[i]
        BY <1>1, <1>2, <3>0, <4>1, <4>2
      <4>4. /\ toBuf'[nextPos] = looked /\ toBuf' \in [Positions -> Positions]
            /\ \A i \in Positions : i # nextPos /\ i # looked => toBuf'[i] = toBuf[i]
        BY <1>1, <1>2, <3>0, <3>1
      <4> QED
        BY <4>3, <4>4
    <3>5. nextPos' \in 1..looked + 1 /\ \A j \in Positions : j > looked => j # nextPos /\ j # looked
      BY <1>1, <1>2, <3>1, <3>2, SMT
    <3>6. \A j \in Positions : j >= nextPos' /\ j <= looked => j = looked \/ (j >= nextPos /\ j < looked /\ j # nextPos)
      BY <1>1, <1>2, <3>1, SMT
    <3>7. \A j \in Positions : j >= nextPos' /\ j <= looked => (\A d \in Positions : ~prefer[d]) \/ readers'[j] = 0
      BY <1>0, <3>4, <3>6, Zenon DEF Preferring
    <3>8. \A i, j \in Positions : readers'[i] # 0 /\ readers'[i] = readers'[j] => i = j
      <4> SUFFICES ASSUME NEW i \in Positions, NEW j \in Positions, readers'[i] # 0, readers'[i] = readers'[j]
                   PROVE  i = j
        BY Zenon
      <4>1. i # looked /\ j # looked
        BY <3>4
      <4>2. \A a, b \in Positions : readers[a] # 0 /\ readers[a] = readers[b] => a = b
        BY <1>0, Zenon DEF InStep
      <4>3. readers[looked] = looked /\ looked # 0
        BY <3>3, <2>c
      <4> QED
        BY <1>1, <3>4, <4>1, <4>2, <4>3, Zenon
    <3>9. \A i \in Positions : readers'[i] # 0 => toBuf'[i] = readers'[i]
      BY <1>0, <1>1, <3>4, Zenon DEF InStep
    <3>10. \A d \in Positions : (\E i \in Positions : readers[i] = d) => \E i \in Positions : readers'[i] = d
      <4> SUFFICES ASSUME NEW d \in Positions, NEW i \in Positions, readers[i] = d
                   PROVE  \E k \in Positions : readers'[k] = d
        BY Zenon
      <4>1. i # nextPos
        BY <1>d, <3>3
      <4>2. CASE i = looked
        BY <1>1, <3>3, <3>4, <4>2
      <4>3. CASE i # looked
        BY <3>4, <4>1, <4>3
      <4> QED
        BY <4>2, <4>3
    <3> QED
      BY <3>4, <3>5, <3>7, <3>8, <3>9, <3>10, Zenon
  <2> QED
    BY <2>a, <2>b, <2>c
<1>5. ReadTypes'
  <2>1. looked' \in 1..NReaders + 1 /\ nextPos' \in 1..looked'
    BY <1>0, <1>1, <1>2, <1>4, SMT
  <2>2. ReadTypeOK'
    BY <1>0, <1>4, <2>1, Zenon DEF ReadTypeOK
  <2> QED
    BY <1>0, <1>p, <2>2, Zenon DEF ReadIInv, ReadTypes
<1>6. AllOrNone' /\ DamageLasts'
  BY <1>0, <1>p, SituationKept
<1>7. Preferring'
  <2>1. \A j \in Positions : (j >= looked' => j > looked /\ j >= looked) /\ (j < looked' => j <= looked)
    BY <1>0, <1>1, <1>2, SMT
  <2>2. \A j \in Positions : j >= looked' => toBuf'[j] = j /\ readers'[j] = IF j \in online THEN j ELSE 0
    BY <1>0, <1>4, <2>1, Zenon DEF Preferring
  <2> QED
    BY <1>0, <1>p, <1>4, <2>1, <2>2, Zenon DEF Preferring
<1>8. InStep'
  <2>1. \A d \in online \ Sick(part) : d \in Positions /\ \E i \in Positions : readers'[i] = d
    BY <1>0, <1>2, <1>4, Zenon DEF InStep
  <2>2. Sick(part)' = Sick(part)
    BY <1>0 DEF Sick
  <2> QED
    BY <1>0, <1>4, <2>1, <2>2, Zenon DEF InStep
<1>9. Fetched' /\ Budget' /\ RightShards' /\ QuorumDecides'
  BY <1>0, NotFetching
<1>10. DamageKept'
  <2>2. Sick(part)' = Sick(part) /\ Sick(part) \subseteq Positions
    BY <1>0 DEF Sick
  <2> QED
    BY <1>0, <1>4, <2>2, ZenonT(60) DEF DamageKept
<1>11. HealStarted'
  BY <1>0 DEF HealStarted
<1> QED
  BY <1>5, <1>6, <1>7, <1>8, <1>9, <1>10, <1>11 DEF ReadIInv, ReadSound

LEMMA EndPreferOK == ReadIInv /\ EndPrefer => ReadIInv'
<1> SUFFICES ASSUME ReadIInv, EndPrefer PROVE ReadIInv'
  OBVIOUS
<1>0. /\ ReadTypeOK /\ AllOrNone /\ DamageLasts /\ Preferring /\ InStep /\ Fetched /\ Budget /\ DamageKept
      /\ RightShards /\ QuorumDecides
      /\ at = "prefer" /\ at' = "read" /\ looked' = looked /\ nextPos' = nextPos
      /\ shards' = shards /\ online' = online /\ part' = part /\ block' = block /\ triggers' = triggers /\ index' = index
      /\ running' = running /\ bufs' = bufs /\ hurt' = hurt /\ derr' = derr /\ served' = served
      /\ readers' = readers /\ toBuf' = toBuf /\ prefer' = prefer /\ healStarted' = healStarted
  BY Zenon DEF EndPrefer, ReadIInv, ReadTypes, ReadSound, preferVars
<1>1. ReadTypes'
  BY <1>0, Zenon DEF ReadIInv, ReadTypes, ReadTypeOK
<1>2. AllOrNone' /\ DamageLasts'
  BY <1>0, SituationKept
<1>3. Sick(part)' = Sick(part)
  BY <1>0, Zenon DEF Sick
<1>4. Preferring' /\ InStep' /\ DamageKept' /\ HealStarted'
  BY <1>0, <1>3, Zenon DEF Preferring, InStep, DamageKept, HealStarted
<1>5. Fetched' /\ Budget' /\ RightShards' /\ QuorumDecides'
  BY <1>0, NotFetching
<1> QED
  BY <1>1, <1>2, <1>4, <1>5 DEF ReadIInv, ReadSound

LEMMA BeginReadOK == ReadIInv /\ BeginRead => ReadIInv'
<1> SUFFICES ASSUME ReadIInv, BeginRead PROVE ReadIInv'
  OBVIOUS
<1>0. /\ ReadTypeOK /\ AllOrNone /\ DamageLasts /\ InStep /\ Fetched /\ DamageKept
      /\ at = "read" /\ at' = "loop" /\ looked' = looked /\ nextPos' = nextPos
      /\ triggers' = [i \in 1..DataBlocks |-> TRUE] /\ index' = 1 /\ bufs' = [s \in Positions |-> 0] /\ hurt' = {}
      /\ shards' = shards /\ online' = online /\ part' = part /\ block' = block
      /\ running' = running /\ derr' = derr /\ served' = served
      /\ readers' = readers /\ toBuf' = toBuf /\ prefer' = prefer /\ healStarted' = healStarted
  BY Zenon DEF BeginRead, ReadIInv, ReadTypes, ReadSound, preferVars
<1>1. ReadTypes'
  <2>1. triggers' \in Seq(BOOLEAN) /\ Len(triggers') = DataBlocks
    BY <1>0, TruesAll
  <2>2. Len(triggers') <= NReaders /\ index' \in 1..NReaders + 1 /\ bufs' \in [Positions -> 0..NReaders]
    <3>1. bufs' = [s \in Positions |-> 0] /\ index' = 1
      BY <1>0
    <3> QED
      BY <2>1, <3>1, ReadAssumption, SMT
  <2> QED
    BY <1>0, <2>1, <2>2, Zenon DEF ReadIInv, ReadTypes, ReadTypeOK
<1>2. AllOrNone' /\ DamageLasts'
  BY <1>0, SituationKept
<1>3. Sick(part)' = Sick(part)
  BY <1>0, Zenon DEF Sick
<1>4. Preferring' /\ InStep' /\ DamageKept' /\ HealStarted'
  BY <1>0, <1>3, Zenon DEF Preferring, InStep, DamageKept, HealStarted
<1>5. running = {} /\ Filled' = {}
  <2>1. bufs' = [s \in Positions |-> 0]
    BY <1>0
  <2>2. Filled' = {}
    BY <2>1, SMT DEF Filled
  <2> QED
    BY <1>0, <2>2, Zenon DEF Fetched
<1>6. Fetched'
  <2>1. \A i \in Positions : ~(i < 1)
    BY SMT, PositionsFinite DEF Positions
  <2> QED
    BY <1>0, <1>5, <2>1, Zenon DEF Fetched
<1>7. Cardinality(Filled') = 0 /\ Cardinality(running') = 0 /\ Cardinality(Trues(triggers')) = DataBlocks
  BY <1>0, <1>5, FS_EmptySet, TruesAll, Zenon
<1>8. Budget'
  BY <1>7, PositionsFinite, SMT DEF Budget
<1>9. RightShards' /\ QuorumDecides'
  <2>1. at' = "loop"
    BY <1>0
  <2> QED
    BY <2>1, <1>5, <1>7, PositionsFinite, SMT DEF RightShards, QuorumDecides
<1> QED
  BY <1>1, <1>2, <1>4, <1>6, <1>8, <1>9 DEF ReadIInv, ReadSound

LEMMA NextTriggerOK == ReadIInv /\ NextTrigger => ReadIInv'
<1> SUFFICES ASSUME ReadIInv, NextTrigger PROVE ReadIInv'
  OBVIOUS
<1>0. /\ ReadTypes /\ ReadTypeOK /\ AllOrNone /\ DamageLasts /\ InStep /\ Fetched /\ DamageKept /\ Budget
      /\ RightShards /\ QuorumDecides
      /\ at = "loop" /\ at' \in {"loop", "wait"} /\ looked' = looked /\ nextPos' = nextPos
      /\ triggers # <<>> /\ triggers' = Tail(triggers) /\ bufs' = bufs /\ hurt' = hurt
      /\ shards' = shards /\ online' = online /\ part' = part /\ block' = block
      /\ derr' = derr /\ served' = served
      /\ readers' = readers /\ toBuf' = toBuf /\ prefer' = prefer /\ healStarted' = healStarted
  BY Zenon DEF NextTrigger, ReadIInv, ReadTypes, ReadSound, preferVars
<1>t. /\ triggers \in Seq(BOOLEAN) /\ Len(triggers) <= NReaders /\ triggers # <<>> /\ triggers' = Tail(triggers)
      /\ running \subseteq Positions /\ index \in 1..NReaders + 1
      /\ NReaders \in Nat /\ Positions = 1..NReaders
  BY <1>0, PositionsFinite, Zenon DEF ReadTypeOK, Positions
<1>h. triggers' \in Seq(BOOLEAN) /\ Len(triggers') <= NReaders
  BY <1>t, SMT
<1>2. AllOrNone' /\ DamageLasts'
  BY <1>0, SituationKept
<1>3. Sick(part)' = Sick(part) /\ Filled' = Filled
  BY <1>0, Zenon DEF Sick, Filled
<1>4. Preferring' /\ InStep' /\ DamageKept' /\ HealStarted'
  BY <1>0, <1>3, Zenon DEF Preferring, InStep, DamageKept, HealStarted
<1>5. RightShards' /\ QuorumDecides'
  BY <1>0, <1>3, Zenon DEF RightShards, QuorumDecides
<1>c. /\ Cardinality(Trues(triggers)) \in Nat /\ Cardinality(Trues(triggers')) \in Nat /\ Cardinality(running) \in Nat
      /\ Cardinality(Filled) \in Nat /\ DataBlocks \in Nat /\ IsFiniteSet(running)
  BY <1>0, <1>t, <1>h, TruesFinite, RunningFinite, FilledFinite, PositionsFinite DEF Filled
<1>a. CASE /\ UNCHANGED <<index, running>>
           /\ ((CanDecode \/ index > NReaders) /\ at' = "wait") \/ at' = "loop"
  <2>1. ReadTypes'
    BY <1>0, <1>a, <1>h, Zenon DEF ReadTypes, ReadTypeOK
  <2>2. Fetched'
    BY <1>0, <1>a, <1>3, Zenon DEF Fetched, CanDecode
  <2>3. Cardinality(Trues(triggers')) <= Cardinality(Trues(triggers))
    <3>1. Cardinality(Trues(triggers')) = Cardinality(Trues(triggers)) - 1
          \/ Cardinality(Trues(triggers')) = Cardinality(Trues(triggers))
      BY <1>t, TruesTail, Zenon
    <3> QED
      BY <1>c, <3>1, SMT
  <2>4. Budget'
    <3>1. Cardinality(Filled) + Cardinality(running) + Cardinality(Trues(triggers')) <= DataBlocks
      <4>1. Cardinality(Filled) + Cardinality(running) + Cardinality(Trues(triggers)) <= DataBlocks
        BY <1>0, Zenon DEF Budget
      <4> QED
        BY <1>c, <2>3, <4>1, SMT
    <3> QED
      BY <1>0, <1>3, <1>a, <3>1, Zenon DEF Budget
  <2> QED
    BY <1>2, <1>4, <1>5, <2>1, <2>2, <2>4 DEF ReadIInv, ReadSound
<1>b. CASE Head(triggers) /\ running' = running \cup {index} /\ index' = index + 1 /\ at' = "loop" /\ ~(index > NReaders)
  <2>0. running' = running \cup {index} /\ index' = index + 1 /\ at' = "loop" /\ ~(index > NReaders)
    BY <1>b
  <2>1. ReadTypes'
    <3>1. index' \in 1..NReaders + 1 /\ running' \subseteq Positions
      BY <1>t, <2>0, SMT
    <3> QED
      BY <1>0, <3>1, <1>h, Zenon DEF ReadTypes, ReadTypeOK
  <2>2. Fetched'
    <3>1. \A i \in Positions : (i < index' => i < index \/ i = index) /\ (~(i < index') => ~(i < index) /\ i # index)
      BY <1>t, <2>0, SMT
    <3>2. index \in running'
      BY <2>0
    <3> QED
      BY <1>0, <2>0, <3>1, <3>2, Zenon DEF Fetched
  <2>3. Cardinality(Trues(triggers')) = Cardinality(Trues(triggers)) - 1
    BY <1>t, <1>b, TruesTail, Zenon
  <2>4. Cardinality(running') = Cardinality(running) + 1
    <3>1. index \in Positions /\ ~(index < index)
      BY <1>t, <2>0, SMT
    <3>2. index \notin running
      BY <1>0, <3>1, Zenon DEF Fetched
    <3> QED
      BY <1>c, <2>0, <3>2, FS_AddElement, Zenon
  <2>5. Budget'
    <3>1. Cardinality(Filled) + Cardinality(running') + Cardinality(Trues(triggers')) <= DataBlocks
      <4>1. Cardinality(Filled) + Cardinality(running) + Cardinality(Trues(triggers)) <= DataBlocks
        BY <1>0, Zenon DEF Budget
      <4> QED
        BY <1>c, <2>3, <2>4, <4>1, SMT
    <3> QED
      BY <1>0, <1>3, <3>1, Zenon DEF Budget
  <2> QED
    BY <1>2, <1>4, <1>5, <2>1, <2>2, <2>5 DEF ReadIInv, ReadSound
<1> QED
  BY <1>a, <1>b, Zenon DEF NextTrigger

\* What the end of a read, good or bad, has in common.
LEMMA Reading ==
  ASSUME ReadIInv, NEW i \in Positions, i \in running
  PROVE  /\ at \in {"loop", "wait"} /\ i < index
         /\ Cardinality(running \ {i}) = Cardinality(running) - 1
         /\ Cardinality(running) \in Nat
<1>1. ReadTypes /\ Fetched
  BY DEF ReadIInv
<1>2. at \in {"loop", "wait"}
  BY <1>1, Zenon DEF Fetched
<1>3. i < index
  BY <1>1, <1>2, Zenon DEF Fetched
<1>4. IsFiniteSet(running) /\ Cardinality(running) \in Nat
  BY <1>1, RunningFinite
<1> QED
  BY <1>2, <1>3, <1>4, FS_RemoveElement, Zenon

LEMMA ReadFailsOK == ASSUME NEW i \in Positions PROVE ReadIInv /\ ReadFails(i) => ReadIInv'
<1> SUFFICES ASSUME ReadIInv, ReadFails(i) PROVE ReadIInv'
  OBVIOUS
<1>0. /\ ReadTypes /\ ReadTypeOK /\ AllOrNone /\ DamageLasts /\ InStep /\ Fetched /\ DamageKept /\ Budget
      /\ RightShards /\ QuorumDecides
      /\ i \in running /\ Outcome(i) # "good" /\ at' = at /\ looked' = looked /\ nextPos' = nextPos /\ index' = index
      /\ Len(triggers) < NReaders /\ triggers' = Append(triggers, TRUE)
      /\ bufs' = bufs /\ hurt' = hurt \cup {Outcome(i)}
      /\ running' = running \ {i} /\ readers' = [readers EXCEPT ![i] = 0]
      /\ shards' = shards /\ online' = online /\ part' = part /\ block' = block
      /\ derr' = derr /\ served' = served
      /\ toBuf' = toBuf /\ prefer' = prefer /\ healStarted' = healStarted
  BY Zenon DEF ReadFails, Trigger, ReadIInv, ReadTypes, ReadSound, preferVars
<1>r. at \in {"loop", "wait"} /\ i < index
  BY <1>0, Reading
<1>t. /\ triggers \in Seq(BOOLEAN) /\ Len(triggers) < NReaders /\ triggers' = Append(triggers, TRUE)
      /\ NReaders \in Nat /\ Positions = 1..NReaders
      /\ readers \in [Positions -> 0..NReaders] /\ part \in 1..NParts /\ online \subseteq Positions
  BY <1>0, PositionsFinite, Zenon DEF ReadTypeOK, Positions
<1>h. triggers' \in Seq(BOOLEAN) /\ Len(triggers') <= NReaders
  BY <1>t, SMT
<1>k. \A k \in Positions : readers'[k] = IF k = i THEN 0 ELSE readers[k]
  BY <1>0, <1>t
<1>o. readers[i] # 0 => readers[i] \in Positions /\ Outcome(i) = shards[part][readers[i]]
  BY <1>t, SMT DEF Outcome
<1>1. ReadTypes'
  <2>1. readers' \in [Positions -> 0..NReaders]
    BY <1>0, <1>t, SMT
  <2>2. Outcome(i) \in ShardStates \cup {"none"}
    BY <1>0, <1>t, <1>o, ZenonT(60) DEF ReadTypes, Outcome
  <2> QED
    BY <1>0, <1>h, <2>1, <2>2, Zenon DEF ReadTypes, ReadTypeOK
<1>2. AllOrNone' /\ DamageLasts'
  BY <1>0, SituationKept
<1>3. Sick(part)' = Sick(part) /\ Filled' = Filled
  BY <1>0, Zenon DEF Sick, Filled
<1>4. Preferring' /\ HealStarted' /\ RightShards' /\ QuorumDecides'
  BY <1>0, <1>r, <1>3, Zenon DEF Preferring, HealStarted, RightShards, QuorumDecides
<1>5. InStep'
  <2>1. ASSUME NEW d \in online \ Sick(part) PROVE \E k \in Positions : readers'[k] = d
    <3>0. d \in Positions /\ d # 0 /\ shards[part][d] = "good"
      BY <1>t, SMT DEF Sick
    <3>1. PICK k \in Positions : readers[k] = d
      BY <1>0, <1>r, Zenon DEF InStep
    <3>2. k # i
      BY <1>0, <1>o, <3>0, <3>1, Zenon
    <3> QED
      BY <1>k, <3>1, <3>2
  <2>2. \A k \in Positions : readers'[k] # 0 => toBuf'[k] = readers'[k]
    BY <1>0, <1>k, Zenon DEF InStep
  <2>3. \A j, k \in Positions : readers'[j] # 0 /\ readers'[j] = readers'[k] => j = k
    <3> SUFFICES ASSUME NEW j \in Positions, NEW k \in Positions, readers'[j] # 0, readers'[j] = readers'[k]
                 PROVE  j = k
      BY Zenon
    <3>1. readers[j] # 0 /\ readers[j] = readers[k]
      BY <1>k
    <3> QED
      BY <1>0, <3>1, Zenon DEF InStep
  <2> QED
    BY <1>0, <1>3, <2>1, <2>2, <2>3, Zenon DEF InStep
<1>6. Fetched'
  BY <1>0, <1>r, <1>k, <1>3, Zenon DEF Fetched, CanDecode
<1>7. DamageKept'
  <2> SUFFICES ASSUME NEW d \in Sick(part), shards[part][d] # "broken", \A k \in Positions : readers'[k] # d
               PROVE  derr # "nil" \/ shards[part][d] \in hurt'
    BY <1>0, <1>r, <1>3, Zenon DEF DamageKept
  <2>1. CASE readers[i] = d
    <3>1. d # 0 /\ d \in Positions
      BY <1>t, SMT DEF Sick
    <3> QED
      BY <1>0, <1>o, <2>1, <3>1, Zenon
  <2>2. CASE readers[i] # d
    <3>1. \A k \in Positions : readers[k] # d
      BY <1>k, <2>2
    <3> QED
      BY <1>0, <1>r, <3>1, Zenon DEF DamageKept
  <2> QED
    BY <2>1, <2>2
<1>8. Budget'
  <2>1. Cardinality(running') = Cardinality(running) - 1 /\ Cardinality(running) \in Nat
    BY <1>0, Reading, Zenon
  <2>2. Cardinality(Trues(triggers')) = Cardinality(Trues(triggers)) + 1 /\ Cardinality(Trues(triggers)) \in Nat
    BY <1>t, TruesAppend, TruesFinite, Zenon
  <2>3. Cardinality(Filled) \in Nat /\ DataBlocks \in Nat
    BY FilledFinite, PositionsFinite DEF Filled
  <2>4. Cardinality(Filled) + Cardinality(running) + Cardinality(Trues(triggers)) <= DataBlocks
    BY <1>0, <1>r, Zenon DEF Budget
  <2>5. Cardinality(Filled) + Cardinality(running') + Cardinality(Trues(triggers')) <= DataBlocks
    BY <2>1, <2>2, <2>3, <2>4, SMT
  <2> QED
    BY <1>0, <1>3, <2>5, Zenon DEF Budget
<1> QED
  BY <1>1, <1>2, <1>4, <1>5, <1>6, <1>7, <1>8 DEF ReadIInv, ReadSound

LEMMA ReadSucceedsOK == ASSUME NEW i \in Positions PROVE ReadIInv /\ ReadSucceeds(i) => ReadIInv'
<1> SUFFICES ASSUME ReadIInv, ReadSucceeds(i) PROVE ReadIInv'
  OBVIOUS
<1>0. /\ ReadTypes /\ ReadTypeOK /\ AllOrNone /\ DamageLasts /\ InStep /\ Fetched /\ DamageKept /\ Budget
      /\ RightShards /\ QuorumDecides
      /\ i \in running /\ Outcome(i) = "good" /\ at' = at /\ looked' = looked /\ nextPos' = nextPos /\ index' = index
      /\ Len(triggers) < NReaders /\ triggers' = Append(triggers, FALSE)
      /\ bufs' = [bufs EXCEPT ![toBuf[i]] = readers[i]] /\ hurt' = hurt
      /\ running' = running \ {i} /\ readers' = readers
      /\ shards' = shards /\ online' = online /\ part' = part /\ block' = block
      /\ derr' = derr /\ served' = served
      /\ toBuf' = toBuf /\ prefer' = prefer /\ healStarted' = healStarted
  BY Zenon DEF ReadSucceeds, Trigger, ReadIInv, ReadTypes, ReadSound, preferVars
<1>r. at \in {"loop", "wait"} /\ i < index
  BY <1>0, Reading
<1>t. /\ triggers \in Seq(BOOLEAN) /\ Len(triggers) < NReaders /\ triggers' = Append(triggers, FALSE)
      /\ NReaders \in Nat /\ Positions = 1..NReaders
      /\ readers \in [Positions -> 0..NReaders] /\ bufs \in [Positions -> 0..NReaders]
  BY <1>0, PositionsFinite, Zenon DEF ReadTypeOK, Positions
<1>h. triggers' \in Seq(BOOLEAN) /\ Len(triggers') <= NReaders
  BY <1>t, SMT
<1>i. readers[i] # 0
  BY <1>0, Zenon DEF Outcome
<1>k. PICK k \in Positions : k = readers[i] /\ toBuf[i] = k /\ k # 0
  <2>1. readers[i] \in Positions
    BY <1>t, <1>i, SMT
  <2> QED
    BY <1>0, <1>i, <2>1, Zenon DEF InStep
<1>b. bufs' = [bufs EXCEPT ![k] = k]
  BY <1>0, <1>k
<1>v. \A s \in Positions : bufs'[s] = IF s = k THEN k ELSE bufs[s]
  BY <1>b, <1>t
<1>1. ReadTypes'
  <2>1. bufs' \in [Positions -> 0..NReaders]
    BY <1>b, <1>t, SMT
  <2> QED
    BY <1>0, <1>h, <2>1, Zenon DEF ReadTypes, ReadTypeOK
<1>2. AllOrNone' /\ DamageLasts'
  BY <1>0, SituationKept
<1>3. Sick(part)' = Sick(part)
  BY <1>0, Zenon DEF Sick
<1>4. Preferring' /\ HealStarted' /\ InStep' /\ DamageKept'
  BY <1>0, <1>r, <1>3, Zenon DEF Preferring, HealStarted, InStep, DamageKept
<1>5. RightShards'
  BY <1>0, <1>v, Zenon DEF RightShards, Filled
<1>c. /\ Cardinality(Filled) \in Nat /\ Cardinality(Filled') \in Nat /\ IsFiniteSet(Filled') /\ DataBlocks \in Nat
      /\ Cardinality(Filled') <= Cardinality(Filled) + 1
  BY <1>v, FilledFinite, FilledOneMore, PositionsFinite, Zenon DEF Filled
<1>f. Filled \subseteq Filled'
  BY <1>v, <1>k, Zenon DEF Filled
<1>6. Fetched'
  <2>1. CanDecode => CanDecode'
    <3>1. Cardinality(Filled) <= Cardinality(Filled')
      BY <1>c, <1>f, FS_Subset
    <3> QED
      BY <1>c, <3>1, SMT DEF CanDecode
  <2>2. ASSUME NEW j \in Positions, j < index, j \notin running', readers[j] # 0
        PROVE  bufs'[readers[j]] = readers[j]
    <3>0. readers[j] \in Positions
      BY <1>t, <2>2, SMT
    <3>1. CASE j = i
      BY <1>k, <1>v, <3>1, Zenon
    <3>2. CASE j # i
      <4>1. j \notin running
        BY <1>0, <2>2, <3>2
      <4>2. bufs[readers[j]] = readers[j]
        BY <1>0, <1>r, <2>2, <4>1, Zenon DEF Fetched
      <4> QED
        BY <1>v, <3>0, <4>2, Zenon
    <3> QED
      BY <3>1, <3>2
  <2>3. \A j \in Positions : ~(j < index) => j \notin running'
    BY <1>0, <1>r, Zenon DEF Fetched
  <2> QED
    BY <1>0, <1>r, <2>1, <2>2, <2>3, Zenon DEF Fetched
<1>7. Budget' /\ Cardinality(Filled') <= DataBlocks
  <2>1. Cardinality(running') = Cardinality(running) - 1 /\ Cardinality(running) \in Nat
    BY <1>0, Reading, Zenon
  <2>2. Cardinality(Trues(triggers')) = Cardinality(Trues(triggers)) /\ Cardinality(Trues(triggers)) \in Nat
    BY <1>t, TruesAppend, TruesFinite, Zenon
  <2>4. Cardinality(Filled) + Cardinality(running) + Cardinality(Trues(triggers)) <= DataBlocks
    BY <1>0, <1>r, Zenon DEF Budget
  <2>6. Cardinality(running') \in Nat
    <3>1. ReadTypes
      BY <1>0
    <3>2. IsFiniteSet(running \ {i})
      BY <3>1, RunningFinite, FS_RemoveElement
    <3> QED
      BY <1>0, <3>2, FS_CardinalityType
  <2>5. /\ Cardinality(Filled') + Cardinality(running') + Cardinality(Trues(triggers')) <= DataBlocks
        /\ Cardinality(Filled') <= DataBlocks
    BY <1>c, <2>1, <2>2, <2>4, <2>6, SMT
  <2> QED
    BY <1>0, <2>5, Zenon DEF Budget
<1>8. QuorumDecides'
  BY <1>0, <1>r, <1>7, Zenon DEF QuorumDecides
<1> QED
  BY <1>1, <1>2, <1>4, <1>5, <1>6, <1>7, <1>8 DEF ReadIInv, ReadSound

LEMMA EndReadOK == ReadIInv /\ EndRead => ReadIInv'
<1> SUFFICES ASSUME ReadIInv, EndRead PROVE ReadIInv'
  OBVIOUS
<1>0. /\ ReadTypes /\ ReadTypeOK /\ AllOrNone /\ DamageLasts /\ InStep /\ Fetched /\ DamageKept /\ Budget
      /\ RightShards /\ QuorumDecides
      /\ at = "wait" /\ running = {} /\ looked' = looked /\ nextPos' = nextPos /\ index' = index
      /\ triggers' = triggers /\ bufs' = bufs /\ hurt' = hurt /\ running' = running /\ readers' = readers
      /\ shards' = shards /\ online' = online /\ part' = part /\ served' = served
      /\ toBuf' = toBuf /\ prefer' = prefer /\ healStarted' = healStarted
  BY Zenon DEF EndRead, ReadIInv, ReadTypes, ReadSound, preferVars
<1>2. AllOrNone' /\ DamageLasts'
  BY <1>0, SituationKept
<1>3. Sick(part)' = Sick(part) /\ Filled' = Filled
  BY <1>0, Zenon DEF Sick, Filled
<1>c. Cardinality(Filled) \in Nat /\ DataBlocks \in Nat /\ Cardinality(Filled) <= DataBlocks
  BY <1>0, FilledFinite, PositionsFinite, Zenon DEF Filled, Budget
<1>t. /\ part \in 1..NParts /\ block \in 1..NBlocks /\ NBlocks \in Nat /\ online \subseteq Positions
      /\ NReaders \in Nat /\ Positions = 1..NReaders /\ index \in 1..NReaders + 1 /\ IsFiniteSet(Positions)
  BY <1>0, ReadAssumption, PositionsFinite, Zenon DEF ReadTypeOK, Positions
<1>a. CASE CanDecode
  <2>0. derr' = Reported /\ \/ block < NBlocks /\ block' = block + 1 /\ at' = "read"
                            \/ block' = block /\ at' = "decoded"
    BY <1>a, Zenon DEF EndRead
  <2>1. ReadTypes'
    <3>1. Reported \in {"nil", "missing", "corrupt"}
      BY <1>0, Zenon DEF ReadTypes, Reported
    <3>2. block' \in 1..NBlocks
      BY <1>t, <2>0, SMT
    <3>3. at' \in {"read", "decoded"}
      BY <2>0
    <3> QED
      BY <1>0, <2>0, <3>1, <3>2, <3>3, Zenon DEF ReadTypes, ReadTypeOK
  <2>3. at' \in {"read", "decoded"}
    BY <2>0
  <2>4. Preferring' /\ InStep' /\ HealStarted' /\ RightShards'
    BY <1>0, <1>3, <2>3, Zenon DEF Preferring, InStep, HealStarted, RightShards
  <2>5. Cardinality(Filled) = DataBlocks
    BY <1>c, <1>a, SMT DEF CanDecode
  <2>6. QuorumDecides'
    BY <1>0, <1>c, <1>3, <2>3, <2>5, Zenon DEF QuorumDecides
  <2>7. Fetched' /\ Budget'
    BY <1>0, <1>3, <2>3, Zenon DEF Fetched, Budget
  <2>8. DamageKept'
    <3> SUFFICES ASSUME NEW d \in Sick(part), shards[part][d] # "broken", \A k \in Positions : readers[k] # d
                 PROVE  derr' # "nil"
      BY <1>0, <1>3, Zenon DEF DamageKept
    <3>1. derr # "nil" \/ shards[part][d] \in hurt
      BY <1>0, Zenon DEF DamageKept
    <3>2. d \in Positions /\ shards[part][d] # "good"
      BY DEF Sick
    <3>3. shards[part][d] \in {"missing", "corrupt"}
      <4>1. shards[part] \in [Positions -> ShardStates]
        BY <1>0, <1>t, Zenon DEF ReadTypes
      <4>2. shards[part][d] \in ShardStates
        BY <3>2, <4>1
      <4> QED
        BY <3>2, <4>2, Zenon DEF ShardStates
    <3> QED
      BY <2>0, <3>1, <3>3, Zenon DEF Reported
  <2> QED
    BY <1>2, <2>1, <2>4, <2>6, <2>7, <2>8 DEF ReadIInv, ReadSound
<1>b. CASE ~CanDecode
  <2>0. derr' = derr /\ block' = block /\ at' = "failed"
    BY <1>b, Zenon DEF EndRead
  <2>1. ReadTypes'
    BY <1>0, <2>0, Zenon DEF ReadTypes, ReadTypeOK
  <2>4. Preferring' /\ InStep' /\ HealStarted' /\ RightShards' /\ DamageKept'
    BY <1>0, <1>3, <2>0, Zenon DEF Preferring, InStep, HealStarted, RightShards, DamageKept
  <2>7. Fetched' /\ Budget'
    BY <1>0, <1>3, <2>0, Zenon DEF Fetched, Budget
  <2>8. online \ Sick(part) \subseteq Filled
    <3> SUFFICES ASSUME NEW d \in online \ Sick(part) PROVE d \in Filled
      OBVIOUS
    <3>1. PICK i \in Positions : readers[i] = d
      BY <1>0, Zenon DEF InStep
    <3>2. index > NReaders
      BY <1>0, <1>b, Zenon DEF Fetched
    <3>3. i < index /\ d \in Positions /\ d # 0
      BY <1>t, <3>2, SMT
    <3>4. bufs[d] = d
      BY <1>0, <3>1, <3>3, Zenon DEF Fetched
    <3> QED
      BY <3>3, <3>4, Zenon DEF Filled
  <2>9. Cardinality(online \ Sick(part)) < DataBlocks
    <3>1. IsFiniteSet(Filled)
      BY FilledFinite DEF Filled
    <3>2. Cardinality(online \ Sick(part)) <= Cardinality(Filled) /\ IsFiniteSet(online \ Sick(part))
      BY <2>8, <3>1, FS_Subset, Zenon
    <3>3. Cardinality(online \ Sick(part)) \in Nat
      BY <3>2, FS_CardinalityType
    <3> QED
      BY <1>c, <1>b, <3>2, <3>3, SMT DEF CanDecode
  <2>10. QuorumDecides'
    BY <1>0, <1>c, <1>3, <2>0, <2>9, Zenon DEF QuorumDecides
  <2> QED
    BY <1>2, <2>1, <2>4, <2>7, <2>10 DEF ReadIInv, ReadSound
<1> QED
  BY <1>a, <1>b

LEMMA EndPartOK == ReadIInv /\ EndPart => ReadIInv'
<1> SUFFICES ASSUME ReadIInv, EndPart PROVE ReadIInv'
  OBVIOUS
<1>0. /\ ReadTypes /\ ReadTypeOK /\ AllOrNone /\ DamageLasts /\ InStep /\ Fetched /\ DamageKept /\ Budget
      /\ RightShards /\ QuorumDecides
      /\ at = "decoded" /\ looked' = looked /\ nextPos' = nextPos /\ index' = index
      /\ triggers' = triggers /\ bufs' = bufs /\ hurt' = hurt /\ running' = running /\ readers' = readers
      /\ shards' = shards /\ block' = block /\ derr' = derr /\ served' = part
      /\ toBuf' = toBuf /\ prefer' = prefer
  BY Zenon DEF EndPart, ReadIInv, ReadTypes, ReadSound, preferVars
<1>t. part \in 1..NParts /\ NParts \in Nat /\ online \subseteq Positions
  BY <1>0, ReadAssumption, Zenon DEF ReadTypeOK
<1>1. /\ at' \in {"part", "ended"} /\ part' \in 1..NParts /\ online' \subseteq online
      /\ healStarted' \in BOOLEAN
      /\ at' = "ended" => part' = part /\ (derr # "nil" => healStarted')
      /\ derr # "nil" => online' = online
      /\ derr = "nil" => online' = online \ Lost
  <2>1. CASE derr # "nil"
    <3>1. at' = "ended" /\ online' = online /\ part' = part /\ healStarted' = TRUE
      BY <2>1, Zenon DEF EndPart
    <3> QED
      BY <1>t, <2>1, <3>1, Zenon
  <2>2. CASE derr = "nil"
    <3>1. /\ online' = online \ Lost /\ healStarted' = healStarted
          /\ \/ part < NParts /\ part' = part + 1 /\ at' = "part"
             \/ part' = part /\ at' = "ended"
      BY <2>2, Zenon DEF EndPart
    <3>2. part < NParts => part + 1 \in 1..NParts
      BY <1>t, SMT
    <3>3. part' \in 1..NParts /\ at' \in {"part", "ended"} /\ (at' = "ended" => part' = part) /\ online' \subseteq online
      BY <1>t, <3>1, <3>2, Zenon
    <3>4. healStarted' \in BOOLEAN
      BY <1>0, <3>1, Zenon DEF ReadTypes
    <3> QED
      BY <2>2, <3>1, <3>3, <3>4, Zenon
  <2> QED
    BY <2>1, <2>2
<1>2. ReadTypes'
  <2>1. served' \in 0..NParts
    BY <1>0, <1>t, SMT
  <2>2. online' \subseteq Positions
    BY <1>1, <1>t
  <2> QED
    BY <1>0, <1>1, <2>1, <2>2, Zenon DEF ReadTypes, ReadTypeOK
<1>3. AllOrNone'
  BY <1>0, <1>1, Zenon DEF AllOrNone
<1>4. DamageLasts'
  <2>1. ASSUME NEW p \in 1..NParts, NEW d \in Positions, shards[p][d] # "good", d \notin online'
        PROVE  shards[p][d] = "broken"
    <3>1. CASE d \notin online
      BY <1>0, <2>1, <3>1, Zenon DEF DamageLasts
    <3>2. CASE d \in online
      <4>1. derr = "nil" /\ d \in Lost
        BY <1>1, <2>1, <3>2, Zenon
      <4>2. \A i \in Positions : readers[i] # d
        BY <4>1 DEF Lost
      <4>3. d \in Sick(part)
        BY <1>0, <3>2, <4>2, Zenon DEF InStep
      <4>4. shards[part][d] = "broken"
        BY <1>0, <4>1, <4>2, <4>3, Zenon DEF DamageKept
      <4> QED
        BY <1>0, <1>t, <2>1, <4>4, Zenon DEF DamageLasts
    <3> QED
      BY <3>1, <3>2
  <2> QED
    BY <1>0, <2>1, Zenon DEF DamageLasts
<1>5. Preferring' /\ DamageKept'
  BY <1>1, Zenon DEF Preferring, DamageKept
<1>6. InStep'
  <2>1. at' # "part" => Sick(part)' = Sick(part)
    BY <1>0, <1>1, Zenon DEF Sick
  <2> QED
    BY <1>0, <1>1, <2>1, Zenon DEF InStep
<1>7. Fetched' /\ Budget' /\ RightShards' /\ QuorumDecides'
  BY <1>0, <1>1, NotFetching
<1>8. HealStarted'
  <2> SUFFICES ASSUME at' = "ended", NEW d \in Sick(part)', shards[part'][d] # "broken",
                      \A i \in Positions : readers[i] # d
               PROVE  healStarted'
    BY <1>0, Zenon DEF HealStarted
  <2>1. part' = part /\ d \in Sick(part)
    BY <1>0, <1>1, Zenon DEF Sick
  <2>2. derr # "nil"
    BY <1>0, <2>1, Zenon DEF DamageKept
  <2> QED
    BY <1>1, <2>2, Zenon
<1> QED
  BY <1>2, <1>3, <1>4, <1>5, <1>6, <1>7, <1>8 DEF ReadIInv, ReadSound

\* The inductive invariant of a degraded read (parallelReader.Read, Decode and
\* getObjectWithFileInfo) holds in every state, for any number of drives, data
\* shards, parts and blocks.
THEOREM ReadInvariantHolds == ReadSpec => []ReadIInv
<1>1. ReadIInv /\ [ReadNext]_readVars => ReadIInv'
  <2> SUFFICES ASSUME ReadIInv, [ReadNext]_readVars PROVE ReadIInv'
    OBVIOUS
  <2>1. CASE UNCHANGED readVars
    <3>0. /\ ReadTypes /\ AllOrNone /\ DamageLasts /\ Preferring /\ InStep /\ Fetched /\ DamageKept /\ Budget
          /\ RightShards /\ QuorumDecides /\ HealStarted
          /\ at' = at /\ looked' = looked /\ nextPos' = nextPos /\ index' = index
          /\ triggers' = triggers /\ bufs' = bufs /\ hurt' = hurt /\ running' = running /\ readers' = readers
          /\ shards' = shards /\ block' = block /\ derr' = derr /\ served' = served /\ part' = part
          /\ toBuf' = toBuf /\ prefer' = prefer /\ online' = online /\ healStarted' = healStarted
      BY <2>1, Zenon DEF ReadIInv, ReadSound, readVars
    <3>1. Sick(part)' = Sick(part) /\ Filled' = Filled
      BY <3>0, Zenon DEF Sick, Filled
    <3>2. ReadTypes' /\ AllOrNone' /\ DamageLasts'
      <4>1. ReadTypes'
        BY <3>0, Zenon DEF ReadTypes, ReadTypeOK
      <4> QED
        BY <3>0, <4>1, SituationKept
    <3>3. Preferring' /\ InStep' /\ DamageKept'
      BY <3>0, <3>1, Zenon DEF Preferring, InStep, DamageKept
    <3>4. Fetched' /\ Budget'
      BY <3>0, <3>1, Zenon DEF Fetched, Budget, CanDecode
    <3>5. RightShards' /\ QuorumDecides' /\ HealStarted'
      BY <3>0, <3>1, Zenon DEF RightShards, QuorumDecides, HealStarted
    <3> QED
      BY <3>2, <3>3, <3>4, <3>5 DEF ReadIInv, ReadSound
  <2>2. CASE BeginPart \/ PreferReader \/ EndPrefer \/ BeginRead \/ NextTrigger \/ EndRead \/ EndPart
    BY <2>2, BeginPartOK, PreferReaderOK, EndPreferOK, BeginReadOK, NextTriggerOK, EndReadOK, EndPartOK, Zenon
  <2>3. ASSUME NEW i \in Positions, ReadFails(i) \/ ReadSucceeds(i) PROVE ReadIInv'
    BY <2>3, ReadFailsOK, ReadSucceedsOK, Zenon
  <2> QED
    BY <2>1, <2>2, <2>3, Zenon DEF ReadNext
<1> QED
  BY <1>1, ReadInitOK, PTL DEF ReadSpec

\* The decoder is given the right shards, as many as it needs whenever there are
\* that many, and damage it met starts a heal, in whichever order the goroutines
\* of parallelReader.Read end.
THEOREM ReadSoundHolds == ReadSpec => []ReadSound
<1>1. ReadIInv => ReadSound
  BY DEF ReadIInv
<1> QED
  BY <1>1, ReadInvariantHolds, PTL

-----------------------------------------------------------------------------
(* The FS backend.  Under the namespace lock of the one server a request      *)
(* knows what the file and its fs.json hold; a copy onto itself and a change  *)
(* of tags hold the lock of fs.json alone, and what they tear is marked.      *)

\* There is one server: the namespace lock is that of the process.
OneServer == \A s, t \in Servers : s = t

\* Where a request of each kind can be.
Places(q) ==
  \/ q.kind = "none" /\ q.pc \in {"idle", "done"}
  \/ q.kind = "get" /\ q.pc \in {"info", "infolock", "readinfo", "stat", "reopen", "relock", "opendata", "body"}
  \/ q.kind = "put" /\ q.pc \in {"open", "lock", "create", "lockcreated", "write", "meta"}
  \/ q.kind = "delete" /\ q.pc \in {"open", "lock", "remove", "unlink"}
  \/ q.kind = "tags" /\ q.pc \in {"open", "lock", "create", "lockcreated", "write"}
  \/ q.kind = "copy" /\ q.pc \in {"info", "infolock", "readinfo", "stat", "open", "lock", "create", "lockcreated", "write"}

FSPlaces == {"idle", "done", "info", "infolock", "readinfo", "stat", "reopen", "relock", "opendata", "body",
             "open", "lock", "create", "lockcreated", "write", "meta", "remove", "unlink"}

FSRecords(n) ==
  [kind : AllKinds \cup {"none"}, srv : Servers \cup {NoServer}, pc : FSPlaces, ino : 0..n, etag : Nat,
   body : Nat, fresh : BOOLEAN, locked : BOOLEAN]

FSTypes ==
  /\ fileData \in Nat /\ metaFiles \in Seq(Nat) /\ meta \in 0..Len(metaFiles) /\ fsPuts \in Nat
  /\ pool \in [Servers -> [ino : 0..Len(metaFiles), refs : Nat]]
  /\ req \in [Requests -> FSRecords(Len(metaFiles))]

\* A request that writes under the namespace lock is alone with the requests
\* that take none.
NSLocked ==
  \A r, q \in Requests : r # q /\ req[r].kind \in {"put", "delete"} => req[q].kind \notin {"put", "delete", "get"}

\* What a request knows, where f is the content of the file, m the file that
\* fs.json names, and t says whether the object is torn.
Placed(q) ==
  /\ Places(q) /\ (q.kind # "none" => q.srv \in Servers)
  /\ q.locked => q.pc \in {"write", "meta", "remove"}
  /\ q.pc \in {"infolock", "readinfo", "relock"} => q.ino # 0

PutKnows(q, f, m, t) ==
  q.kind = "put" =>
    /\ q.pc \in {"lock", "lockcreated", "write", "meta"} => q.ino = m /\ m # 0
    /\ q.pc # "meta" /\ (q.pc = "create" \/ q.fresh) => f = 0 \/ t
    /\ q.pc \in {"write", "meta"} => q.locked
    /\ q.pc = "meta" => f = q.body

DeleteKnows(q, f) == q.kind = "delete" /\ q.pc = "unlink" => f = 0

GetKnows(q, f, m, t) ==
  q.kind = "get" =>
    /\ q.pc \in {"infolock", "relock"} => q.ino = m
    /\ q.pc = "readinfo" => t \/ q.ino = m
    /\ q.pc = "stat" => t \/ f = 0 \/ q.etag = f
    /\ q.pc \in {"reopen", "relock", "opendata"} => f # 0 /\ (t \/ q.etag = f)
    /\ q.pc \in {"opendata", "body"} => t \/ q.ino # 0
    /\ q.pc = "body" => t \/ q.etag = q.body

Knows(q, f, m, t) == Placed(q) /\ PutKnows(q, f, m, t) /\ DeleteKnows(q, f) /\ GetKnows(q, f, m, t)

RequestsKnow == \A r \in Requests : Knows(req[r], fileData, meta, tornFile)

\* Except between the two writes of an upload, an object has an fs.json with its ETag.
AtRest ==
  ~tornFile /\ (\A r \in Requests : req[r].pc # "meta") /\ fileData # 0 => meta # 0 /\ metaFiles[meta] = fileData

\* An open descriptor is of an fs.json, the one the path names.
PoolCurrent == \A s \in Servers : pool[s].refs > 0 => pool[s].ino # 0 /\ (tornFile \/ pool[s].ino = meta)

\* No fs.json is locked both to read and to write.
Apart == \A r \in Requests, s \in Servers : req[r].locked /\ pool[s].refs > 0 => req[r].ino # pool[s].ino

FSReading(q) == q.ino # 0 /\ q.pc \in {"readinfo", "opendata", "body"}

\* The inductive invariant.
FSIInv == FSTypes /\ NSLocked /\ RequestsKnow /\ AtRest /\ PoolCurrent /\ Apart /\ ReadersCounted

LEMMA FSInitOK == ~PreExisting /\ FSInit => FSIInv
<1> SUFFICES ASSUME ~PreExisting, FSInit PROVE FSIInv
  OBVIOUS
<1>0. /\ fsPuts = 1 /\ pool = [s \in Servers |-> ClosedFd] /\ req = [r \in Requests |-> Unused]
      /\ fileData \in Nat /\ metaFiles \in Seq(Nat) /\ meta \in 0..Len(metaFiles)
      /\ fileData # 0 => meta # 0 /\ metaFiles[meta] = fileData
  <2>1. CASE fileData = 0 /\ meta = 0 /\ metaFiles = <<>>
    BY <2>1, SMT DEF FSInit
  <2>2. CASE fileData = 1 /\ meta = 1 /\ metaFiles = <<1>>
    BY <2>2, SMT DEF FSInit
  <2> QED
    BY <2>1, <2>2 DEF FSInit
<1>1. /\ Unused.kind = "none" /\ Unused.srv = NoServer /\ Unused.pc = "idle" /\ Unused.ino = 0 /\ ~Unused.locked
      /\ ClosedFd.ino = 0 /\ ClosedFd.refs = 0
  BY DEF Unused, ClosedFd
<1>2. FSTypes
  <2>0. 0 \in 0..Len(metaFiles) /\ 0 \in Nat
    BY <1>0, SMT
  <2>1. Unused \in FSRecords(Len(metaFiles))
    BY <2>0 DEF Unused, FSRecords, FSPlaces
  <2>2. ClosedFd \in [ino : 0..Len(metaFiles), refs : Nat]
    BY <2>0 DEF ClosedFd
  <2>3. pool \in [Servers -> [ino : 0..Len(metaFiles), refs : Nat]]
    BY <1>0, <2>2
  <2>4. req \in [Requests -> FSRecords(Len(metaFiles))]
    BY <1>0, <2>1
  <2>5. fsPuts \in Nat
    BY <1>0, SMT
  <2> QED
    BY <1>0, <2>3, <2>4, <2>5 DEF FSTypes
<1>3. (\A r \in Requests : req[r] = Unused) /\ \A s \in Servers : pool[s] = ClosedFd
  BY <1>0
<1>4. NSLocked /\ AtRest
  BY <1>0, <1>1, <1>3 DEF NSLocked, AtRest
<1>5. Knows(Unused, fileData, meta, tornFile)
  BY <1>1 DEF Knows, Placed, Places, PutKnows, DeleteKnows, GetKnows
<1>6. RequestsKnow
  BY <1>3, <1>5 DEF RequestsKnow
<1>7. ~(0 > 0)
  BY SMT
<1>8. PoolCurrent /\ Apart
  BY <1>1, <1>3, <1>7 DEF PoolCurrent, Apart
<1>9. ReadersCounted
  <2> SUFFICES ASSUME NEW s \in Servers
               PROVE  pool[s].refs = Cardinality({r \in Requests : req[r].srv = s /\ req[r].ino # 0
                                                       /\ req[r].pc \in {"readinfo", "opendata", "body"}})
    BY DEF ReadersCounted
  <2>1. {r \in Requests : req[r].srv = s /\ req[r].ino # 0 /\ req[r].pc \in {"readinfo", "opendata", "body"}} = {}
    BY <1>1, <1>3
  <2> QED
    BY <1>1, <1>3, <2>1, FS_EmptySet
<1> QED
  BY <1>2, <1>4, <1>6, <1>8, <1>9 DEF FSIInv

\* The readers of a server that the pool counts.
CountedReaders(s) ==
  {r \in Requests : req[r].srv = s /\ req[r].ino # 0 /\ req[r].pc \in {"readinfo", "opendata", "body"}}

LEMMA LenNat == \A q \in Seq(Nat) : Len(q) \in Nat
BY SMT

LEMMA CountedFinite == \A s \in Servers : IsFiniteSet(CountedReaders(s)) /\ Cardinality(CountedReaders(s)) \in Nat
<1> SUFFICES ASSUME NEW s \in Servers PROVE IsFiniteSet(CountedReaders(s)) /\ Cardinality(CountedReaders(s)) \in Nat
  OBVIOUS
<1>1. CountedReaders(s) \subseteq Requests
  BY DEF CountedReaders
<1>2. IsFiniteSet(Requests)
  BY FSObjectAssumption
<1> QED
  BY <1>1, <1>2, FS_Subset, FS_CardinalityType

\* A request takes a step that changes nothing but the request itself, which
\* neither becomes nor ceases to be a reader.
LEMMA RequestMoves ==
  ASSUME FSIInv, NEW r \in Requests, NEW q,
         q \in FSRecords(Len(metaFiles)), Knows(q, fileData, meta, tornFile),
         req' = [req EXCEPT ![r] = q],
         fileData' = fileData, meta' = meta, metaFiles' = metaFiles, pool' = pool, tornFile' = tornFile,
         fsPuts' \in Nat,
         q.kind \in {req[r].kind, "none"}
           \/ \A o \in Requests : o # r => /\ q.kind \in {"put", "delete"} => req[o].kind \notin {"put", "delete", "get"}
                                           /\ req[o].kind \in {"put", "delete"} => q.kind \notin {"put", "delete", "get"},
         req[r].pc # "meta",
         (~FSReading(req[r]) /\ ~FSReading(q)) \/ (FSReading(req[r]) /\ FSReading(q) /\ q.srv = req[r].srv),
         q.locked => \A s \in Servers : pool[s].refs > 0 => q.ino # pool[s].ino
  PROVE  FSIInv'
<1>0. FSTypes /\ NSLocked /\ RequestsKnow /\ AtRest /\ PoolCurrent /\ Apart /\ ReadersCounted
  BY DEF FSIInv
<1>1. req \in [Requests -> FSRecords(Len(metaFiles))]
  BY <1>0 DEF FSTypes
<1>2. req'[r] = q /\ \A o \in Requests : o # r => req'[o] = req[o]
  BY <1>1
<1>3. FSTypes'
  <2>1. req' \in [Requests -> FSRecords(Len(metaFiles))]
    BY <1>1
  <2> QED
    BY <1>0, <2>1 DEF FSTypes, FSRecords
<1>4. NSLocked'
  <2> SUFFICES ASSUME NEW a \in Requests, NEW b \in Requests, a # b, req'[a].kind \in {"put", "delete"}
               PROVE  req'[b].kind \notin {"put", "delete", "get"}
    BY DEF NSLocked
  <2>1. CASE a = r
    <3>1. req'[b] = req[b]
      BY <1>2, <2>1
    <3> QED
      BY <1>0, <1>2, <2>1, <3>1 DEF NSLocked
  <2>2. CASE b = r
    <3>1. req'[a] = req[a]
      BY <1>2, <2>2
    <3> QED
      BY <1>0, <1>2, <2>2, <3>1 DEF NSLocked
  <2>3. CASE a # r /\ b # r
    <3>1. req'[a] = req[a] /\ req'[b] = req[b]
      BY <1>2, <2>3
    <3> QED
      BY <1>0, <3>1 DEF NSLocked
  <2> QED
    BY <2>1, <2>2, <2>3
<1>5. RequestsKnow'
  <2> SUFFICES ASSUME NEW o \in Requests PROVE Knows(req'[o], fileData', meta', tornFile')
    BY DEF RequestsKnow
  <2>1. Knows(req'[o], fileData, meta, tornFile)
    BY <1>0, <1>2 DEF RequestsKnow
  <2> QED
    BY <2>1
<1>6. AtRest'
  <2>1. (\A o \in Requests : req'[o].pc # "meta") => \A o \in Requests : req[o].pc # "meta"
    BY <1>2
  <2> QED
    BY <1>0, <2>1 DEF AtRest
<1>7. PoolCurrent'
  BY <1>0 DEF PoolCurrent
<1>8. Apart'
  <2> SUFFICES ASSUME NEW o \in Requests, NEW s \in Servers, req'[o].locked, pool[s].refs > 0
               PROVE  req'[o].ino # pool[s].ino
    BY DEF Apart
  <2>1. CASE o = r
    <3>1. req'[o] = q
      BY <1>2, <2>1
    <3> QED
      BY <3>1
  <2>2. CASE o # r
    <3>1. req'[o] = req[o]
      BY <1>2, <2>2
    <3> QED
      BY <1>0, <3>1 DEF Apart
  <2> QED
    BY <2>1, <2>2
<1>9. ReadersCounted'
  <2> SUFFICES ASSUME NEW s \in Servers, ~tornFile PROVE pool[s].refs = Cardinality(CountedReaders(s)')
    BY DEF ReadersCounted, CountedReaders
  <2>1. \A o \in Requests : (req'[o].srv = s /\ FSReading(req'[o])) <=> (req[o].srv = s /\ FSReading(req[o]))
    BY <1>2
  <2>2. CountedReaders(s)' = {o \in Requests : req'[o].srv = s /\ FSReading(req'[o])}
    BY DEF CountedReaders, FSReading
  <2>3. CountedReaders(s) = {o \in Requests : req[o].srv = s /\ FSReading(req[o])}
    BY DEF CountedReaders, FSReading
  <2>4. CountedReaders(s)' = CountedReaders(s)
    BY <2>1, <2>2, <2>3
  <2> QED
    BY <1>0, <2>4 DEF ReadersCounted, CountedReaders
<1> QED
  BY <1>3, <1>4, <1>5, <1>6, <1>7, <1>8, <1>9 DEF FSIInv

LEMMA GotoMoves ==
  ASSUME FSTypes, NEW r \in Requests, NEW p
  PROVE  /\ Goto(r, p) => req' = [req EXCEPT ![r] = [req[r] EXCEPT !.pc = p]]
         /\ \A b : req' = [req EXCEPT ![r].pc = p, ![r].locked = b]
                     => req' = [req EXCEPT ![r] = [req[r] EXCEPT !.pc = p, !.locked = b]]
BY DEF Goto, FSTypes, FSRecords

LEMMA EndedFacts ==
  /\ Ended.kind = "none" /\ Ended.srv = NoServer /\ Ended.pc = "done" /\ Ended.ino = 0 /\ ~Ended.locked
  /\ \A n \in Nat : Ended \in FSRecords(n)
  /\ \A f, m, t : Knows(Ended, f, m, t)
<1>1. Ended.kind = "none" /\ Ended.srv = NoServer /\ Ended.pc = "done" /\ Ended.ino = 0 /\ ~Ended.locked
  BY DEF Ended, Unused
<1>2. \A n \in Nat : 0 \in 0..n /\ 0 \in Nat
  BY SMT
<1>3. \A n \in Nat : Ended \in FSRecords(n)
  BY <1>2 DEF Ended, Unused, FSRecords, FSPlaces
<1>4. \A f, m, t : Knows(Ended, f, m, t)
  BY <1>1 DEF Knows, Placed, Places, PutKnows, DeleteKnows, GetKnows
<1> QED
  BY <1>1, <1>3, <1>4

LEMMA RequestFacts ==
  ASSUME FSIInv, NEW r \in Requests
  PROVE  /\ req[r] \in FSRecords(Len(metaFiles)) /\ Knows(req[r], fileData, meta, tornFile)
         /\ Len(metaFiles) \in Nat /\ meta \in 0..Len(metaFiles) /\ 0 \in 0..Len(metaFiles)
         /\ FSTypes /\ fsPuts \in Nat
<1>1. FSTypes /\ RequestsKnow
  BY DEF FSIInv
<1>2. Len(metaFiles) \in Nat
  BY <1>1, LenNat DEF FSTypes
<1>3. 0 \in 0..Len(metaFiles)
  BY <1>2, SMT
<1> QED
  BY <1>1, <1>2, <1>3 DEF FSTypes, RequestsKnow

\* A request ends and nothing else changes.
LEMMA RequestEnds ==
  ASSUME FSIInv, NEW r \in Requests, EndRequest(r),
         fileData' = fileData, meta' = meta, metaFiles' = metaFiles, pool' = pool, tornFile' = tornFile, fsPuts' = fsPuts,
         req[r].pc # "meta", ~FSReading(req[r])
  PROVE  FSIInv'
<1>1. req' = [req EXCEPT ![r] = Ended]
  BY DEF EndRequest
<1>2. Ended \in FSRecords(Len(metaFiles)) /\ Knows(Ended, fileData, meta, tornFile)
  BY RequestFacts, EndedFacts
<1>3. Ended.kind = "none" /\ ~FSReading(Ended) /\ ~Ended.locked
  BY EndedFacts DEF FSReading
<1>4. fsPuts' \in Nat
  BY RequestFacts
<1> QED
  BY <1>1, <1>2, <1>3, <1>4, RequestMoves

LEMMA StartRequestOK ==
  ASSUME FSIInv, OneServer, NEW r \in Requests, NEW s \in Servers, NEW k \in Kinds, StartRequest(r, s, k)
  PROVE  FSIInv'
<1>0. /\ req[r].pc = "idle" /\ NSFree(s, TakesNSLock(k)) /\ fsPuts' = (IF k = "put" THEN fsPuts + 1 ELSE fsPuts)
      /\ fileData' = fileData /\ meta' = meta /\ metaFiles' = metaFiles /\ pool' = pool /\ tornFile' = tornFile
  BY DEF StartRequest
<1> PICK b : b = IF k = "put" THEN fsPuts + 1 ELSE 0
  OBVIOUS
<1>p. PICK p : p = IF k \in {"get", "copy"} THEN "info" ELSE "open"
  OBVIOUS
<1>q. PICK q : q = [Unused EXCEPT !.kind = k, !.srv = s, !.pc = p, !.body = b]
  OBVIOUS
<1>1. req' = [req EXCEPT ![r] = q]
  BY <1>p, <1>q DEF StartRequest
<1>n. b \in Nat /\ 0 \in Nat /\ fsPuts' \in Nat
  BY <1>0, RequestFacts, SMT
<1>k. k \in AllKinds
  BY FSObjectAssumption
<1>2. /\ q.kind = k /\ q.srv = s /\ q.pc = p /\ q.ino = 0 /\ ~q.locked /\ ~q.fresh
  BY <1>q DEF Unused
<1>3. q \in FSRecords(Len(metaFiles))
  <2>1. p \in FSPlaces
    BY <1>p DEF FSPlaces
  <2>2. 0 \in 0..Len(metaFiles)
    BY RequestFacts
  <2> QED
    BY <1>n, <1>k, <1>q, <2>1, <2>2 DEF Unused, FSRecords
<1>4. Knows(q, fileData, meta, tornFile)
  <2>1. Placed(q)
    <3>1. k \in {"get", "copy"} => q.pc = "info"
      BY <1>2, <1>p
    <3>2. k \notin {"get", "copy"} => q.pc = "open"
      BY <1>2, <1>p
    <3>3. Places(q)
      BY <1>2, <1>k, <3>1, <3>2 DEF Places, AllKinds
    <3>4. q.pc \in {"info", "open"}
      BY <3>1, <3>2
    <3> QED
      BY <1>2, <3>3, <3>4 DEF Placed
  <2>2. p \in {"info", "open"}
    BY <1>p
  <2>3. PutKnows(q, fileData, meta, tornFile) /\ DeleteKnows(q, fileData) /\ GetKnows(q, fileData, meta, tornFile)
    BY <1>2, <2>2 DEF PutKnows, DeleteKnows, GetKnows
  <2> QED
    BY <2>1, <2>3 DEF Knows
<1>5. ASSUME NEW o \in Requests, o # r
      PROVE  /\ q.kind \in {"put", "delete"} => req[o].kind \notin {"put", "delete", "get"}
             /\ req[o].kind \in {"put", "delete"} => q.kind \notin {"put", "delete", "get"}
  <2>1. req[o].kind # "none" => req[o].srv = s
    BY RequestFacts DEF Knows, Placed, OneServer
  <2>2. req[o].kind # "none" =>
          /\ TakesNSLock(k) = "write" => TakesNSLock(req[o].kind) = "none"
          /\ TakesNSLock(k) = "read" => TakesNSLock(req[o].kind) # "write"
    BY <1>0, <2>1 DEF NSFree
  <2> QED
    BY <1>2, <2>2 DEF TakesNSLock
<1>6. ~FSReading(req[r]) /\ ~FSReading(q) /\ req[r].pc # "meta"
  BY <1>0, <1>2 DEF FSReading
<1> QED
  BY <1>0, <1>1, <1>2, <1>3, <1>4, <1>5, <1>6, <1>n, RequestMoves

LEMMA StatDataOK ==
  ASSUME FSIInv, NEW r \in Requests, StatData(r)
  PROVE  FSIInv'
<1>0. /\ req[r].pc = "stat" /\ fsPuts' = fsPuts /\ fsPuts' \in Nat
      /\ fileData' = fileData /\ meta' = meta /\ metaFiles' = metaFiles /\ pool' = pool /\ tornFile' = tornFile
  BY RequestFacts DEF StatData
<1>1. ~FSReading(req[r]) /\ req[r].pc # "meta"
  BY <1>0 DEF FSReading
<1>2. CASE fileData = 0
  <2>1. EndRequest(r)
    BY <1>2 DEF StatData
  <2> QED
    BY <1>0, <1>1, <2>1, RequestEnds
<1>3. CASE fileData # 0
  <2>p. PICK p : p = IF req[r].kind = "copy" THEN "open" ELSE "reopen"
    OBVIOUS
  <2>q. PICK q : q = [req[r] EXCEPT !.pc = p]
    OBVIOUS
  <2>1. req' = [req EXCEPT ![r] = q]
    BY <1>3, <2>p, <2>q, RequestFacts, GotoMoves DEF StatData
  <2>2. p \in FSPlaces
    BY <2>p DEF FSPlaces
  <2>f. /\ q \in FSRecords(Len(metaFiles)) /\ q.kind = req[r].kind /\ q.srv = req[r].srv /\ q.pc = p
        /\ q.ino = req[r].ino /\ q.etag = req[r].etag /\ q.locked = req[r].locked
    <3>1. req[r] \in FSRecords(Len(metaFiles))
      BY RequestFacts
    <3> QED
      BY <2>q, <2>2, <3>1 DEF FSRecords
  <2>3. Knows(q, fileData, meta, tornFile)
    <3>1. Placed(req[r]) /\ GetKnows(req[r], fileData, meta, tornFile)
      BY RequestFacts DEF Knows
    <3>2. req[r].kind \in {"get", "copy"} /\ ~req[r].locked
      BY <1>0, <3>1 DEF Placed, Places
    <3>3. Placed(q)
      BY <2>f, <2>p, <3>1, <3>2 DEF Placed, Places
    <3> QED
      BY <1>0, <1>3, <2>f, <2>p, <3>1, <3>2, <3>3 DEF Knows, GetKnows, PutKnows, DeleteKnows
  <2>4. ~FSReading(q) /\ ~q.locked
    <3>1. ~req[r].locked
      BY <1>0, RequestFacts DEF Knows, Placed
    <3> QED
      BY <2>f, <2>p, <3>1 DEF FSReading
  <2> QED
    BY <1>0, <1>1, <2>1, <2>f, <2>3, <2>4, RequestMoves
<1> QED
  BY <1>2, <1>3

LEMMA OpenForWriteOK ==
  ASSUME FSIInv, NEW r \in Requests, OpenForWrite(r)
  PROVE  FSIInv'
<1>0. /\ req[r].pc = "open" /\ fsPuts' = fsPuts /\ fsPuts' \in Nat
      /\ fileData' = fileData /\ meta' = meta /\ metaFiles' = metaFiles /\ pool' = pool /\ tornFile' = tornFile
  BY RequestFacts DEF OpenForWrite
<1>1. ~FSReading(req[r]) /\ req[r].pc # "meta"
  BY <1>0 DEF FSReading
<1>2. req[r] \in FSRecords(Len(metaFiles)) /\ Placed(req[r]) /\ PutKnows(req[r], fileData, meta, tornFile)
  BY RequestFacts DEF Knows
<1>3. req[r].kind \in {"put", "delete", "tags", "copy"} /\ ~req[r].locked
  BY <1>0, <1>2 DEF Placed, Places
<1>p. PICK p : p = IF meta # 0 THEN "lock" ELSE IF req[r].kind = "delete" THEN "remove" ELSE "create"
  OBVIOUS
<1>q. PICK q : q = [req[r] EXCEPT !.pc = p, !.ino = meta]
  OBVIOUS
<1>4. req' = [req EXCEPT ![r] = q]
  <2>1. GotoWith(r, p, meta)
    BY <1>p DEF OpenForWrite, AfterWriteFails
  <2> QED
    BY <1>q, <2>1, RequestFacts DEF GotoWith, FSTypes, FSRecords
<1>5. p \in FSPlaces /\ p \in {"lock", "remove", "create"}
  BY <1>p DEF FSPlaces
<1>6. meta \in 0..Len(metaFiles)
  BY RequestFacts
<1>f. /\ q \in FSRecords(Len(metaFiles)) /\ q.kind = req[r].kind /\ q.srv = req[r].srv /\ q.pc = p
      /\ q.ino = meta /\ q.locked = req[r].locked /\ q.fresh = req[r].fresh
  BY <1>q, <1>2, <1>5, <1>6 DEF FSRecords
<1>7. Knows(q, fileData, meta, tornFile)
  <2>1. Placed(q)
    <3>1. Places(q)
      BY <1>p, <1>f, <1>3 DEF Places
    <3> QED
      BY <1>2, <1>3, <1>5, <1>f, <3>1 DEF Placed
  <2>2. ASSUME req[r].kind = "put", meta = 0 PROVE fileData = 0 \/ tornFile
    <3>1. \A o \in Requests : req[o].pc # "meta"
      <4> SUFFICES ASSUME NEW o \in Requests, req[o].pc = "meta" PROVE FALSE
        OBVIOUS
      <4>1. req[o].kind = "put"
        BY RequestFacts DEF Knows, Placed, Places
      <4> QED
        BY <1>0, <2>2, <4>1 DEF FSIInv, NSLocked
    <3> QED
      BY <2>2, <3>1 DEF FSIInv, AtRest
  <2>3. PutKnows(q, fileData, meta, tornFile)
    BY <1>0, <1>2, <1>5, <1>f, <1>p, <2>2 DEF PutKnows
  <2> QED
    BY <1>3, <1>5, <1>f, <2>1, <2>3 DEF Knows, DeleteKnows, GetKnows
<1>8. ~FSReading(q) /\ ~q.locked
  BY <1>3, <1>5, <1>f DEF FSReading
<1> QED
  BY <1>0, <1>1, <1>4, <1>f, <1>7, <1>8, RequestMoves

\* The lock of an fs.json is granted to a request that writes.
LEMMA LockGranted ==
  ASSUME FSIInv, NEW r \in Requests, NEW p \in {"write", "remove"},
         req[r].pc \in {"lock", "lockcreated"}, ~Shared(req[r].ino),
         IF req[r].kind = "delete" THEN p = "remove" ELSE p = "write",
         req' = [req EXCEPT ![r].pc = p, ![r].locked = TRUE],
         fileData' = fileData, meta' = meta, metaFiles' = metaFiles, pool' = pool, tornFile' = tornFile, fsPuts' = fsPuts
  PROVE  FSIInv'
<1>1. ~FSReading(req[r]) /\ req[r].pc # "meta"
  BY DEF FSReading
<1>2. /\ req[r] \in FSRecords(Len(metaFiles)) /\ Placed(req[r]) /\ PutKnows(req[r], fileData, meta, tornFile)
      /\ fsPuts' \in Nat
  BY RequestFacts DEF Knows
<1>3. req[r].kind \in {"put", "delete", "tags", "copy"} /\ ~req[r].locked
  BY <1>2 DEF Placed, Places
<1>q. PICK q : q = [req[r] EXCEPT !.pc = p, !.locked = TRUE]
  OBVIOUS
<1>4. req' = [req EXCEPT ![r] = q]
  BY <1>q, RequestFacts, GotoMoves
<1>5. p \in FSPlaces
  BY DEF FSPlaces
<1>f. /\ q \in FSRecords(Len(metaFiles)) /\ q.kind = req[r].kind /\ q.srv = req[r].srv /\ q.pc = p
      /\ q.ino = req[r].ino /\ q.locked = TRUE /\ q.fresh = req[r].fresh
  BY <1>q, <1>2, <1>5 DEF FSRecords
<1>7. Knows(q, fileData, meta, tornFile)
  <2>1. Places(q)
    BY <1>f, <1>3 DEF Places
  <2>2. Placed(q)
    BY <1>2, <1>3, <1>f, <2>1 DEF Placed
  <2>3. PutKnows(q, fileData, meta, tornFile)
    BY <1>2, <1>f DEF PutKnows
  <2> QED
    BY <1>3, <1>f, <2>2, <2>3 DEF Knows, DeleteKnows, GetKnows
<1>8. ~FSReading(q)
  BY <1>f DEF FSReading
<1>9. \A s \in Servers : pool[s].refs > 0 => q.ino # pool[s].ino
  BY <1>f DEF Shared
<1> QED
  BY <1>1, <1>2, <1>4, <1>f, <1>7, <1>8, <1>9, RequestMoves

LEMMA LockForWriteOK ==
  ASSUME FSIInv, NEW r \in Requests, LockForWrite(r)
  PROVE  FSIInv'
<1>0. /\ req[r].pc = "lock" /\ fsPuts' = fsPuts /\ fsPuts' \in Nat /\ ~Shared(req[r].ino)
      /\ fileData' = fileData /\ meta' = meta /\ metaFiles' = metaFiles /\ pool' = pool /\ tornFile' = tornFile
  BY RequestFacts DEF LockForWrite
<1>a. CASE meta # 0
  <2>p. PICK p : p = IF req[r].kind = "delete" THEN "remove" ELSE "write"
    OBVIOUS
  <2>1. p \in {"write", "remove"} /\ (IF req[r].kind = "delete" THEN p = "remove" ELSE p = "write")
    BY <2>p
  <2>2. req' = [req EXCEPT ![r].pc = p, ![r].locked = TRUE]
    BY <1>a, <2>p DEF LockForWrite
  <2> QED
    BY <1>0, <2>1, <2>2, LockGranted
<1>b. CASE meta = 0
  <2>1. ~FSReading(req[r]) /\ req[r].pc # "meta"
    BY <1>0 DEF FSReading
  <2>2. req[r] \in FSRecords(Len(metaFiles)) /\ Placed(req[r]) /\ PutKnows(req[r], fileData, meta, tornFile)
    BY RequestFacts DEF Knows
  <2>3. req[r].kind \in {"delete", "tags", "copy"} /\ ~req[r].locked
    BY <1>0, <1>b, <2>2 DEF Placed, Places, PutKnows
  <2>p. PICK p : p = IF req[r].kind = "delete" THEN "remove" ELSE "create"
    OBVIOUS
  <2>q. PICK q : q = [req[r] EXCEPT !.pc = p, !.ino = 0]
    OBVIOUS
  <2>4. req' = [req EXCEPT ![r] = q]
    <3>1. GotoWith(r, p, 0)
      BY <1>b, <2>p DEF LockForWrite, AfterWriteFails
    <3> QED
      BY <2>q, <3>1, RequestFacts DEF GotoWith, FSTypes, FSRecords
  <2>5. p \in FSPlaces /\ p \in {"remove", "create"} /\ 0 \in 0..Len(metaFiles)
    BY <2>p, RequestFacts DEF FSPlaces
  <2>f. /\ q \in FSRecords(Len(metaFiles)) /\ q.kind = req[r].kind /\ q.srv = req[r].srv /\ q.pc = p
        /\ q.ino = 0 /\ q.locked = req[r].locked
    BY <2>q, <2>2, <2>5 DEF FSRecords
  <2>6. Placed(q)
    <3>1. Places(q)
      BY <2>p, <2>f, <2>3 DEF Places
    <3> QED
      BY <2>2, <2>3, <2>5, <2>f, <3>1 DEF Placed
  <2>7. Knows(q, fileData, meta, tornFile)
    BY <2>3, <2>5, <2>f, <2>6 DEF Knows, PutKnows, DeleteKnows, GetKnows
  <2>8. ~FSReading(q) /\ ~q.locked
    BY <2>3, <2>5, <2>f DEF FSReading
  <2> QED
    BY <1>0, <2>1, <2>4, <2>f, <2>7, <2>8, RequestMoves
<1> QED
  BY <1>a, <1>b

LEMMA LockCreatedOK ==
  ASSUME FSIInv, NEW r \in Requests, LockCreated(r)
  PROVE  FSIInv'
<1>0. /\ req[r].pc = "lockcreated" /\ fsPuts' = fsPuts /\ ~Shared(req[r].ino)
      /\ fileData' = fileData /\ meta' = meta /\ metaFiles' = metaFiles /\ pool' = pool /\ tornFile' = tornFile
  BY DEF LockCreated
<1>1. ~FSReading(req[r]) /\ req[r].kind # "delete"
  BY <1>0, RequestFacts DEF FSReading, Knows, Placed, Places
<1>a. CASE meta # 0
  <2>2. req' = [req EXCEPT ![r].pc = "write", ![r].locked = TRUE]
    BY <1>a DEF LockCreated
  <2> QED
    BY <1>0, <1>1, <2>2, LockGranted
<1>b. CASE meta = 0
  <2>1. EndRequest(r)
    BY <1>b DEF LockCreated
  <2> QED
    BY <1>0, <1>1, <2>1, RequestEnds
<1> QED
  BY <1>a, <1>b

LEMMA WriteTagsOK ==
  ASSUME FSIInv, NEW r \in Requests, WriteTags(r)
  PROVE  FSIInv'
<1>0. /\ req[r].pc = "write" /\ fsPuts' = fsPuts /\ EndRequest(r)
      /\ fileData' = fileData /\ meta' = meta /\ metaFiles' = metaFiles /\ pool' = pool /\ tornFile' = tornFile
  BY DEF WriteTags
<1>1. ~FSReading(req[r])
  BY <1>0 DEF FSReading
<1> QED
  BY <1>0, <1>1, RequestEnds

\* A request takes a step that changes the request itself and the pool.
LEMMA ReaderMoves ==
  ASSUME FSIInv, NEW r \in Requests, NEW q,
         q \in FSRecords(Len(metaFiles)), Knows(q, fileData, meta, tornFile'),
         req' = [req EXCEPT ![r] = q],
         fileData' = fileData, meta' = meta, metaFiles' = metaFiles, tornFile => tornFile', fsPuts' = fsPuts,
         q.kind \in {req[r].kind, "none"}, req[r].pc # "meta",
         pool' \in [Servers -> [ino : 0..Len(metaFiles), refs : Nat]],
         PoolCurrent', Apart', ReadersCounted'
  PROVE  FSIInv'
<1>0. FSTypes /\ NSLocked /\ RequestsKnow /\ AtRest
  BY DEF FSIInv
<1>1. req \in [Requests -> FSRecords(Len(metaFiles))]
  BY <1>0 DEF FSTypes
<1>2. req'[r] = q /\ \A o \in Requests : o # r => req'[o] = req[o]
  BY <1>1
<1>3. FSTypes'
  <2>1. req' \in [Requests -> FSRecords(Len(metaFiles))]
    BY <1>1
  <2> QED
    BY <1>0, <2>1 DEF FSTypes, FSRecords
<1>4. NSLocked'
  <2>1. \A o \in Requests : req'[o].kind \in {req[o].kind, "none"}
    BY <1>2
  <2> QED
    BY <1>0, <2>1 DEF NSLocked
<1>5. RequestsKnow'
  <2> SUFFICES ASSUME NEW o \in Requests PROVE Knows(req'[o], fileData', meta', tornFile')
    BY DEF RequestsKnow
  <2>1. CASE o = r
    BY <1>2, <2>1
  <2>2. CASE o # r
    <3>1. Knows(req[o], fileData, meta, tornFile)
      BY <1>0 DEF RequestsKnow
    <3>2. Knows(req[o], fileData, meta, tornFile')
      BY <3>1 DEF Knows, PutKnows, GetKnows
    <3>3. req'[o] = req[o]
      BY <1>2, <2>2
    <3> QED
      BY <3>2, <3>3
  <2> QED
    BY <2>1, <2>2
<1>6. AtRest'
  <2>1. (\A o \in Requests : req'[o].pc # "meta") => \A o \in Requests : req[o].pc # "meta"
    BY <1>2
  <2> QED
    BY <1>0, <2>1 DEF AtRest
<1> QED
  BY <1>3, <1>4, <1>5, <1>6 DEF FSIInv

LEMMA JoinedFacts ==
  ASSUME FSTypes, NEW s \in Servers, NEW i \in 0..Len(metaFiles), pool' = Joined(s, i)
  PROVE  /\ pool' \in [Servers -> [ino : 0..Len(metaFiles), refs : Nat]]
         /\ pool[s].refs \in Nat /\ pool'[s].refs = pool[s].refs + 1
         /\ pool'[s].ino = IF pool[s].refs > 0 THEN pool[s].ino ELSE i
<1>1. pool \in [Servers -> [ino : 0..Len(metaFiles), refs : Nat]]
  BY DEF FSTypes
<1> QED
  BY <1>1, SMT DEF Joined

LEMMA LeftFacts ==
  ASSUME FSTypes, NEW s \in Servers, pool' = Left(s)
  PROVE  /\ pool' \in [Servers -> [ino : 0..Len(metaFiles), refs : Nat]]
         /\ pool[s].refs \in Nat /\ pool'[s].refs = (IF pool[s].refs > 1 THEN pool[s].refs - 1 ELSE 0)
         /\ pool'[s].refs > 0 => pool[s].refs > 0 /\ pool'[s].ino = pool[s].ino
<1>1. pool \in [Servers -> [ino : 0..Len(metaFiles), refs : Nat]] /\ Len(metaFiles) \in Nat
  BY LenNat DEF FSTypes
<1> QED
  BY <1>1, SMT DEF Left, ClosedFd

\* A request joins the readers of its server.
LEMMA ReaderJoins ==
  ASSUME FSIInv, OneServer, NEW r \in Requests, NEW q, NEW i \in 0..Len(metaFiles),
         q \in FSRecords(Len(metaFiles)), Knows(q, fileData, meta, tornFile'),
         req' = [req EXCEPT ![r] = q], req[r].srv \in Servers, q.srv = req[r].srv,
         fileData' = fileData, meta' = meta, metaFiles' = metaFiles, tornFile => tornFile', fsPuts' = fsPuts,
         q.kind = req[r].kind, req[r].pc # "meta", ~FSReading(req[r]), FSReading(q), ~q.locked,
         pool' = Joined(req[r].srv, i), q.ino = pool'[req[r].srv].ino, tornFile' \/ q.ino = meta,
         pool[req[r].srv].refs > 0 \/ ~Exclusive(i)
  PROVE  FSIInv'
<1> PICK s \in Servers : s = req[r].srv
  OBVIOUS
<1>0. FSTypes /\ PoolCurrent /\ Apart /\ ReadersCounted
  BY DEF FSIInv
<1>1. req \in [Requests -> FSRecords(Len(metaFiles))]
  BY <1>0 DEF FSTypes
<1>2. req'[r] = q /\ \A o \in Requests : o # r => req'[o] = req[o]
  BY <1>1
<1>3. \A t \in Servers : t = s
  BY DEF OneServer
<1>4. /\ pool' \in [Servers -> [ino : 0..Len(metaFiles), refs : Nat]]
      /\ pool[s].refs \in Nat /\ pool'[s].refs = pool[s].refs + 1
      /\ pool'[s].ino = IF pool[s].refs > 0 THEN pool[s].ino ELSE i
  BY <1>0, JoinedFacts
<1>5. PoolCurrent'
  <2>1. q.ino # 0 /\ q.ino = pool'[s].ino
    BY DEF FSReading
  <2> QED
    BY <1>3, <2>1 DEF PoolCurrent
<1>6. Apart'
  <2> SUFFICES ASSUME NEW o \in Requests, req'[o].locked PROVE req'[o].ino # pool'[s].ino
    BY <1>3 DEF Apart
  <2>1. req'[o] = req[o] /\ req[o].locked
    BY <1>2
  <2>2. CASE pool[s].refs > 0
    <3>1. req[o].ino # pool[s].ino
      BY <1>0, <2>1, <2>2 DEF Apart
    <3> QED BY <1>4, <2>1, <2>2, <3>1
  <2>3. CASE ~(pool[s].refs > 0)
    BY <1>4, <2>1, <2>3 DEF Exclusive
  <2> QED
    BY <2>2, <2>3
<1>7. ReadersCounted'
  <2> SUFFICES ASSUME ~tornFile' PROVE pool'[s].refs = Cardinality(CountedReaders(s)')
    BY <1>3 DEF ReadersCounted, CountedReaders
  <2>1. CountedReaders(s)' = CountedReaders(s) \cup {r} /\ r \notin CountedReaders(s)
    BY <1>2 DEF CountedReaders, FSReading
  <2>2. Cardinality(CountedReaders(s)') = Cardinality(CountedReaders(s)) + 1
    <3>1. PICK C, D : C = CountedReaders(s) /\ D = CountedReaders(s)'
      OBVIOUS
    <3>2. IsFiniteSet(C)
      BY <3>1, CountedFinite
    <3>3. D = C \cup {r} /\ r \notin C
      BY <2>1, <3>1
    <3>4. Cardinality(D) = Cardinality(C) + 1
      BY ONLY <3>2, <3>3, FS_AddElement, Zenon
    <3> QED BY <3>1, <3>4
  <2>3. pool[s].refs = Cardinality(CountedReaders(s))
    BY <1>0 DEF ReadersCounted, CountedReaders
  <2> QED
    BY <1>4, <2>2, <2>3
<1> QED
  BY <1>4, <1>5, <1>6, <1>7, ReaderMoves

\* A reader leaves.
LEMMA ReaderLeaves ==
  ASSUME FSIInv, OneServer, NEW r \in Requests, NEW q,
         q \in FSRecords(Len(metaFiles)), Knows(q, fileData, meta, tornFile),
         req' = [req EXCEPT ![r] = q], req[r].srv \in Servers,
         fileData' = fileData, meta' = meta, metaFiles' = metaFiles, tornFile' = tornFile, fsPuts' = fsPuts,
         q.kind \in {req[r].kind, "none"}, req[r].pc # "meta", tornFile \/ FSReading(req[r]), ~FSReading(q), ~q.locked,
         pool' = Left(req[r].srv)
  PROVE  FSIInv'
<1> PICK s \in Servers : s = req[r].srv
  OBVIOUS
<1>0. FSTypes /\ PoolCurrent /\ Apart /\ ReadersCounted
  BY DEF FSIInv
<1>1. req \in [Requests -> FSRecords(Len(metaFiles))]
  BY <1>0 DEF FSTypes
<1>2. req'[r] = q /\ \A o \in Requests : o # r => req'[o] = req[o]
  BY <1>1
<1>3. \A t \in Servers : t = s
  BY DEF OneServer
<1>4. /\ pool' \in [Servers -> [ino : 0..Len(metaFiles), refs : Nat]]
      /\ pool[s].refs \in Nat /\ pool'[s].refs = (IF pool[s].refs > 1 THEN pool[s].refs - 1 ELSE 0)
      /\ pool'[s].refs > 0 => pool[s].refs > 0 /\ pool'[s].ino = pool[s].ino
  BY <1>0, LeftFacts
<1>5. PoolCurrent'
  BY <1>0, <1>3, <1>4 DEF PoolCurrent
<1>6. Apart'
  <2> SUFFICES ASSUME NEW o \in Requests, req'[o].locked, pool'[s].refs > 0 PROVE req'[o].ino # pool'[s].ino
    BY <1>3 DEF Apart
  <2>1. req'[o] = req[o] /\ req[o].locked
    BY <1>2
  <2> QED
    BY <1>0, <1>4, <2>1 DEF Apart
<1>7. ReadersCounted'
  <2> SUFFICES ASSUME ~tornFile PROVE pool'[s].refs = Cardinality(CountedReaders(s)')
    BY <1>3 DEF ReadersCounted, CountedReaders
  <2>1. CountedReaders(s)' = CountedReaders(s) \ {r} /\ r \in CountedReaders(s)
    BY <1>2 DEF CountedReaders, FSReading
  <2>2. Cardinality(CountedReaders(s)') = Cardinality(CountedReaders(s)) - 1
    <3>1. PICK C, D : C = CountedReaders(s) /\ D = CountedReaders(s)'
      OBVIOUS
    <3>2. IsFiniteSet(C)
      BY <3>1, CountedFinite
    <3>3. D = C \ {r} /\ r \in C
      BY <2>1, <3>1
    <3>4. Cardinality(D) = Cardinality(C) - 1
      BY ONLY <3>2, <3>3, FS_RemoveElement, Zenon
    <3> QED BY <3>1, <3>4
  <2>3. pool[s].refs = Cardinality(CountedReaders(s)) /\ CountedReaders(s) # {}
    BY <1>0, <2>1 DEF ReadersCounted, CountedReaders
  <2>4. Cardinality(CountedReaders(s)) # 0
    BY <2>3, CountedFinite, FS_EmptySet
  <2>5. PICK k, m, n : k = Cardinality(CountedReaders(s)) /\ m = Cardinality(CountedReaders(s)') /\ n = pool'[s].refs
    OBVIOUS
  <2>6. k \in Nat /\ k # 0 /\ m = k - 1 /\ n = IF k > 1 THEN k - 1 ELSE 0
    BY <1>4, <2>2, <2>3, <2>4, <2>5, CountedFinite
  <2>7. n = m
    BY ONLY <2>6, SMT
  <2> QED
    BY <2>5, <2>7
<1> QED
  BY <1>4, <1>5, <1>6, <1>7, ReaderMoves

\* fsIOPool.Open finds no descriptor: the request goes to the lock, or on without.
LEMMA GoesWithoutFd ==
  ASSUME FSIInv, NEW r \in Requests, NEW p \in FSPlaces, NEW i \in {0, meta},
         req[r].pc \in {"info", "infolock", "reopen", "relock"}, GotoWith(r, p, i),
         /\ i # 0 => (req[r].pc = "info" /\ p = "infolock") \/ (req[r].pc = "reopen" /\ p = "relock")
         /\ i = 0 => meta = 0 /\ p = IF req[r].pc \in {"info", "infolock"} THEN "stat" ELSE "opendata",
         fileData' = fileData, meta' = meta, metaFiles' = metaFiles, pool' = pool, tornFile' = tornFile, fsPuts' = fsPuts
  PROVE  FSIInv'
<1>1. ~FSReading(req[r]) /\ req[r].pc # "meta" /\ fsPuts' \in Nat
  BY RequestFacts DEF FSReading
<1>2. req[r] \in FSRecords(Len(metaFiles)) /\ Placed(req[r]) /\ GetKnows(req[r], fileData, meta, tornFile)
  BY RequestFacts DEF Knows
<1>3. req[r].kind \in {"get", "copy"} /\ ~req[r].locked
  BY <1>2 DEF Placed, Places
<1>q. PICK q : q = [req[r] EXCEPT !.pc = p, !.ino = i]
  OBVIOUS
<1>4. req' = [req EXCEPT ![r] = q]
  BY <1>q, RequestFacts DEF GotoWith, FSTypes, FSRecords
<1>5. i \in 0..Len(metaFiles)
  BY RequestFacts
<1>f. /\ q \in FSRecords(Len(metaFiles)) /\ q.kind = req[r].kind /\ q.srv = req[r].srv /\ q.pc = p
      /\ q.ino = i /\ q.etag = req[r].etag /\ q.locked = req[r].locked
  BY <1>q, <1>2, <1>5 DEF FSRecords
<1>6. p \in {"infolock", "relock", "stat", "opendata"}
  OBVIOUS
<1>7. req[r].kind = "get" /\ meta = 0 => fileData = 0 \/ tornFile
  <2> SUFFICES ASSUME req[r].kind = "get", meta = 0 PROVE fileData = 0 \/ tornFile
    OBVIOUS
  <2>1. \A o \in Requests : req[o].pc # "meta"
    <3> SUFFICES ASSUME NEW o \in Requests, req[o].pc = "meta" PROVE FALSE
      OBVIOUS
    <3>1. req[o].kind = "put"
      BY RequestFacts DEF Knows, Placed, Places
    <3> QED
      BY <3>1 DEF FSIInv, NSLocked
  <2> QED
    BY <2>1 DEF FSIInv, AtRest
<1>8. Knows(q, fileData, meta, tornFile)
  <2>1. Places(q)
    BY <1>2, <1>3, <1>f DEF Placed, Places
  <2>2. Placed(q)
    BY <1>2, <1>3, <1>6, <1>f, <2>1 DEF Placed
  <2>3. GetKnows(q, fileData, meta, tornFile)
    BY <1>2, <1>6, <1>7, <1>f DEF GetKnows
  <2> QED
    BY <1>3, <1>f, <2>2, <2>3 DEF Knows, PutKnows, DeleteKnows
<1>9. ~FSReading(q) /\ ~q.locked
  BY <1>3, <1>6, <1>f DEF FSReading
<1> QED
  BY <1>1, <1>4, <1>f, <1>8, <1>9, RequestMoves

LEMMA PoolOpenOK ==
  ASSUME FSIInv, OneServer, NEW r \in Requests,
         NEW from, NEW wait, NEW next, NEW absent, PoolOpen(r, from, wait, next, absent),
         \/ from = "info" /\ wait = "infolock" /\ next = "readinfo" /\ absent = "stat"
         \/ from = "reopen" /\ wait = "relock" /\ next = "opendata" /\ absent = "opendata"
  PROVE  FSIInv'
<1>0. /\ req[r].pc = from /\ fsPuts' = fsPuts
      /\ fileData' = fileData /\ meta' = meta /\ metaFiles' = metaFiles /\ tornFile' = tornFile
  BY DEF PoolOpen
<1>p. wait \in FSPlaces /\ next \in FSPlaces /\ absent \in FSPlaces
  BY DEF FSPlaces
<1>1. CASE pool[req[r].srv].refs = 0 /\ meta # 0 /\ GotoWith(r, wait, meta) /\ UNCHANGED pool
  BY <1>0, <1>1, <1>p, GoesWithoutFd
<1>2. CASE pool[req[r].srv].refs = 0 /\ meta = 0 /\ GotoWith(r, absent, 0) /\ UNCHANGED pool
  BY <1>0, <1>2, <1>p, GoesWithoutFd
<1>3. CASE /\ pool[req[r].srv].refs > 0 /\ GotoWith(r, next, pool[req[r].srv].ino)
           /\ pool' = Joined(req[r].srv, 0)
  <2>1. req[r] \in FSRecords(Len(metaFiles)) /\ Placed(req[r]) /\ GetKnows(req[r], fileData, meta, tornFile)
    BY RequestFacts DEF Knows
  <2>2. req[r].kind \in {"get", "copy"} /\ ~req[r].locked /\ req[r].srv \in Servers
    BY <1>0, <2>1 DEF Placed, Places
  <2>i. PICK i : i = pool[req[r].srv].ino
    OBVIOUS
  <2>q. PICK q : q = [req[r] EXCEPT !.pc = next, !.ino = i]
    OBVIOUS
  <2>4. req' = [req EXCEPT ![r] = q]
    BY <1>3, <2>i, <2>q, RequestFacts DEF GotoWith, FSTypes, FSRecords
  <2>5. i \in 0..Len(metaFiles) /\ i # 0 /\ (tornFile \/ i = meta)
    BY <1>3, <2>2, <2>i DEF FSIInv, FSTypes, PoolCurrent
  <2>f. /\ q \in FSRecords(Len(metaFiles)) /\ q.kind = req[r].kind /\ q.srv = req[r].srv /\ q.pc = next
        /\ q.ino = i /\ q.etag = req[r].etag /\ q.locked = req[r].locked
    BY <2>q, <1>p, <2>1, <2>5 DEF FSRecords
  <2>6. next \in {"readinfo", "opendata"}
    OBVIOUS
  <2>7. Knows(q, fileData, meta, tornFile)
    <3>1. Places(q)
      BY <1>0, <2>1, <2>2, <2>f DEF Placed, Places
    <3>2. Placed(q)
      BY <2>2, <2>5, <2>6, <2>f, <3>1 DEF Placed
    <3>3. GetKnows(q, fileData, meta, tornFile)
      BY <1>0, <2>1, <2>5, <2>f DEF GetKnows
    <3> QED
      BY <2>2, <2>f, <3>2, <3>3 DEF Knows, PutKnows, DeleteKnows
  <2>8. /\ FSReading(q) /\ ~q.locked /\ ~FSReading(req[r]) /\ req[r].pc # "meta" /\ 0 \in 0..Len(metaFiles)
        /\ FSTypes
    BY <1>0, <2>2, <2>5, <2>6, <2>f, RequestFacts DEF FSReading
  <2>9. q.ino = pool'[req[r].srv].ino
    BY <1>3, <2>2, <2>8, <2>f, <2>i, JoinedFacts
  <2>10. Knows(q, fileData, meta, tornFile') /\ (tornFile => tornFile') /\ (tornFile' \/ q.ino = meta)
    BY <1>0, <2>5, <2>7, <2>f
  <2> QED
    BY <1>0, <1>3, <2>2, <2>4, <2>f, <2>8, <2>9, <2>10, ReaderJoins
<1> QED
  BY <1>1, <1>2, <1>3 DEF PoolOpen

LEMMA PoolLockOK ==
  ASSUME FSIInv, OneServer, NEW r \in Requests,
         NEW wait, NEW next, NEW absent, PoolLock(r, wait, next, absent),
         \/ wait = "infolock" /\ next = "readinfo" /\ absent = "stat"
         \/ wait = "relock" /\ next = "opendata" /\ absent = "opendata"
  PROVE  FSIInv'
<1>0. /\ req[r].pc = wait /\ fsPuts' = fsPuts /\ ~Exclusive(req[r].ino)
      /\ fileData' = fileData /\ meta' = meta /\ metaFiles' = metaFiles
  BY DEF PoolLock
<1>p. next \in FSPlaces /\ absent \in FSPlaces
  BY DEF FSPlaces
<1>a. CASE meta = 0
  <2>1. GotoWith(r, absent, 0) /\ pool' = pool /\ tornFile' = tornFile
    BY <1>a DEF PoolLock
  <2> QED
    BY <1>0, <1>a, <1>p, <2>1, GoesWithoutFd
<1>b. CASE meta # 0
  <2>0. /\ pool' = Joined(req[r].srv, req[r].ino) /\ GotoWith(r, next, pool'[req[r].srv].ino)
        /\ tornFile' = (tornFile \/ (req[r].kind = "copy" /\ pool'[req[r].srv].ino # meta))
    BY <1>b DEF PoolLock
  <2>1. req[r] \in FSRecords(Len(metaFiles)) /\ Placed(req[r]) /\ GetKnows(req[r], fileData, meta, tornFile)
    BY RequestFacts DEF Knows
  <2>2. req[r].kind \in {"get", "copy"} /\ ~req[r].locked /\ req[r].srv \in Servers /\ req[r].ino # 0
    BY <1>0, <2>1 DEF Placed, Places
  <2>3. req[r].ino \in 0..Len(metaFiles) /\ FSTypes
    BY <2>1, RequestFacts DEF FSRecords
  <2>i. PICK i : i = pool'[req[r].srv].ino
    OBVIOUS
  <2>5. i = IF pool[req[r].srv].refs > 0 THEN pool[req[r].srv].ino ELSE req[r].ino
    BY <2>0, <2>2, <2>3, <2>i, JoinedFacts
  <2>6. i \in 0..Len(metaFiles) /\ i # 0
    BY <2>2, <2>3, <2>5 DEF FSIInv, FSTypes, PoolCurrent
  <2>7. req[r].kind = "get" => tornFile \/ i = meta
    <3>1. req[r].kind = "get" => req[r].ino = meta
      BY <1>0, <2>1 DEF GetKnows
    <3> QED
      BY <2>2, <2>5, <3>1 DEF FSIInv, PoolCurrent
  <2>8. (tornFile => tornFile') /\ (tornFile' \/ i = meta)
    BY <2>0, <2>2, <2>7, <2>i
  <2>q. PICK q : q = [req[r] EXCEPT !.pc = next, !.ino = i]
    OBVIOUS
  <2>9. req' = [req EXCEPT ![r] = q]
    BY <2>0, <2>i, <2>q, RequestFacts DEF GotoWith, FSTypes, FSRecords
  <2>f. /\ q \in FSRecords(Len(metaFiles)) /\ q.kind = req[r].kind /\ q.srv = req[r].srv /\ q.pc = next
        /\ q.ino = i /\ q.etag = req[r].etag /\ q.locked = req[r].locked
    BY <2>q, <1>p, <2>1, <2>6 DEF FSRecords
  <2>10. next \in {"readinfo", "opendata"}
    OBVIOUS
  <2>11. Knows(q, fileData, meta, tornFile')
    <3>1. Places(q)
      BY <1>0, <2>1, <2>2, <2>f DEF Placed, Places
    <3>2. Placed(q)
      BY <2>2, <2>6, <2>10, <2>f, <3>1 DEF Placed
    <3>3. GetKnows(req[r], fileData, meta, tornFile')
      BY <2>1, <2>8 DEF GetKnows
    <3>4. GetKnows(q, fileData, meta, tornFile')
      BY <1>0, <2>8, <2>6, <2>f, <3>3 DEF GetKnows
    <3> QED
      BY <2>2, <2>f, <3>2, <3>4 DEF Knows, PutKnows, DeleteKnows
  <2>12. /\ FSReading(q) /\ ~q.locked /\ ~FSReading(req[r]) /\ req[r].pc # "meta"
    BY <1>0, <2>2, <2>6, <2>10, <2>f DEF FSReading
  <2>13. q.ino = pool'[req[r].srv].ino /\ (tornFile' \/ q.ino = meta)
    BY <2>8, <2>f, <2>i
  <2> QED
    BY <1>0, <2>0, <2>2, <2>3, <2>8, <2>9, <2>f, <2>11, <2>12, <2>13, ReaderJoins
<1> QED
  BY <1>a, <1>b

LEMMA ReadInfoOK ==
  ASSUME FSIInv, OneServer, NEW r \in Requests, ReadInfo(r)
  PROVE  FSIInv'
<1>0. /\ req[r].pc = "readinfo" /\ fsPuts' = fsPuts /\ pool' = Left(req[r].srv)
      /\ fileData' = fileData /\ meta' = meta /\ metaFiles' = metaFiles /\ tornFile' = tornFile
  BY DEF ReadInfo
<1>1. req[r] \in FSRecords(Len(metaFiles)) /\ Placed(req[r]) /\ GetKnows(req[r], fileData, meta, tornFile)
  BY RequestFacts DEF Knows
<1>2. req[r].kind \in {"get", "copy"} /\ ~req[r].locked /\ req[r].srv \in Servers /\ req[r].ino # 0
  BY <1>0, <1>1 DEF Placed, Places
<1>e. PICK e : e = metaFiles[req[r].ino]
  OBVIOUS
<1>q. PICK q : q = [req[r] EXCEPT !.pc = "stat", !.etag = e]
  OBVIOUS
<1>3. req' = [req EXCEPT ![r] = q]
  BY <1>e, <1>q, RequestFacts DEF ReadInfo, FSTypes, FSRecords
<1>4. e \in Nat
  <2>1. metaFiles \in Seq(Nat) /\ req[r].ino \in 0..Len(metaFiles)
    BY <1>1, RequestFacts DEF FSTypes, FSRecords
  <2>2. PICK i : i = req[r].ino
    OBVIOUS
  <2>3. metaFiles \in Seq(Nat) /\ i \in 0..Len(metaFiles) /\ i # 0 /\ e = metaFiles[i]
    BY <1>2, <1>e, <2>1, <2>2
  <2> QED
    BY ONLY <2>3, SMT
<1>f. /\ q \in FSRecords(Len(metaFiles)) /\ q.kind = req[r].kind /\ q.srv = req[r].srv /\ q.pc = "stat"
      /\ q.ino = req[r].ino /\ q.etag = e /\ q.locked = req[r].locked
  BY <1>q, <1>1, <1>4 DEF FSRecords, FSPlaces
<1>5. req[r].kind = "get" => tornFile \/ fileData = 0 \/ e = fileData
  <2> SUFFICES ASSUME req[r].kind = "get", ~tornFile, fileData # 0 PROVE e = fileData
    OBVIOUS
  <2>1. \A o \in Requests : req[o].pc # "meta"
    <3> SUFFICES ASSUME NEW o \in Requests, req[o].pc = "meta" PROVE FALSE
      OBVIOUS
    <3>1. req[o].kind = "put"
      BY RequestFacts DEF Knows, Placed, Places
    <3> QED
      BY <3>1 DEF FSIInv, NSLocked
  <2>2. req[r].ino = meta
    BY <1>0, <1>1 DEF GetKnows
  <2> QED
    BY <1>e, <2>1, <2>2 DEF FSIInv, AtRest
<1>6. Knows(q, fileData, meta, tornFile)
  <2>1. Placed(q)
    BY <1>2, <1>f DEF Placed, Places
  <2>2. GetKnows(q, fileData, meta, tornFile)
    BY <1>5, <1>f DEF GetKnows
  <2> QED
    BY <1>2, <1>f, <2>1, <2>2 DEF Knows, PutKnows, DeleteKnows
<1>7. FSReading(req[r]) /\ ~FSReading(q) /\ ~q.locked
  BY <1>0, <1>2, <1>f DEF FSReading
<1>8. req[r].pc # "meta" /\ q.kind \in {req[r].kind, "none"}
  BY <1>0, <1>f
<1> QED
  BY <1>0, <1>2, <1>3, <1>f, <1>6, <1>7, <1>8, ReaderLeaves

LEMMA OpenDataOK ==
  ASSUME FSIInv, NEW r \in Requests, OpenData(r)
  PROVE  FSIInv'
<1>0. /\ req[r].pc = "opendata" /\ fsPuts' = fsPuts
      /\ fileData' = fileData /\ meta' = meta /\ metaFiles' = metaFiles /\ tornFile' = tornFile
  BY DEF OpenData
<1>1. /\ req[r] \in FSRecords(Len(metaFiles)) /\ Placed(req[r]) /\ GetKnows(req[r], fileData, meta, tornFile)
      /\ fileData \in Nat /\ fsPuts' \in Nat
  BY <1>0, RequestFacts DEF Knows, FSTypes
<1>2. req[r].kind = "get" /\ ~req[r].locked /\ req[r].srv \in Servers
  BY <1>0, <1>1 DEF Placed, Places
<1>3. fileData # 0 /\ (tornFile \/ req[r].etag = fileData) /\ (tornFile \/ req[r].ino # 0)
  BY <1>0, <1>1, <1>2 DEF GetKnows
<1>q. PICK q : q = [req[r] EXCEPT !.pc = "body", !.body = fileData]
  OBVIOUS
<1>4. req' = [req EXCEPT ![r] = q] /\ pool' = pool
  BY <1>3, <1>q, RequestFacts DEF OpenData, FSTypes, FSRecords
<1>f. /\ q \in FSRecords(Len(metaFiles)) /\ q.kind = req[r].kind /\ q.srv = req[r].srv /\ q.pc = "body"
      /\ q.ino = req[r].ino /\ q.etag = req[r].etag /\ q.body = fileData /\ q.locked = req[r].locked
  BY <1>q, <1>1 DEF FSRecords, FSPlaces
<1>6. Knows(q, fileData, meta, tornFile)
  <2>1. Placed(q)
    BY <1>2, <1>f DEF Placed, Places
  <2>2. GetKnows(q, fileData, meta, tornFile)
    BY <1>3, <1>f DEF GetKnows
  <2> QED
    BY <1>2, <1>f, <2>1, <2>2 DEF Knows, PutKnows, DeleteKnows
<1>7. FSReading(req[r]) <=> FSReading(q)
  BY <1>0, <1>f DEF FSReading
<1>8. req[r].pc # "meta" /\ q.kind \in {req[r].kind, "none"} /\ ~q.locked
  BY <1>0, <1>2, <1>f
<1> QED
  BY <1>0, <1>1, <1>4, <1>f, <1>6, <1>7, <1>8, RequestMoves

LEMMA CloseReaderOK ==
  ASSUME FSIInv, OneServer, NEW r \in Requests, CloseReader(r)
  PROVE  FSIInv'
<1>0. /\ req[r].pc = "body" /\ fsPuts' = fsPuts /\ pool' = Left(req[r].srv) /\ req' = [req EXCEPT ![r] = Ended]
      /\ fileData' = fileData /\ meta' = meta /\ metaFiles' = metaFiles /\ tornFile' = tornFile
  BY DEF CloseReader, EndRequest
<1>1. Placed(req[r]) /\ GetKnows(req[r], fileData, meta, tornFile)
  BY RequestFacts DEF Knows
<1>2. req[r].kind = "get" /\ req[r].srv \in Servers
  BY <1>0, <1>1 DEF Placed, Places
<1>3. tornFile \/ FSReading(req[r])
  BY <1>0, <1>1, <1>2 DEF GetKnows, FSReading
<1>4. Ended \in FSRecords(Len(metaFiles)) /\ Knows(Ended, fileData, meta, tornFile)
  BY RequestFacts, EndedFacts
<1>5. Ended.kind \in {req[r].kind, "none"} /\ ~FSReading(Ended) /\ ~Ended.locked /\ req[r].pc # "meta"
  BY <1>0, EndedFacts DEF FSReading
<1> QED
  BY <1>0, <1>2, <1>3, <1>4, <1>5, ReaderLeaves

\* A request takes a step that changes the object and the request itself.
LEMMA ObjectChanges ==
  ASSUME FSIInv, NEW r \in Requests, NEW q,
         fileData' \in Nat, metaFiles' \in Seq(Nat), Len(metaFiles) <= Len(metaFiles'), meta' \in 0..Len(metaFiles'),
         q \in FSRecords(Len(metaFiles')), Knows(q, fileData', meta', tornFile'),
         req' = [req EXCEPT ![r] = q], pool' = pool, fsPuts' = fsPuts, tornFile => tornFile',
         q.kind \in {req[r].kind, "none"}, ~FSReading(req[r]), ~FSReading(q),
         q.locked => q.ino = req[r].ino /\ req[r].locked,
         \A o \in Requests : o # r => Knows(req[o], fileData', meta', tornFile'),
         AtRest', PoolCurrent'
  PROVE  FSIInv'
<1>0. FSTypes /\ NSLocked /\ Apart /\ ReadersCounted
  BY DEF FSIInv
<1>1. req \in [Requests -> FSRecords(Len(metaFiles))]
  BY <1>0 DEF FSTypes
<1>2. req'[r] = q /\ \A o \in Requests : o # r => req'[o] = req[o]
  BY <1>1
<1>3. FSTypes'
  <2>1. 0..Len(metaFiles) \subseteq 0..Len(metaFiles')
    <3>1. Len(metaFiles) \in Nat /\ Len(metaFiles') \in Nat
      BY <1>0, LenNat DEF FSTypes
    <3> QED
      BY <3>1, SMT
  <2>2. \A x : x \in FSRecords(Len(metaFiles)) => x \in FSRecords(Len(metaFiles'))
    BY <2>1 DEF FSRecords
  <2>3. req' \in [Requests -> FSRecords(Len(metaFiles'))]
    BY <1>1, <2>2
  <2>4. pool' \in [Servers -> [ino : 0..Len(metaFiles'), refs : Nat]]
    BY <1>0, <2>1 DEF FSTypes
  <2> QED
    BY <1>0, <2>3, <2>4 DEF FSTypes
<1>4. NSLocked'
  <2>1. \A o \in Requests : req'[o].kind \in {req[o].kind, "none"}
    BY <1>2
  <2> QED
    BY <1>0, <2>1 DEF NSLocked
<1>5. RequestsKnow'
  <2> SUFFICES ASSUME NEW o \in Requests PROVE Knows(req'[o], fileData', meta', tornFile')
    BY DEF RequestsKnow
  <2>1. req'[o] = IF o = r THEN q ELSE req[o]
    BY <1>2
  <2> QED
    BY <2>1
<1>6. Apart'
  <2> SUFFICES ASSUME NEW o \in Requests, NEW s \in Servers, req'[o].locked, pool[s].refs > 0
               PROVE  req'[o].ino # pool[s].ino
    BY DEF Apart
  <2>1. req[o].locked /\ req'[o].ino = req[o].ino
    BY <1>2
  <2> QED
    BY <1>0, <2>1 DEF Apart
<1>7. ReadersCounted'
  <2> SUFFICES ASSUME NEW s \in Servers, ~tornFile PROVE pool[s].refs = Cardinality(CountedReaders(s)')
    BY DEF ReadersCounted, CountedReaders
  <2>1. \A o \in Requests : (req'[o].srv = s /\ FSReading(req'[o])) <=> (req[o].srv = s /\ FSReading(req[o]))
    BY <1>2
  <2>2. CountedReaders(s)' = {o \in Requests : req'[o].srv = s /\ FSReading(req'[o])}
    BY DEF CountedReaders, FSReading
  <2>3. CountedReaders(s) = {o \in Requests : req[o].srv = s /\ FSReading(req[o])}
    BY DEF CountedReaders, FSReading
  <2>4. CountedReaders(s)' = CountedReaders(s)
    BY <2>1, <2>2, <2>3
  <2> QED
    BY <1>0, <2>4 DEF ReadersCounted, CountedReaders
<1> QED
  BY <1>3, <1>4, <1>5, <1>6, <1>7 DEF FSIInv

\* Besides a request that writes under the namespace lock there are only
\* requests that know nothing of the object.
LEMMA WritesAlone ==
  ASSUME FSIInv, NEW r \in Requests, req[r].kind \in {"put", "delete"}
  PROVE  \A o \in Requests : o # r => /\ req[o].kind \notin {"put", "delete", "get"}
                                      /\ \A f, m, t : Knows(req[o], f, m, t)
<1> SUFFICES ASSUME NEW o \in Requests, o # r
             PROVE  /\ req[o].kind \notin {"put", "delete", "get"}
                    /\ \A f, m, t : Knows(req[o], f, m, t)
  OBVIOUS
<1>1. req[o].kind \notin {"put", "delete", "get"}
  BY DEF FSIInv, NSLocked
<1>2. Placed(req[o])
  BY RequestFacts DEF Knows
<1> QED
  BY <1>1, <1>2 DEF Knows, PutKnows, DeleteKnows, GetKnows

LEMMA CreateMetaOK ==
  ASSUME FSIInv, NEW r \in Requests, CreateMeta(r)
  PROVE  FSIInv'
<1>0. /\ req[r].pc = "create" /\ fsPuts' = fsPuts /\ pool' = pool /\ fileData' = fileData /\ tornFile' = tornFile
      /\ req' = [req EXCEPT ![r].pc = "lockcreated", ![r].ino = meta', ![r].fresh = TRUE]
  BY DEF CreateMeta
<1>1. /\ req[r] \in FSRecords(Len(metaFiles)) /\ Placed(req[r]) /\ PutKnows(req[r], fileData, meta, tornFile)
      /\ FSTypes /\ Len(metaFiles) \in Nat /\ meta \in 0..Len(metaFiles)
  BY RequestFacts DEF Knows
<1>2. req[r].kind \in {"put", "tags", "copy"} /\ ~req[r].locked /\ ~FSReading(req[r])
  BY <1>0, <1>1 DEF Placed, Places, FSReading
<1>3. /\ metaFiles' \in Seq(Nat) /\ Len(metaFiles) <= Len(metaFiles') /\ meta' \in 0..Len(metaFiles') /\ meta' # 0
      /\ meta # 0 => meta' = meta /\ metaFiles' = metaFiles
  <2>0. metaFiles \in Seq(Nat) /\ 0 \in Nat
    BY <1>1 DEF FSTypes
  <2>1. CASE meta = 0
    <3>1. metaFiles' = Append(metaFiles, 0) /\ meta' = Len(metaFiles) + 1
      BY <2>1 DEF CreateMeta
    <3>2. Append(metaFiles, 0) \in Seq(Nat) /\ Len(Append(metaFiles, 0)) = Len(metaFiles) + 1
      BY ONLY <2>0, SMT
    <3> QED
      BY <1>1, <2>1, <3>1, <3>2, SMT
  <2>2. CASE meta # 0
    <3>1. metaFiles' = metaFiles /\ meta' = meta
      BY <2>2 DEF CreateMeta
    <3> QED
      BY <1>1, <2>0, <2>2, <3>1, SMT
  <2> QED
    BY <2>1, <2>2
<1>i. PICK i : i = meta'
  OBVIOUS
<1>q. PICK q : q = [req[r] EXCEPT !.pc = "lockcreated", !.ino = i, !.fresh = TRUE]
  OBVIOUS
<1>4. req' = [req EXCEPT ![r] = q]
  BY <1>0, <1>1, <1>i, <1>q DEF FSTypes, FSRecords
<1>f. /\ q \in FSRecords(Len(metaFiles')) /\ q.kind = req[r].kind /\ q.srv = req[r].srv /\ q.pc = "lockcreated"
      /\ q.ino = meta' /\ q.locked = req[r].locked
  BY <1>q, <1>1, <1>3, <1>i DEF FSRecords, FSPlaces
<1>5. Knows(q, fileData', meta', tornFile')
  <2>1. Placed(q)
    BY <1>1, <1>2, <1>f DEF Placed, Places
  <2>2. PutKnows(q, fileData', meta', tornFile')
    <3>1. req[r].kind = "put" => fileData = 0 \/ tornFile
      BY <1>0, <1>1 DEF PutKnows
    <3> QED
      BY <1>0, <1>3, <1>f, <3>1 DEF PutKnows
  <2> QED
    BY <1>2, <1>f, <2>1, <2>2 DEF Knows, DeleteKnows, GetKnows
<1>6. ~FSReading(q) /\ ~q.locked
  BY <1>2, <1>f DEF FSReading
<1>7. ASSUME NEW o \in Requests PROVE Knows(req[o], fileData', meta', tornFile')
  <2>1. Placed(req[o]) /\ PutKnows(req[o], fileData, meta, tornFile) /\ DeleteKnows(req[o], fileData)
        /\ GetKnows(req[o], fileData, meta, tornFile)
    BY RequestFacts DEF Knows
  <2>2. CASE meta # 0
    BY <1>0, <1>3, <2>1, <2>2 DEF Knows
  <2>3. CASE meta = 0
    <3>1. PutKnows(req[o], fileData', meta', tornFile') /\ DeleteKnows(req[o], fileData')
      BY <1>0, <2>1, <2>3 DEF PutKnows, DeleteKnows
    <3>2. GetKnows(req[o], fileData', meta', tornFile')
      BY <1>0, <2>1, <2>3 DEF GetKnows, Placed
    <3> QED
      BY <2>1, <3>1, <3>2 DEF Knows
  <2> QED
    BY <2>2, <2>3
<1>8. AtRest'
  <2>1. req'[r] = q /\ \A o \in Requests : o # r => req'[o] = req[o]
    BY <1>1, <1>4 DEF FSTypes
  <2>2. (\A o \in Requests : req'[o].pc # "meta") => \A o \in Requests : req[o].pc # "meta"
    BY <1>0, <2>1
  <2>3. AtRest
    BY DEF FSIInv
  <2> QED
    BY <1>0, <1>3, <2>2, <2>3 DEF AtRest
<1>9. PoolCurrent'
  <2>1. PoolCurrent
    BY DEF FSIInv
  <2>2. meta' = meta \/ meta = 0
    BY <1>3
  <2> QED
    BY <1>0, <2>1, <2>2 DEF PoolCurrent
<1>10. fileData' \in Nat /\ q.kind \in {req[r].kind, "none"} /\ (tornFile => tornFile')
  BY <1>0, <1>1, <1>f DEF FSTypes
<1> QED
  BY <1>0, <1>2, <1>3, <1>4, <1>f, <1>5, <1>6, <1>7, <1>8, <1>9, <1>10, ObjectChanges

LEMMA MoveDataOK ==
  ASSUME FSIInv, NEW r \in Requests, MoveData(r)
  PROVE  FSIInv'
<1>0. /\ req[r].pc = "write" /\ req[r].kind = "put" /\ fileData' = req[r].body /\ Goto(r, "meta")
      /\ fsPuts' = fsPuts /\ pool' = pool /\ tornFile' = tornFile /\ meta' = meta /\ metaFiles' = metaFiles
  BY DEF MoveData
<1>1. /\ req[r] \in FSRecords(Len(metaFiles)) /\ Placed(req[r]) /\ PutKnows(req[r], fileData, meta, tornFile)
      /\ FSTypes /\ Len(metaFiles) \in Nat /\ meta \in 0..Len(metaFiles)
  BY RequestFacts DEF Knows
<1>2. req[r].body \in Nat /\ metaFiles \in Seq(Nat) /\ ~FSReading(req[r]) /\ Len(metaFiles) <= Len(metaFiles')
  <2>1. Len(metaFiles) <= Len(metaFiles')
    <3>1. metaFiles' = metaFiles /\ Len(metaFiles) \in Nat
      BY <1>0, <1>1
    <3> QED BY ONLY <3>1, SMT
  <2> QED
    BY <1>0, <1>1, <2>1 DEF FSRecords, FSTypes, FSReading
<1>q. PICK q : q = [req[r] EXCEPT !.pc = "meta"]
  OBVIOUS
<1>3. req' = [req EXCEPT ![r] = q]
  BY <1>0, <1>1, <1>q, GotoMoves
<1>f. /\ q \in FSRecords(Len(metaFiles)) /\ q.kind = req[r].kind /\ q.srv = req[r].srv /\ q.pc = "meta"
      /\ q.ino = req[r].ino /\ q.body = req[r].body /\ q.locked = req[r].locked
  BY <1>q, <1>1 DEF FSRecords, FSPlaces
<1>4. Knows(q, fileData', meta', tornFile')
  <2>1. Placed(q)
    BY <1>0, <1>1, <1>f DEF Placed, Places
  <2>2. PutKnows(q, fileData', meta', tornFile')
    BY <1>0, <1>1, <1>f DEF PutKnows
  <2> QED
    BY <1>0, <1>f, <2>1, <2>2 DEF Knows, DeleteKnows, GetKnows
<1>5. ~FSReading(q) /\ (q.locked => q.ino = req[r].ino /\ req[r].locked) /\ q.kind \in {req[r].kind, "none"}
  BY <1>f DEF FSReading
<1>6. \A o \in Requests : o # r => Knows(req[o], fileData', meta', tornFile')
  BY <1>0, WritesAlone
<1>7. AtRest'
  <2>1. req'[r] = q
    BY <1>1, <1>3 DEF FSTypes
  <2> QED
    BY <1>f, <2>1 DEF AtRest
<1>8. PoolCurrent'
  BY <1>0 DEF FSIInv, PoolCurrent
<1> QED
  BY <1>0, <1>1, <1>2, <1>3, <1>f, <1>4, <1>5, <1>6, <1>7, <1>8, ObjectChanges

\* A request that changed the object ends.
LEMMA WriterEnds ==
  ASSUME FSIInv, NEW r \in Requests, EndRequest(r), ~FSReading(req[r]),
         fileData' = fileData, metaFiles' \in Seq(Nat), Len(metaFiles') = Len(metaFiles), meta' \in {0, meta},
         pool' = pool, fsPuts' = fsPuts, tornFile => tornFile',
         \A o \in Requests : o # r => Knows(req[o], fileData', meta', tornFile'),
         ~tornFile' /\ fileData # 0 /\ (\A o \in Requests : o # r => req[o].pc # "meta")
           => meta' # 0 /\ metaFiles'[meta'] = fileData,
         PoolCurrent'
  PROVE  FSIInv'
<1>1. /\ req' = [req EXCEPT ![r] = Ended] /\ FSTypes /\ Len(metaFiles) \in Nat /\ meta' \in 0..Len(metaFiles')
      /\ fileData' \in Nat
  BY RequestFacts DEF EndRequest, FSTypes
<1>2. Ended \in FSRecords(Len(metaFiles')) /\ Knows(Ended, fileData', meta', tornFile') /\ Ended.kind \in {req[r].kind, "none"}
  BY <1>1, EndedFacts
<1>3. ~FSReading(Ended) /\ ~Ended.locked
  BY EndedFacts DEF FSReading
<1>4. Len(metaFiles) <= Len(metaFiles')
  BY <1>1, SMT
<1>5. AtRest'
  <2>1. \A o \in Requests : o # r => req'[o] = req[o]
    BY <1>1 DEF FSTypes
  <2>2. (\A o \in Requests : req'[o].pc # "meta") => \A o \in Requests : o # r => req[o].pc # "meta"
    BY <2>1
  <2> QED
    BY <2>2 DEF AtRest
<1> QED
  BY <1>1, <1>2, <1>3, <1>4, <1>5, ObjectChanges

LEMMA WriteMetaOK ==
  ASSUME FSIInv, NEW r \in Requests, WriteMeta(r)
  PROVE  FSIInv'
<1>0. /\ req[r].pc = "meta" /\ EndRequest(r) /\ metaFiles' = [metaFiles EXCEPT ![req[r].ino] = req[r].body]
      /\ fsPuts' = fsPuts /\ pool' = pool /\ tornFile' = tornFile /\ meta' = meta /\ fileData' = fileData
  BY DEF WriteMeta
<1>1. /\ req[r] \in FSRecords(Len(metaFiles)) /\ Placed(req[r]) /\ PutKnows(req[r], fileData, meta, tornFile)
      /\ metaFiles \in Seq(Nat)
  BY RequestFacts DEF Knows, FSTypes
<1>2. req[r].kind = "put" /\ ~FSReading(req[r]) /\ req[r].body \in Nat /\ req[r].ino \in 0..Len(metaFiles)
  BY <1>0, <1>1 DEF Placed, Places, FSReading, FSRecords
<1>3. req[r].ino = meta /\ meta # 0 /\ fileData = req[r].body
  BY <1>0, <1>1, <1>2 DEF PutKnows
<1>4. metaFiles' \in Seq(Nat) /\ Len(metaFiles') = Len(metaFiles) /\ metaFiles'[meta] = fileData
  <2>1. PICK i, e : i = req[r].ino /\ e = req[r].body
    OBVIOUS
  <2>2. metaFiles \in Seq(Nat) /\ i \in 0..Len(metaFiles) /\ i # 0 /\ e \in Nat /\ metaFiles' = [metaFiles EXCEPT ![i] = e]
    BY <1>0, <1>1, <1>2, <1>3, <2>1
  <2>3. metaFiles' \in Seq(Nat) /\ Len(metaFiles') = Len(metaFiles) /\ metaFiles'[i] = e
    BY ONLY <2>2, LenNat, SMT
  <2> QED
    BY <1>3, <2>1, <2>3
<1>5. \A o \in Requests : o # r => Knows(req[o], fileData', meta', tornFile')
  BY <1>2, WritesAlone
<1>6. PoolCurrent'
  BY <1>0 DEF FSIInv, PoolCurrent
<1> QED
  BY <1>0, <1>2, <1>3, <1>4, <1>5, <1>6, WriterEnds

LEMMA WriteCopiedOK ==
  ASSUME FSIInv, NEW r \in Requests, WriteCopied(r)
  PROVE  FSIInv'
<1>0. /\ req[r].pc = "write" /\ EndRequest(r) /\ metaFiles' = [metaFiles EXCEPT ![req[r].ino] = req[r].etag]
      /\ fsPuts' = fsPuts /\ pool' = pool /\ meta' = meta /\ fileData' = fileData
      /\ tornFile => tornFile' /\ (~tornFile' => req[r].etag = fileData)
  BY DEF WriteCopied
<1>3. meta' = meta /\ (~tornFile' => req[r].etag = fileData)
  BY DEF WriteCopied
<1>1. /\ req[r] \in FSRecords(Len(metaFiles)) /\ metaFiles \in Seq(Nat) /\ meta \in 0..Len(metaFiles)
  BY RequestFacts DEF FSTypes
<1>2. ~FSReading(req[r]) /\ req[r].etag \in Nat /\ req[r].ino \in 0..Len(metaFiles)
  BY <1>0, <1>1 DEF FSReading, FSRecords
<1>4. /\ metaFiles' \in Seq(Nat) /\ Len(metaFiles') = Len(metaFiles)
      /\ \A j \in 0..Len(metaFiles) : j # 0 => metaFiles'[j] = IF j = req[r].ino THEN req[r].etag ELSE metaFiles[j]
  <2>1. PICK i, e : i = req[r].ino /\ e = req[r].etag
    OBVIOUS
  <2>2. metaFiles \in Seq(Nat) /\ i \in 0..Len(metaFiles) /\ e \in Nat /\ metaFiles' = [metaFiles EXCEPT ![i] = e]
    BY <1>0, <1>1, <1>2, <2>1
  <2>3. metaFiles' \in Seq(Nat) /\ Len(metaFiles') = Len(metaFiles)
    <3>1. CASE i = 0
      <4>1. i \notin DOMAIN metaFiles
        BY ONLY <2>2, <3>1, LenNat, SMT
      <4>2. metaFiles' = metaFiles
        BY ONLY <2>2, <4>1, SMT
      <4> QED
        BY ONLY <2>2, <4>2, Zenon
    <3>2. CASE i # 0
      BY ONLY <2>2, <3>2, LenNat, SMT
    <3> QED
      BY <3>1, <3>2
  <2>4. ASSUME NEW j \in 0..Len(metaFiles), j # 0
        PROVE  metaFiles'[j] = IF j = i THEN e ELSE metaFiles[j]
    <3>1. j \in DOMAIN metaFiles
      BY ONLY <2>2, <2>4, LenNat, SMT
    <3> QED
      BY ONLY <2>2, <3>1, Zenon
  <2> QED
    BY <2>1, <2>3, <2>4
<1>5. \A o \in Requests : o # r => Knows(req[o], fileData', meta', tornFile')
  <2> SUFFICES ASSUME NEW o \in Requests PROVE Knows(req[o], fileData', meta', tornFile')
    OBVIOUS
  <2>1. Knows(req[o], fileData, meta, tornFile)
    BY RequestFacts
  <2> QED
    BY <1>0, <2>1 DEF Knows, PutKnows, GetKnows
<1>6. PoolCurrent'
  BY <1>0 DEF FSIInv, PoolCurrent
<1>7. ASSUME ~tornFile', fileData # 0, \A o \in Requests : o # r => req[o].pc # "meta"
      PROVE  meta' # 0 /\ metaFiles'[meta'] = fileData
  <2>1. \A o \in Requests : req[o].pc # "meta"
    BY <1>0, <1>7
  <2>2. meta # 0 /\ metaFiles[meta] = fileData
    BY <1>0, <1>7, <2>1 DEF FSIInv, AtRest
  <2>3. metaFiles'[meta] = IF meta = req[r].ino THEN req[r].etag ELSE metaFiles[meta]
    BY <1>1, <1>4, <2>2
  <2>4. meta' = meta /\ req[r].etag = fileData
    BY <1>3, <1>7
  <2> QED
    BY <2>2, <2>3, <2>4
<1> QED
  BY <1>0, <1>2, <1>4, <1>5, <1>6, <1>7, WriterEnds

LEMMA RemoveDataOK ==
  ASSUME FSIInv, NEW r \in Requests, RemoveData(r)
  PROVE  FSIInv'
<1>0. /\ req[r].pc = "remove"
      /\ fsPuts' = fsPuts /\ pool' = pool /\ meta' = meta /\ metaFiles' = metaFiles /\ tornFile' = tornFile
  BY DEF RemoveData
<1>1. req[r] \in FSRecords(Len(metaFiles)) /\ Placed(req[r]) /\ Len(metaFiles) \in Nat /\ FSTypes
  BY RequestFacts DEF Knows
<1>2. req[r].kind = "delete" /\ ~FSReading(req[r])
  BY <1>0, <1>1 DEF Placed, Places, FSReading
<1>a. CASE fileData = 0
  <2>1. EndRequest(r) /\ fileData' = fileData /\ req[r].pc # "meta"
    BY <1>0, <1>a DEF RemoveData
  <2> QED
    BY <1>0, <1>2, <2>1, RequestEnds
<1>b. CASE fileData # 0
  <2>0. fileData' = 0 /\ req' = [req EXCEPT ![r].pc = "unlink", ![r].locked = FALSE]
    BY <1>b DEF RemoveData
  <2>q. PICK q : q = [req[r] EXCEPT !.pc = "unlink", !.locked = FALSE]
    OBVIOUS
  <2>1. req' = [req EXCEPT ![r] = q]
    BY <2>0, <1>1, <2>q, GotoMoves
  <2>f. /\ q \in FSRecords(Len(metaFiles)) /\ q.kind = req[r].kind /\ q.srv = req[r].srv /\ q.pc = "unlink"
        /\ q.locked = FALSE
    BY <2>q, <1>1 DEF FSRecords, FSPlaces
  <2>2. Knows(q, fileData', meta', tornFile')
    <3>1. Placed(q)
      BY <1>1, <1>2, <2>f DEF Placed, Places
    <3> QED
      BY <1>2, <2>0, <2>f, <3>1 DEF Knows, PutKnows, DeleteKnows, GetKnows
  <2>3. ~FSReading(q) /\ ~q.locked /\ q.kind \in {req[r].kind, "none"}
    BY <2>f DEF FSReading
  <2>4. \A o \in Requests : o # r => Knows(req[o], fileData', meta', tornFile')
    BY <1>2, WritesAlone
  <2>5. AtRest' /\ PoolCurrent'
    BY <1>0, <2>0 DEF FSIInv, AtRest, PoolCurrent
  <2>6. fileData' \in Nat /\ Len(metaFiles) <= Len(metaFiles')
    BY <1>0, <1>1, <2>0, SMT
  <2>7. meta' \in 0..Len(metaFiles') /\ metaFiles' \in Seq(Nat)
    BY <1>0, <1>1 DEF FSTypes
  <2> QED
    BY <1>0, <1>2, <2>1, <2>f, <2>2, <2>3, <2>4, <2>5, <2>6, <2>7, ObjectChanges
<1> QED
  BY <1>a, <1>b

LEMMA UnlinkMetaOK ==
  ASSUME FSIInv, NEW r \in Requests, UnlinkMeta(r)
  PROVE  FSIInv'
<1>0. /\ req[r].pc = "unlink" /\ EndRequest(r) /\ meta' = 0 /\ fsPuts' = fsPuts /\ pool' = pool
      /\ metaFiles' = metaFiles /\ fileData' = fileData /\ (tornFile => tornFile')
      /\ \A c \in Requests : req[c].kind = "copy" /\ req[c].pc = "readinfo" => tornFile'
  BY DEF UnlinkMeta
<1>1. /\ Placed(req[r]) /\ DeleteKnows(req[r], fileData) /\ metaFiles \in Seq(Nat)
  BY RequestFacts DEF Knows, FSTypes
<1>2. req[r].kind = "delete" /\ ~FSReading(req[r])
  BY <1>0, <1>1 DEF Placed, Places, FSReading
<1>3. fileData = 0
  BY <1>0, <1>1, <1>2 DEF DeleteKnows
<1>4. \A o \in Requests : o # r => req[o].kind \notin {"put", "delete", "get"} /\ Knows(req[o], fileData', meta', tornFile')
  BY <1>2, WritesAlone
<1>5. PoolCurrent'
  <2> SUFFICES ASSUME NEW s \in Servers, pool[s].refs > 0, ~tornFile' PROVE FALSE
    <3>1. PoolCurrent
      BY DEF FSIInv
    <3> QED
      BY <1>0, <3>1 DEF PoolCurrent
  <2>1. pool[s].refs = Cardinality(CountedReaders(s))
    BY <1>0 DEF FSIInv, ReadersCounted, CountedReaders
  <2>2. CountedReaders(s) # {}
    <3> SUFFICES ASSUME CountedReaders(s) = {} PROVE FALSE
      OBVIOUS
    <3>1. pool[s].refs = 0
      BY <2>1, FS_EmptySet
    <3>2. ~(0 > 0)
      BY SMT
    <3> QED
      BY <3>1, <3>2
  <2>3. PICK o \in Requests : FSReading(req[o])
    BY <2>2 DEF CountedReaders, FSReading
  <2>4. o # r /\ Placed(req[o])
    BY <1>2, <2>3, RequestFacts DEF Knows
  <2>5. req[o].kind = "copy" /\ req[o].pc = "readinfo"
    BY <1>4, <2>3, <2>4 DEF Placed, Places, FSReading
  <2> QED
    BY <1>0, <2>5
<1>6. meta' \in {0, meta} /\ Len(metaFiles') = Len(metaFiles) /\ metaFiles' \in Seq(Nat)
  BY <1>0, <1>1
<1> QED
  BY <1>0, <1>2, <1>3, <1>4, <1>5, <1>6, WriterEnds

LEMMA PutFailsOK ==
  ASSUME FSIInv, NEW r \in Requests, PutFails(r)
  PROVE  FSIInv'
<1>0. /\ req[r].kind = "put" /\ req[r].pc \in {"write", "meta"} /\ EndRequest(r) /\ fsPuts' = fsPuts /\ pool' = pool
      /\ fileData' = fileData /\ (tornFile => tornFile') /\ (req[r].pc = "meta" => tornFile')
      /\ (req[r].pc # "meta" => metaFiles' = metaFiles) /\ (req[r].fresh => meta' = 0) /\ (~req[r].fresh => meta' = meta)
  BY DEF PutFails
<1>1. /\ req[r] \in FSRecords(Len(metaFiles)) /\ PutKnows(req[r], fileData, meta, tornFile) /\ metaFiles \in Seq(Nat)
  BY RequestFacts DEF Knows, FSTypes
<1>2. /\ ~FSReading(req[r]) /\ req[r].ino = meta /\ meta # 0 /\ req[r].locked /\ req[r].ino \in 0..Len(metaFiles)
      /\ req[r].pc # "meta" /\ req[r].fresh => fileData = 0 \/ tornFile
  BY <1>0, <1>1 DEF PutKnows, FSReading, FSRecords
<1>3. metaFiles' \in Seq(Nat) /\ Len(metaFiles') = Len(metaFiles)
  <2>1. PICK i : i = req[r].ino
    OBVIOUS
  <2>2. metaFiles \in Seq(Nat) /\ i \in 0..Len(metaFiles) /\ i # 0
        /\ (metaFiles' = metaFiles \/ metaFiles' = [metaFiles EXCEPT ![i] = 0])
    BY <1>1, <1>2, <2>1 DEF PutFails
  <2> QED
    BY ONLY <2>2, LenNat, SMT
<1>4. \A o \in Requests : o # r => Knows(req[o], fileData', meta', tornFile')
  BY <1>0, WritesAlone
<1>5. PoolCurrent'
  <2> SUFFICES ASSUME NEW s \in Servers, pool[s].refs > 0 PROVE pool[s].ino # 0 /\ (tornFile' \/ pool[s].ino = meta')
    BY <1>0 DEF PoolCurrent
  <2>1. pool[s].ino # 0 /\ (tornFile \/ pool[s].ino = meta)
    BY DEF FSIInv, PoolCurrent
  <2>2. req[r].ino # pool[s].ino
    BY <1>2 DEF FSIInv, Apart
  <2> QED
    BY <1>0, <1>2, <2>1, <2>2
<1>6. meta' \in {0, meta}
  BY <1>0
<1>7. ASSUME ~tornFile', fileData # 0, \A o \in Requests : o # r => req[o].pc # "meta"
      PROVE  meta' # 0 /\ metaFiles'[meta'] = fileData
  <2>1. req[r].pc # "meta" /\ ~tornFile
    BY <1>0, <1>7
  <2>2. \A o \in Requests : req[o].pc # "meta"
    BY <1>7, <2>1
  <2>3. meta # 0 /\ metaFiles[meta] = fileData
    BY <1>7, <2>1, <2>2 DEF FSIInv, AtRest
  <2>4. meta' = meta /\ metaFiles' = metaFiles
    BY <1>0, <1>2, <1>7, <2>1
  <2> QED
    BY <2>3, <2>4
<1> QED
  BY <1>0, <1>2, <1>3, <1>4, <1>5, <1>6, <1>7, WriterEnds

\* With one server, the stop of a server ends every request.
LEMMA StopServerOK ==
  ASSUME OneServer, FSIInv, NEW s \in Servers, StopServer(s)
  PROVE  FSIInv'
<1>0. /\ req' = [r \in Requests |-> IF req[r].srv = s THEN Ended ELSE req[r]] /\ pool' = [pool EXCEPT ![s] = ClosedFd]
      /\ fileData' = fileData /\ meta' = meta /\ metaFiles' = metaFiles /\ fsPuts' = fsPuts /\ (tornFile => tornFile')
      /\ \A r \in Requests : req[r].srv = s /\ req[r].pc = "meta" => tornFile'
  BY DEF StopServer
<1>1. FSTypes /\ Len(metaFiles) \in Nat
  BY LenNat DEF FSIInv, FSTypes
<1>2. \A r \in Requests : Placed(req[r]) /\ req[r] \in FSRecords(Len(metaFiles))
  BY RequestFacts DEF Knows
<1>3. \A r \in Requests : req[r].srv # s => req[r].kind = "none" /\ req[r].pc \in {"idle", "done"}
  BY <1>2 DEF Placed, Places, OneServer
<1>4. \A r \in Requests : req'[r] = Ended \/ (req'[r] = req[r] /\ req[r].srv # s)
  BY <1>0
<1>5. \A r \in Requests : /\ req'[r].kind = "none" /\ req'[r].pc \in {"idle", "done"} /\ ~req'[r].locked
                          /\ req'[r] \in FSRecords(Len(metaFiles))
  <2> SUFFICES ASSUME NEW r \in Requests
               PROVE  /\ req'[r].kind = "none" /\ req'[r].pc \in {"idle", "done"} /\ ~req'[r].locked
                      /\ req'[r] \in FSRecords(Len(metaFiles))
    OBVIOUS
  <2>1. CASE req'[r] = Ended
    BY <1>1, <2>1, EndedFacts
  <2>2. CASE req'[r] = req[r] /\ req[r].srv # s
    BY <1>2, <1>3, <2>2 DEF Placed
  <2> QED
    BY <1>4, <2>1, <2>2
<1>6. \A t \in Servers : pool'[t].refs = 0 /\ pool'[t] \in [ino : 0..Len(metaFiles), refs : Nat]
  <2>1. \A t \in Servers : pool'[t] = ClosedFd
    BY <1>0, <1>1 DEF FSTypes, OneServer
  <2>2. 0 \in 0..Len(metaFiles) /\ 0 \in Nat
    BY <1>1, SMT
  <2>3. ClosedFd.refs = 0 /\ ClosedFd \in [ino : 0..Len(metaFiles), refs : Nat]
    BY <2>2 DEF ClosedFd
  <2> QED
    BY <2>1, <2>3
<1>7. FSTypes'
  <2>1. req' \in [Requests -> FSRecords(Len(metaFiles'))]
    BY <1>0, <1>5
  <2>2. DOMAIN pool' = Servers /\ pool' = [t \in Servers |-> pool'[t]]
    BY <1>0, <1>1 DEF FSTypes
  <2>3. pool' \in [Servers -> [ino : 0..Len(metaFiles'), refs : Nat]]
    BY <1>0, <1>6, <2>2
  <2> QED
    BY <1>0, <1>1, <2>1, <2>3 DEF FSTypes
<1>8. NSLocked'
  BY <1>5 DEF NSLocked
<1>9. RequestsKnow'
  <2> SUFFICES ASSUME NEW r \in Requests PROVE Knows(req'[r], fileData', meta', tornFile')
    BY DEF RequestsKnow
  <2> QED
    BY <1>5 DEF Knows, Placed, Places, PutKnows, DeleteKnows, GetKnows
<1>10. AtRest'
  <2> SUFFICES ASSUME ~tornFile', fileData # 0 PROVE meta # 0 /\ metaFiles[meta] = fileData
    BY <1>0 DEF AtRest
  <2>1. \A r \in Requests : req[r].pc # "meta"
    BY <1>0, <1>3
  <2> QED
    BY <1>0, <2>1 DEF FSIInv, AtRest
<1>11. ~(0 > 0)
  BY SMT
<1>12. PoolCurrent' /\ Apart'
  BY <1>6, <1>11 DEF PoolCurrent, Apart
<1>13. ReadersCounted'
  <2> SUFFICES ASSUME NEW t \in Servers PROVE pool'[t].refs = Cardinality(CountedReaders(t)')
    BY DEF ReadersCounted, CountedReaders
  <2>1. CountedReaders(t)' = {}
    BY <1>5 DEF CountedReaders
  <2> QED
    BY <1>6, <2>1, FS_EmptySet
<1> QED
  BY <1>7, <1>8, <1>9, <1>10, <1>12, <1>13 DEF FSIInv

\* With one server and no file without fs.json, every step of every request
\* keeps the invariant.
THEOREM FSInvariantHolds == OneServer /\ ~PreExisting => (FSSpec => []FSIInv)
<1> SUFFICES ASSUME OneServer, ~PreExisting PROVE FSSpec => []FSIInv
  OBVIOUS
<1>1. FSInit => FSIInv
  BY FSInitOK
<1>2. FSIInv /\ [FSNext]_fsVars => FSIInv'
  <2> SUFFICES ASSUME FSIInv, [FSNext]_fsVars PROVE FSIInv'
    OBVIOUS
  <2>1. ASSUME NEW r \in Requests, NEW s \in Servers, NEW k \in Kinds, StartRequest(r, s, k) PROVE FSIInv'
    BY <2>1, StartRequestOK
  <2>2. ASSUME NEW r \in Requests, FSStep(r) PROVE FSIInv'
    BY <2>2, PoolOpenOK, PoolLockOK, ReadInfoOK, StatDataOK, OpenDataOK, CloseReaderOK, OpenForWriteOK, LockForWriteOK,
       CreateMetaOK, LockCreatedOK, MoveDataOK, WriteMetaOK, WriteTagsOK, WriteCopiedOK, RemoveDataOK, UnlinkMetaOK
       DEF FSStep
  <2>3. ASSUME NEW r \in Requests, PutFails(r) PROVE FSIInv'
    BY <2>3, PutFailsOK
  <2>4. ASSUME NEW s \in Servers, StopServer(s) PROVE FSIInv'
    BY <2>4, StopServerOK
  <2>5. CASE UNCHANGED fsVars
    <3>0. /\ fileData' = fileData /\ meta' = meta /\ metaFiles' = metaFiles /\ pool' = pool /\ req' = req
          /\ fsPuts' = fsPuts /\ tornFile' = tornFile
      BY <2>5 DEF fsVars
    <3>1. FSTypes' /\ NSLocked'
      BY <3>0 DEF FSIInv, FSTypes, NSLocked
    <3>2. RequestsKnow'
      BY <3>0 DEF FSIInv, RequestsKnow
    <3>3. AtRest' /\ PoolCurrent' /\ Apart' /\ ReadersCounted'
      BY <3>0 DEF FSIInv, AtRest, PoolCurrent, Apart, ReadersCounted
    <3> QED
      BY <3>1, <3>2, <3>3 DEF FSIInv
  <2> QED
    BY <2>1, <2>2, <2>3, <2>4, <2>5 DEF FSNext
<1> QED
  BY <1>1, <1>2, PTL DEF FSSpec

\* The requests of one server on one object (fs-v1.go) do not mix: what a GET
\* returns is one object, an object at rest has the ETag of its content, and
\* fsIOPool counts every reader.
THEOREM FilesSoundHolds == OneServer /\ ~PreExisting => (FSSpec => []FilesSound)
<1> SUFFICES ASSUME OneServer, ~PreExisting PROVE FSSpec => []FilesSound
  OBVIOUS
<1>1. FSIInv => FilesSound
  <2> SUFFICES ASSUME FSIInv PROVE FilesSound
    OBVIOUS
  <2>1. GetMatches
    <3> SUFFICES ASSUME NEW r \in Requests, req[r].pc = "body" PROVE req[r].etag = req[r].body \/ tornFile
      BY DEF GetMatches
    <3>1. Placed(req[r]) /\ GetKnows(req[r], fileData, meta, tornFile)
      BY RequestFacts DEF Knows
    <3>2. req[r].kind = "get"
      BY <3>1 DEF Placed, Places
    <3> QED
      BY <3>1, <3>2 DEF GetKnows
  <2>2. EtagOfData
    <3> SUFFICES ASSUME \A r \in Requests : req[r].kind \notin {"put", "delete", "copy"}, fileData # 0, ~tornFile
                 PROVE  meta # 0 /\ metaFiles[meta] = fileData
      BY DEF EtagOfData
    <3>1. \A r \in Requests : Placed(req[r])
      BY RequestFacts DEF Knows
    <3>2. \A r \in Requests : req[r].pc # "meta"
      BY <3>1 DEF Placed, Places
    <3> QED
      BY <3>2 DEF FSIInv, AtRest
  <2> QED
    BY <2>1, <2>2 DEF FilesSound, FSIInv
<1> QED
  BY <1>1, FSInvariantHolds, PTL
====
