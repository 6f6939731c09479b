--------------------------- MODULE ErasureQuorum ----------------------------
(* The quorum arithmetic of one object on the drives of an erasure set: how   *)
(* the replies of the drives to a read of xl.meta are reduced to one answer   *)
(* (erasure-metadata-utils.go, erasure-metadata.go, erasure-healing-common.go)*)
(* and when an object counts as dangling (erasure-healing.go).                *)
(*                                                                            *)
(* A reply is the FileInfo of the null version, Absent (errFileNotFound) or   *)
(* Offline (errDiskNotFound and the other errors of objectOpIgnoredErrs).     *)
(* Every object of the set has the same number of data blocks.                *)
EXTENDS Integers, FiniteSets

CONSTANTS Disks, DataBlocks, Times, Tags, Absent, Offline

N == Cardinality(Disks)
Parity(data) == N - data

\* FileInfo: modTime, dataDir (named by the time of the upload that created
\* it) and the metadata that an update in place changes.
FileInfo == [time : Times, dir : Times, tag : Tags]

\* validStorageErasureInfo and the storage class validation: at least as many
\* data as parity drives.
ASSUME QuorumAssumption ==
  /\ IsFiniteSet(Disks)
  /\ N >= 2
  /\ DataBlocks \in 1..N
  /\ 2 * DataBlocks >= N
  /\ Times \subseteq Nat
  /\ Absent \notin FileInfo /\ Offline \notin FileInfo /\ Offline # Absent

\* Mutant of WriteQuorum: no extra drive when data and parity are equal.
WriteQuorumNoTie(data) == data

WriteQuorum(data) == IF data = Parity(data) THEN data + 1 ELSE data

DeleteQuorum == N \div 2 + 1

-----------------------------------------------------------------------------
Found(seen) == {d \in Disks : seen[d] \notin {Absent, Offline}}
Missing(seen) == {d \in Disks : seen[d] = Absent}

\* reduceErrs over replies: nil wins a tie against errFileNotFound, and the
\* ignored errors do not count.
ReduceReadQuorum(seen, quorum) ==
  LET nils == Cardinality(Found(seen))
      nf == Cardinality(Missing(seen))
  IN IF nils < quorum /\ nf < quorum THEN "quorum"
     ELSE IF nils >= nf THEN "ok" ELSE "notfound"

TimeCount(seen, t) == Cardinality({d \in Found(seen) : seen[d].time = t})
DirCount(seen, x) == Cardinality({d \in Found(seen) : seen[d].dir = x})

\* commonTime: the latest of the most frequent times, and any of the most
\* frequent data directories (the loop is over a map, in no fixed order).
CommonTime(seen) ==
  CHOOSE t \in {seen[d].time : d \in Found(seen)} :
    \A d \in Found(seen) :
      LET u == seen[d].time
      IN TimeCount(seen, u) < TimeCount(seen, t) \/ (TimeCount(seen, u) = TimeCount(seen, t) /\ u <= t)

CommonDirs(seen) ==
  {x \in {seen[d].dir : d \in Found(seen)} :
     \A d \in Found(seen) : DirCount(seen, seen[d].dir) <= DirCount(seen, x)}

\* listOnlineDisks
OnlineDisks(seen, x) ==
  LET t == CommonTime(seen)
  IN {d \in Found(seen) : seen[d].dir = x /\ seen[d].time = t}

\* getLatestFileInfo, as the set of its outcomes.
LatestFileInfo(seen) ==
  LET reduced == ReduceReadQuorum(seen, N \div 2)
  IN IF reduced # "ok" THEN {reduced}
     ELSE {IF Cardinality(OnlineDisks(seen, x)) < N \div 2 THEN "quorum" ELSE "ok" : x \in CommonDirs(seen)}

Holders(seen, fi) == {d \in Disks : seen[d] = fi}

\* findFileInfoInQuorum: the most frequent metadata among the online disks,
\* any one of them in a tie, if it has read quorum.
PickValidFileInfo(seen, x) ==
  LET candidates == {seen[d] : d \in OnlineDisks(seen, x)}
  IN {fi \in candidates :
        /\ Cardinality(Holders(seen, fi)) >= DataBlocks
        /\ \A other \in candidates : Cardinality(Holders(seen, other)) <= Cardinality(Holders(seen, fi))}

\* Mutant of IsObjectDangling: as many as parity is enough.
IsObjectDanglingEarly(seen, lostParts) ==
  Found(seen) = {} \/ Cardinality(Missing(seen)) + Cardinality(lostParts) >= Parity(DataBlocks)

\* isObjectDangling; lostParts: drives with the metadata but not the parts.
IsObjectDangling(seen, lostParts) ==
  Found(seen) = {} \/ Cardinality(Missing(seen)) + Cardinality(lostParts) > Parity(DataBlocks)

-----------------------------------------------------------------------------
\* getObjectFileInfo: what it may return, when it answers that the object is
\* not found, and when it first removes the object as dangling.
MayRead(seen) ==
  IF ReduceReadQuorum(seen, DataBlocks) = "ok" /\ "ok" \in LatestFileInfo(seen)
  THEN UNION {PickValidFileInfo(seen, x) : x \in CommonDirs(seen)}
  ELSE {}

FoundDangling(seen) ==
  /\ ReduceReadQuorum(seen, DataBlocks) = "quorum"
  /\ "ok" \in LatestFileInfo(seen)
  /\ IsObjectDangling(seen, {})

AnswersNotFound(seen) ==
  \/ "notfound" \in LatestFileInfo(seen)
  \/ FoundDangling(seen)
=============================================================================
