--------------------------- MODULE MCErasureSets ----------------------------
(* Instances of ErasureObject on four drives.  The one this module extends    *)
(* has three data blocks, tags and one operation at a time on drives and      *)
(* servers that fail.  The others have two data blocks and variables of their *)
(* own: two uploads on such drives; one upload and a heal that removes what   *)
(* is dangling; and two operations at a time, such heals among them, on       *)
(* healthy drives.  A behaviour is one of any of them.                        *)
EXTENDS ErasureObject, TLC

CONSTANTS Pair,        \* two operations at a time
          SetTimes     \* two uploads

VARIABLES which, sMeta, sData, sWriter, sReaders, sPc, sVal, sTodo, sOks, sUsed, sPossible

setVars == <<sMeta, sData, sWriter, sReaders, sPc, sVal, sTodo, sOks, sUsed, sPossible>>

Faulty == INSTANCE ErasureObject WITH
  DataBlocks <- 2, Times <- SetTimes, Tags <- {0},
  meta <- sMeta, data <- sData, writer <- sWriter, readers <- sReaders, pc <- sPc, val <- sVal,
  todo <- sTodo, oks <- sOks, used <- sUsed, possible <- sPossible
Removing == INSTANCE ErasureObject WITH
  DataBlocks <- 2, HealRemove <- TRUE, Tags <- {0},
  meta <- sMeta, data <- sData, writer <- sWriter, readers <- sReaders, pc <- sPc, val <- sVal,
  todo <- sTodo, oks <- sOks, used <- sUsed, possible <- sPossible
Healthy == INSTANCE ErasureObject WITH
  DataBlocks <- 2, Procs <- Pair, Faults <- FALSE, HealRemove <- TRUE, Times <- SetTimes, Tags <- {0},
  meta <- sMeta, data <- sData, writer <- sWriter, readers <- sReaders, pc <- sPc, val <- sVal,
  todo <- sTodo, oks <- sOks, used <- sUsed, possible <- sPossible

SetsInit ==
  /\ Init
  /\ \/ which \in {"tags", "faulty", "removing"} /\ Faulty!Init
     \/ which = "healthy" /\ Healthy!Init

SetsNext ==
  /\ UNCHANGED which
  /\ \/ which = "tags" /\ Next /\ UNCHANGED setVars
     \/ which = "faulty" /\ Faulty!Next /\ UNCHANGED vars
     \/ which = "removing" /\ Removing!Next /\ UNCHANGED vars
     \/ which = "healthy" /\ Healthy!Next /\ UNCHANGED vars

SetsSpec == SetsInit /\ [][SetsNext]_<<vars, setVars, which>>

DriveSymmetry == Permutations(Disks)

\* What was acknowledged is kept with two data blocks.  Two uploads on drives that
\* fail: a read returns one of the values that the replies so far allow and takes
\* no object for a missing one, and an acknowledged upload is durable.  With heals
\* that remove, and with two operations at a time: such a read returns no other
\* value; an object may be lost there, as the removal holds no lock and trusts the
\* drives that reply (ReadsLatest, NoFalseNotFound, AckedDurable of ErasureObject).
AcknowledgedKept ==
  /\ which = "faulty" => Faulty!ReadsLatest /\ Faulty!NoFalseNotFound /\ Faulty!AckedDurable
  /\ which = "removing" => Removing!ReadsLatest
  /\ which = "healthy" => Healthy!ReadsLatest
=============================================================================
