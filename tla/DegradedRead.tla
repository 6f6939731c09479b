---------------------------- MODULE DegradedRead ----------------------------
(***************************************************************************)
(* A GET of an erasure-coded object: getObjectWithFileInfo goes through    *)
(* the parts, Erasure.Decode through the blocks of a part, and             *)
(* parallelReader.Read fetches dataBlocks shards of a block from the       *)
(* drives, concurrently, replacing a reader that fails by the next one.    *)
(* The shards are identified by the slot they belong to; what the decoder  *)
(* does with dataBlocks of them is external.                               *)
(***************************************************************************)
EXTENDS FiniteSets, Integers, Sequences

CONSTANTS NReaders,   \* drives of the erasure set
          DataBlocks, \* shards needed to reconstruct a block
          NParts,     \* parts of the object
          NBlocks,    \* blocks of a part
          MaxBad,     \* bound on drives that are offline or fail
          MaxSick     \* bound on drives that fail while the object is read

VARIABLES shards,    \* part -> drive -> what reading its shard file gives
          online,    \* drives with a usable onlineDisks entry
          prefer,    \* Decode's prefer argument, TRUE for drives without a host name
          part,      \* the part being read
          block,     \* the block being read
          looked,    \* the loop of preferReaders: the position it looks at
          nextPos,   \* and its next
          readers,   \* parallelReader.readers: position -> drive, or 0 for nil
          toBuf,     \* parallelReader.readerToBuf: position -> slot
          triggers,  \* readTriggerCh
          index,     \* readerIndex
          running,   \* positions whose goroutine is reading
          bufs,      \* newBuf: slot -> the drive whose shard it holds, or 0
          hurt,      \* the errors of this Read: bitrotHeal, missingPartsHeal
          derr,      \* Decode's derr
          served,    \* parts written to the client in full
          healStarted,   \* a heal of the object was started
          at         \* where the request is

readVars == <<shards, online, prefer, part, block, looked, nextPos, readers, toBuf, triggers,
              index, running, bufs, hurt, derr, served, healStarted, at>>
preferVars == <<looked, nextPos>>

ASSUME ReadAssumption ==
    /\ NReaders \in Nat /\ DataBlocks \in 1..NReaders
    /\ NParts \in Nat \ {0} /\ NBlocks \in Nat \ {0} /\ MaxBad \in Nat /\ MaxSick \in Nat

Positions == 1..NReaders
\* "missing" is errFileNotFound, "corrupt" errFileCorrupt, "broken" any other error.
ShardStates == {"good", "missing", "corrupt", "broken"}
Sick(p) == {d \in Positions : shards[p][d] # "good"}

\* getObjectWithFileInfo marks the drives without a host name (path-style endpoints, which a
\* set has all or none of) as preferred.
ReadInit ==
    /\ \E bad \in {b \in SUBSET Positions : Cardinality(b) <= MaxBad} :
          /\ online \in {o \in SUBSET Positions : Positions \ o \subseteq bad}
          /\ Cardinality(bad \cap online) <= MaxSick
          /\ \E how \in [bad \cap online -> ShardStates \ {"good"}], since \in [bad \cap online -> 1..NParts] :
                shards = [p \in 1..NParts |-> [d \in Positions |->
                            IF d \in bad \cap online /\ p >= since[d] THEN how[d] ELSE "good"]]
    /\ \E hostless \in BOOLEAN : prefer = [d \in Positions |-> hostless /\ d \in online]
    /\ part = 1 /\ block = 1 /\ looked = 1 /\ nextPos = 1
    /\ readers = [i \in Positions |-> 0] /\ toBuf = [i \in Positions |-> i]
    /\ triggers = <<>> /\ index = 1 /\ running = {}
    /\ bufs = [s \in Positions |-> 0]
    /\ hurt = {} /\ derr = "nil" /\ served = 0 /\ healStarted = FALSE
    /\ at = "part"

-----------------------------------------------------------------------------
(* Decode of one part.                                                     *)

Exchange(f, i, j) == [f EXCEPT ![i] = f[j], ![j] = f[i]]

\* The readers of a part, newParallelReader.
BeginPart ==
    /\ at = "part"
    /\ readers' = [i \in Positions |-> IF i \in online THEN i ELSE 0]
    /\ toBuf' = [i \in Positions |-> i]
    /\ looked' = 1 /\ nextPos' = 1
    /\ block' = 1 /\ derr' = "nil" /\ at' = "prefer"
    /\ UNCHANGED <<shards, online, prefer, part, triggers, index, running, bufs, hurt, served, healStarted>>

\* Mutant of PreferReader: readerToBuf is not kept in step.
PreferReaderUnmapped ==
    /\ at = "prefer" /\ looked <= NReaders /\ looked' = looked + 1
    /\ IF ~prefer[looked] \/ readers[looked] = 0 THEN UNCHANGED <<nextPos, readers>>
       ELSE readers' = Exchange(readers, nextPos, looked) /\ nextPos' = nextPos + 1
    /\ UNCHANGED <<shards, online, prefer, part, block, toBuf, triggers, index, running, bufs, hurt, derr,
                   served, healStarted, at>>
\* One round of preferReaders: a preferred reader is moved to the next position.
PreferReader ==
    /\ at = "prefer" /\ looked <= NReaders /\ looked' = looked + 1
    /\ IF ~prefer[looked] \/ readers[looked] = 0 THEN UNCHANGED <<nextPos, readers, toBuf>>
       ELSE /\ nextPos' = nextPos + 1
            /\ IF looked = nextPos THEN UNCHANGED <<readers, toBuf>>
               ELSE /\ readers' = Exchange(readers, nextPos, looked)
                    /\ toBuf' = [toBuf EXCEPT ![nextPos] = looked, ![looked] = nextPos]
    /\ UNCHANGED <<shards, online, prefer, part, block, triggers, index, running, bufs, hurt, derr,
                   served, healStarted, at>>

EndPrefer ==
    /\ at = "prefer" /\ looked > NReaders /\ at' = "read"
    /\ UNCHANGED <<shards, online, prefer, part, block, preferVars, readers, toBuf, triggers, index,
                   running, bufs, hurt, derr, served, healStarted>>

\* parallelReader.Read: dataBlocks triggers, so that as many reads start in parallel.
BeginRead ==
    /\ at = "read"
    /\ triggers' = [i \in 1..DataBlocks |-> TRUE]
    /\ index' = 1 /\ bufs' = [s \in Positions |-> 0] /\ hurt' = {}
    /\ at' = "loop"
    /\ UNCHANGED <<shards, online, prefer, part, block, preferVars, readers, toBuf, running, derr, served, healStarted>>

Filled == {s \in Positions : bufs[s] # 0}
CanDecode == Cardinality(Filled) >= DataBlocks

\* One round of the loop over readTriggerCh.
NextTrigger ==
    /\ at = "loop" /\ triggers # <<>>
    /\ triggers' = Tail(triggers)
    /\ IF CanDecode \/ index > NReaders
       THEN at' = "wait" /\ UNCHANGED <<index, running>>
       ELSE /\ at' = "loop"
            /\ IF Head(triggers)
               THEN running' = running \cup {index} /\ index' = index + 1
               ELSE UNCHANGED <<index, running>>
    /\ UNCHANGED <<shards, online, prefer, part, block, preferVars, readers, toBuf, bufs, hurt, derr, served, healStarted>>

\* A send on readTriggerCh, whose capacity is the number of readers.
Trigger(again) ==
    /\ Len(triggers) < NReaders
    /\ triggers' = Append(triggers, again)

Outcome(i) == IF readers[i] = 0 THEN "none" ELSE shards[part][readers[i]]

\* Mutant of ReadFails: no other reader is asked for.
ReadFailsQuietly(i) ==
    /\ i \in running /\ Outcome(i) # "good"
    /\ Trigger(FALSE)
    /\ running' = running \ {i} /\ readers' = [readers EXCEPT ![i] = 0]
    /\ hurt' = hurt \cup {Outcome(i)}
    /\ UNCHANGED <<shards, online, prefer, part, block, preferVars, toBuf, index, bufs, derr, served, healStarted, at>>
\* The goroutine of position i finds no reader, or its ReadAt fails.
ReadFails(i) ==
    /\ i \in running /\ Outcome(i) # "good"
    /\ Trigger(TRUE)
    /\ running' = running \ {i} /\ readers' = [readers EXCEPT ![i] = 0]
    /\ hurt' = hurt \cup {Outcome(i)}
    /\ UNCHANGED <<shards, online, prefer, part, block, preferVars, toBuf, index, bufs, derr, served, healStarted, at>>

\* ... or succeeds.
ReadSucceeds(i) ==
    /\ i \in running /\ Outcome(i) = "good"
    /\ Trigger(FALSE)
    /\ running' = running \ {i}
    /\ bufs' = [bufs EXCEPT ![toBuf[i]] = readers[i]]
    /\ UNCHANGED <<shards, online, prefer, part, block, preferVars, readers, toBuf, index, hurt, derr, served, healStarted, at>>

\* Read's error along with the buffers; Decode keeps the first one.
Reported == IF derr # "nil" THEN derr
            ELSE IF "missing" \in hurt THEN "missing"
            ELSE IF "corrupt" \in hurt THEN "corrupt" ELSE "nil"

\* wg.Wait() is over: Read returns, and Decode goes on to the next block.
EndRead ==
    /\ at = "wait" /\ running = {}
    /\ IF CanDecode
       THEN /\ derr' = Reported
            /\ IF block < NBlocks THEN block' = block + 1 /\ at' = "read"
                                  ELSE UNCHANGED block /\ at' = "decoded"
       ELSE at' = "failed" /\ UNCHANGED <<derr, block>>
    /\ UNCHANGED <<shards, online, prefer, part, preferVars, readers, toBuf, triggers, index, running, bufs, hurt, served, healStarted>>

-----------------------------------------------------------------------------
(* getObjectWithFileInfo after Decode.                                     *)

\* Drives whose reader is gone: Decode clears the caller's slot of a failed reader.
Lost == {d \in online : \A i \in Positions : readers[i] # d}

\* The part was served; an error of Decode starts a heal and still ends the request.
\* (It starts one unless a drive of the set is itself being healed: none is here.)
EndPart ==
    /\ at = "decoded"
    /\ served' = part
    /\ IF derr # "nil"
       THEN healStarted' = TRUE /\ at' = "ended" /\ UNCHANGED <<online, part>>
       ELSE /\ UNCHANGED healStarted
            /\ online' = online \ Lost
            /\ IF part < NParts THEN part' = part + 1 /\ at' = "part"
                                ELSE UNCHANGED part /\ at' = "ended"
    /\ UNCHANGED <<shards, prefer, block, preferVars, readers, toBuf, triggers, index, running, bufs, hurt, derr>>

ReadNext ==
    \/ BeginPart \/ PreferReader \/ EndPrefer \/ BeginRead \/ NextTrigger \/ EndRead \/ EndPart
    \/ \E i \in Positions : ReadFails(i) \/ ReadSucceeds(i)

\* The goroutines and the request itself are scheduled.
ReadSpec == ReadInit /\ [][ReadNext]_readVars /\ WF_readVars(ReadNext)

-----------------------------------------------------------------------------
(* Properties.                                                             *)

\* Type invariant; the channel never holds more triggers than there are readers.
ReadTypeOK ==
    /\ online \subseteq Positions /\ part \in 1..NParts /\ block \in 1..NBlocks
    /\ looked \in 1..NReaders + 1 /\ nextPos \in 1..looked
    /\ readers \in [Positions -> 0..NReaders] /\ toBuf \in [Positions -> Positions]
    /\ triggers \in Seq(BOOLEAN) /\ Len(triggers) <= NReaders
    /\ index \in 1..NReaders + 1 /\ running \subseteq Positions
    /\ bufs \in [Positions -> 0..NReaders] /\ hurt \subseteq ShardStates \cup {"none"}
    /\ served \in 0..NParts
    /\ at \in {"part", "prefer", "read", "loop", "wait", "decoded", "failed", "ended"}

\* Every slot given to the decoder holds the shard of that slot, in whichever order the
\* readers were preferred, failed and answered (readerToBuf in parallelReader.Read).
RightShards == \A s \in Filled : bufs[s] = s

\* A read gives up only when fewer than dataBlocks drives were ever usable, decodes only
\* with dataBlocks shards, and never fetches more than it needs.
QuorumDecides ==
    /\ at = "failed" => Cardinality(online \ Sick(part)) < DataBlocks
    /\ at = "decoded" => Cardinality(Filled) = DataBlocks
    /\ Cardinality(Filled) <= DataBlocks

\* A request that met a missing or corrupt shard and could still serve the part has started
\* a heal by the time it ends (Decode's derr).
HealStarted ==
    at = "ended" /\ (\E d \in Sick(part) : shards[part][d] # "broken" /\ \A i \in Positions : readers[i] # d)
    => healStarted

\* The decoder is given the right shards, as many as it needs, whenever there
\* are that many, and damage it met is reported (parallelReader.Read, Decode).
ReadSound == RightShards /\ QuorumDecides /\ HealStarted

\* A GET that was begun ends: the loop over readTriggerCh is never left waiting for a trigger.
GetEnds == at # "part" ~> at \in {"failed", "ended"}

\* A GET serves every part when every part has dataBlocks readable shards.
ServedAll ==
    at = "ended" /\ (\A p \in 1..NParts : Cardinality(online \ Sick(p)) >= DataBlocks) => served = NParts
=============================================================================
