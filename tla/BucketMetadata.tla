--------------------------- MODULE BucketMetadata ---------------------------
(***************************************************************************)
(* The settings of one bucket: the metadata document the object layer      *)
(* keeps (.metadata.bin), the copy every node caches, and the event rules  *)
(* every node derives from it.  Every change is a read-modify-write of the *)
(* whole document under the bucket's transaction lock                      *)
(* (BucketMetadataSys.update); the lock is released before the peers are   *)
(* told to reload, so caches and event rules follow later, node by node.   *)
(*                                                                         *)
(* What happens under the transaction lock is one step: every writer and   *)
(* every loader of the document takes that lock.  The lock itself is       *)
(* modelled in Dsync.                                                      *)
(***************************************************************************)
EXTENDS FiniteSets, Integers

CONSTANTS Nodes,          \* the servers of the deployment
          NChanges,       \* how many requests there are
          MaxActive,      \* how many of them are in progress at the same time
          KindSets,       \* the mixes of requests a behaviour may consist of
          LegacyAtStart,  \* the bucket was written by a release that kept a policy file
          MaxMissed       \* bound on lost notifications, crashes, failed saves and deletions

VARIABLES exists,   \* the bucket's volume exists
          document, \* the persisted metadata, or NoDocument
          legacy,   \* the legacy policy file is still there
          cached,   \* node -> BucketMetadataSys.metadataMap, or NoDocument
          rules,    \* node -> NotificationSys.bucketRulesMap
          change,   \* request -> its record
          ackedChanges,    \* policy statements whose addition was acknowledged (history)
          missed,   \* nodes that were not told of a change, until their next load (history)
          mix,      \* the kinds of requests of this behaviour
          bucketMishaps   \* lost notifications, crashes, failed saves and deletions so far

bucketVars == <<exists, document, legacy, cached, rules, change, ackedChanges, missed, mix, bucketMishaps>>

ASSUME BucketAssumption ==
    /\ MaxMissed \in Nat /\ NChanges \in Nat /\ MaxActive \in Nat
    /\ LegacyAtStart \in BOOLEAN
    /\ KindSets \subseteq SUBSET {"make", "delete", "versioning", "lock", "replication", "policy", "policyset", "rules"}

NoDocument == [none |-> TRUE]
Changes == 1..NChanges \* requests, in the order of their arrival
OldPolicy == 0 \* the statement of the legacy policy file
Documents == [versioning: {"", "enabled", "suspended"}, lock: {"", "default", "rule"},
              replication: BOOLEAN, policy: SUBSET (Changes \cup {OldPolicy}), events: BOOLEAN]

\* newBucketMetadata
NewDocument == [versioning |-> "", lock |-> "", replication |-> FALSE, policy |-> {}, events |-> FALSE]

\* The values a request of a kind may carry.
ValuesOf(kind) == CASE kind = "make" -> {"", "default"}
                    [] kind = "versioning" -> {"enabled", "suspended"}
                    [] kind = "lock" -> {"default", "rule"}
                    [] kind \in {"replication", "rules"} -> BOOLEAN
                    [] OTHER -> {""}

Waiting == [at |-> "new"]
Over == [at |-> "over"]

BucketInit ==
    /\ exists = TRUE
    /\ legacy = LegacyAtStart
    /\ document = IF LegacyAtStart THEN NoDocument ELSE NewDocument
    /\ cached = [n \in Nodes |-> NoDocument]
    /\ rules = [n \in Nodes |-> FALSE]
    /\ change = [r \in Changes |-> Waiting]
    /\ ackedChanges = {} /\ missed = {} /\ bucketMishaps = 0
    /\ mix \in KindSets

-----------------------------------------------------------------------------
(* Loading and saving the document, under the transaction lock.            *)

\* BucketMetadata.Load: a bucket without a document has default settings.
Loaded(d) == IF d = NoDocument THEN NewDocument ELSE d
Persisted == Loaded(document)

\* convertLegacyConfigs: the legacy file, while it is there, overrides the document.
Migrated == IF legacy THEN [Persisted EXCEPT !.policy = {OldPolicy}] ELSE Persisted

\* The nodes whose copy is not d: nobody tells them of a document that comes from a
\* migration, or from a save that failed.
Untold(d) == {n \in Nodes : cached[n] \notin {NoDocument, Loaded(d)}}

\* loadBucketMetadataUnlocked fails after saving the migrated document, because the
\* legacy file could not be removed, or because the node died before removing it.
MigrationFails ==
    /\ legacy /\ bucketMishaps < MaxMissed
    /\ document' = Migrated /\ bucketMishaps' = bucketMishaps + 1
    /\ missed' = missed \cup Untold(Migrated)
    /\ UNCHANGED <<exists, legacy, cached, rules, ackedChanges>>

\* loadBucketMetadataUnlocked succeeds.
Migrates == legacy' = FALSE

\* What it leaves as the document, and the nodes it does not tell.
MigratedDocument == IF legacy THEN Migrated ELSE document
MissMigration == IF legacy THEN missed \cup Untold(Migrated) ELSE missed

\* The part of parseAllConfigs that Save writes back: the default object-lock document
\* switches versioning on.
Parsed(d) == IF d.lock = "default" THEN [d EXCEPT !.versioning = "enabled"] ELSE d

-----------------------------------------------------------------------------
(* Caches.                                                                 *)

\* loadConfig: read the document and publish it before the lock is released.
LoadConfig(n) ==
    /\ exists
    /\ Migrates
    /\ document' = MigratedDocument
    /\ cached' = [cached EXCEPT ![n] = Migrated]
    /\ missed' = MissMigration \ {n}

\* GetConfig of a setting that is not in the cache.
LoadOnMiss(n) ==
    /\ cached[n] = NoDocument
    /\ LoadConfig(n)
    /\ UNCHANGED <<exists, rules, change, ackedChanges, bucketMishaps>>

LoadOnMissFails(n) ==
    /\ cached[n] = NoDocument /\ exists
    /\ MigrationFails
    /\ UNCHANGED change

-----------------------------------------------------------------------------
(* A request: the handler's checks, then the transaction, then the peers.  *)

\* The checks of the handlers, made on the cached document before the transaction.
HandlerAllows(n, kind, value) ==
    CASE kind = "lock" -> cached[n] # NoDocument /\ cached[n].lock # ""
      [] kind = "replication" -> cached[n] # NoDocument /\ (value => cached[n].versioning = "enabled")
      [] kind = "versioning" ->
           value = "suspended" => /\ cached[n] # NoDocument
                                  /\ cached[n].lock = "" /\ ~cached[n].replication
      [] OTHER -> TRUE

Arrive(r, n, kind, value) ==
    /\ change[r] = Waiting /\ \A s \in 1..(r - 1) : change[s] # Waiting
    /\ Cardinality({s \in Changes : change[s] \notin {Waiting, Over}}) < MaxActive
    /\ HandlerAllows(n, kind, value)
    /\ change' = [change EXCEPT ![r] = [at |-> IF kind = "policy" THEN "read" ELSE "commit",
                                        node |-> n, kind |-> kind, value |-> value, seen |-> {}]]
    /\ UNCHANGED <<exists, document, legacy, cached, rules, ackedChanges, missed, bucketMishaps>>

Stage(r, pc) == change[r].at = pc

\* ReadConfigWithRevision: a fresh read, for a client that will send its revision back.
ReadRevision(r) ==
    /\ Stage(r, "read")
    /\ \/ LoadConfig(change[r].node) /\ UNCHANGED bucketMishaps
          /\ change' = [change EXCEPT ![r].at = "commit", ![r].seen = Migrated.policy]
          /\ UNCHANGED <<exists, rules, ackedChanges>>
       \/ exists /\ MigrationFails /\ change' = [change EXCEPT ![r] = Over]
       \/ ~exists /\ change' = [change EXCEPT ![r] = Over]
          /\ UNCHANGED <<exists, document, legacy, cached, rules, ackedChanges, missed, bucketMishaps>>

\* Mutant of CommitAllows: the revision is not compared.
CommitAllowsAnyRevision(r, d) ==
    LET c == change[r] IN
    CASE c.kind = "versioning" -> c.value = "suspended" => d.lock = "" /\ ~d.replication
      [] c.kind = "replication" -> c.value => d.versioning = "enabled"
      [] OTHER -> TRUE
\* The conditions update checks on the fresh document d, inside the transaction.
CommitAllows(r, d) ==
    LET c == change[r] IN
    CASE c.kind = "policy" -> d.policy = c.seen
      [] c.kind = "versioning" -> c.value = "suspended" => d.lock = "" /\ ~d.replication
      [] c.kind = "replication" -> c.value => d.versioning = "enabled"
      [] OTHER -> TRUE

\* The document update saves.
Updated(r, d) ==
    LET c == change[r] IN
    Parsed(CASE c.kind = "policy" -> [d EXCEPT !.policy = c.seen \cup {r}]
             [] c.kind = "policyset" -> [d EXCEPT !.policy = {r}]
             [] c.kind = "versioning" -> [d EXCEPT !.versioning = c.value]
             [] c.kind = "lock" -> [d EXCEPT !.lock = c.value]
             [] c.kind = "replication" -> [d EXCEPT !.replication = c.value]
             [] c.kind = "rules" -> [d EXCEPT !.events = c.value])

Peers(n) == Nodes \ {n}

\* After the transaction the peers reload (or, on deletion, drop) the bucket.
Notifying(r) == [at |-> "notify", node |-> change[r].node, kind |-> change[r].kind, value |-> change[r].value,
                 left |-> Peers(change[r].node), loaded |-> {}]

AckedAfter(r) == CASE change[r].kind = "policy" -> ackedChanges \cup {r}
                   [] change[r].kind = "policyset" -> {r}
                   [] OTHER -> ackedChanges

\* What is acknowledged still after a failed save that replaced the policy or did not.
KeptAfter(r) == IF change[r].kind = "policyset" THEN {} ELSE ackedChanges

\* BucketMetadataSys.update.  A save that fails ends it, although the new document may
\* be the one that is read from then on.
Update(r) ==
    /\ Stage(r, "commit") /\ change[r].kind \notin {"make", "delete"}
    /\ \/ /\ exists /\ CommitAllows(r, Migrated)
          /\ Migrates
          /\ document' = Updated(r, Migrated)
          /\ cached' = [cached EXCEPT ![change[r].node] = Updated(r, Migrated)]
          /\ missed' = MissMigration \ {change[r].node}
          /\ ackedChanges' = AckedAfter(r)
          /\ change' = [change EXCEPT ![r] = Notifying(r)]
          /\ UNCHANGED <<exists, rules, bucketMishaps>>
       \/ /\ exists /\ CommitAllows(r, Migrated)
          /\ Migrates
          /\ bucketMishaps < MaxMissed /\ bucketMishaps' = bucketMishaps + 1
          /\ document' \in {MigratedDocument, Updated(r, Migrated)}
          /\ missed' = MissMigration \cup Untold(document')
          /\ ackedChanges' = KeptAfter(r)
          /\ change' = [change EXCEPT ![r] = Over]
          /\ UNCHANGED <<exists, cached, rules>>
       \/ /\ exists /\ ~CommitAllows(r, Migrated)
          /\ Migrates
          /\ document' = MigratedDocument /\ missed' = MissMigration
          /\ change' = [change EXCEPT ![r] = Over]
          /\ UNCHANGED <<exists, cached, rules, ackedChanges, bucketMishaps>>
       \/ exists /\ MigrationFails /\ change' = [change EXCEPT ![r] = Over]
       \/ ~exists /\ change' = [change EXCEPT ![r] = Over]
          /\ UNCHANGED <<exists, document, legacy, cached, rules, ackedChanges, missed, bucketMishaps>>

\* erasureServerPools.MakeBucketWithLocation; when the save fails the bucket is there,
\* with the new document, or with what an earlier bucket left.
MakeBucket(r) ==
    /\ Stage(r, "commit") /\ change[r].kind = "make"
    /\ LET d == Parsed([NewDocument EXCEPT !.lock = change[r].value]) IN
       \/ /\ exists
          /\ change' = [change EXCEPT ![r] = Over]
          /\ UNCHANGED <<exists, document, cached, ackedChanges, missed, bucketMishaps>>
       \/ /\ ~exists
          /\ exists' = TRUE /\ document' = d /\ ackedChanges' = {}
          /\ cached' = [cached EXCEPT ![change[r].node] = d]
          /\ missed' = missed \ {change[r].node}
          /\ change' = [change EXCEPT ![r] = Notifying(r)]
          /\ UNCHANGED bucketMishaps
       \/ /\ ~exists
          /\ bucketMishaps < MaxMissed /\ bucketMishaps' = bucketMishaps + 1
          /\ exists' = TRUE /\ document' \in {document, d} /\ ackedChanges' = {}
          /\ missed' = missed \cup Untold(document')
          /\ change' = [change EXCEPT ![r] = Over]
          /\ UNCHANGED cached
    /\ UNCHANGED <<legacy, rules>>

\* erasureServerPools.DeleteBucket; a failure to remove the document is ignored.
DeleteBucket(r) ==
    /\ Stage(r, "commit") /\ change[r].kind = "delete"
    /\ IF ~exists
       THEN /\ change' = [change EXCEPT ![r] = Over]
            /\ UNCHANGED <<exists, document, ackedChanges, bucketMishaps>>
       ELSE /\ exists' = FALSE /\ ackedChanges' = {}
            /\ \/ document' = NoDocument /\ UNCHANGED bucketMishaps
               \/ bucketMishaps < MaxMissed /\ bucketMishaps' = bucketMishaps + 1 /\ UNCHANGED document
            /\ change' = [change EXCEPT ![r] = [Notifying(r) EXCEPT !.at = "remove"]]
    /\ UNCHANGED <<legacy, cached, rules, missed>>

-----------------------------------------------------------------------------
(* The notifications.                                                      *)

\* NotificationSys.DeleteBucketMetadata drops the node's own copy first.
RemoveOwn(r) ==
    /\ Stage(r, "remove")
    /\ cached' = [cached EXCEPT ![change[r].node] = NoDocument]
    /\ change' = [change EXCEPT ![r].at = "notify"]
    /\ UNCHANGED <<exists, document, legacy, rules, ackedChanges, missed, bucketMishaps>>

Notified(r, p) == [change EXCEPT ![r].left = @ \ {p}]

\* DeleteBucketMetadataHandler on peer p.
PeerRemoves(r, p) ==
    /\ Stage(r, "notify") /\ change[r].kind = "delete" /\ p \in change[r].left
    /\ cached' = [cached EXCEPT ![p] = NoDocument]
    /\ change' = Notified(r, p)
    /\ UNCHANGED <<exists, document, legacy, rules, ackedChanges, missed, bucketMishaps>>

\* What the handler will hand to AddRulesMap; nothing changes in a behaviour without rules.
ToAdd(p) == IF "rules" \in mix THEN {<<p, Migrated.events>>} ELSE {}

\* LoadBucketMetadataHandler on peer p, up to the end of loadConfig.
PeerLoads(r, p) ==
    /\ Stage(r, "notify") /\ change[r].kind # "delete" /\ p \in change[r].left
    /\ IF exists
       THEN /\ LoadConfig(p) /\ UNCHANGED bucketMishaps
            /\ change' = [Notified(r, p) EXCEPT ![r].loaded = @ \cup ToAdd(p)]
       ELSE /\ change' = Notified(r, p)
            /\ UNCHANGED <<document, legacy, cached, missed, bucketMishaps>>
    /\ UNCHANGED <<exists, rules, ackedChanges>>

\* ... and its AddRulesMap, after the transaction lock was released.
PeerAddsRules(r) ==
    /\ Stage(r, "notify")
    /\ \E l \in change[r].loaded :
          /\ rules' = [rules EXCEPT ![l[1]] = l[2]]
          /\ change' = [change EXCEPT ![r].loaded = @ \ {l}]
    /\ UNCHANGED <<exists, document, legacy, cached, ackedChanges, missed, bucketMishaps>>

\* The call to peer p fails; the failure is only logged.
PeerMissed(r, p) ==
    /\ Stage(r, "notify") /\ p \in change[r].left
    /\ bucketMishaps < MaxMissed
    /\ bucketMishaps' = bucketMishaps + 1 /\ missed' = missed \cup {p}
    /\ change' = Notified(r, p)
    /\ UNCHANGED <<exists, document, legacy, cached, rules, ackedChanges>>

\* All peers answered.  PutBucketNotificationHandler then adds its own rules.
Answer(r) ==
    /\ Stage(r, "notify") /\ change[r].left = {} /\ change[r].loaded = {}
    /\ rules' = IF change[r].kind = "rules" THEN [rules EXCEPT ![change[r].node] = change[r].value] ELSE rules
    /\ change' = [change EXCEPT ![r] = Over]
    /\ UNCHANGED <<exists, document, legacy, cached, ackedChanges, missed, bucketMishaps>>

\* A node restarts: its requests are gone, with the notifications they still owed.
RestartNode(n) ==
    /\ bucketMishaps < MaxMissed /\ bucketMishaps' = bucketMishaps + 1
    /\ LET dead == {r \in Changes : change[r].at \notin {"new", "over"} /\ change[r].node = n}
           owed == UNION {IF change[r].at \in {"notify", "remove"} THEN change[r].left ELSE {} : r \in dead}
       IN /\ change' = [r \in Changes |-> IF r \in dead THEN Over
                           ELSE IF change[r].at = "notify"
                                THEN [change[r] EXCEPT !.loaded = {l \in @ : l[1] # n}]
                                ELSE change[r]]
          /\ missed' = (missed \cup owed) \ {n}
    /\ cached' = [cached EXCEPT ![n] = NoDocument]
    /\ rules' = [rules EXCEPT ![n] = exists /\ Persisted.events]
    /\ UNCHANGED <<exists, document, legacy, ackedChanges>>

BucketStep ==
    \/ \E n \in Nodes : LoadOnMiss(n) \/ LoadOnMissFails(n) \/ RestartNode(n)
    \/ \E r \in Changes, n \in Nodes, kind \in mix : \E value \in ValuesOf(kind) : Arrive(r, n, kind, value)
    \/ \E r \in Changes : \/ ReadRevision(r) \/ Update(r) \/ MakeBucket(r) \/ DeleteBucket(r)
                          \/ RemoveOwn(r) \/ PeerAddsRules(r) \/ Answer(r)
    \/ \E r \in Changes, p \in Nodes : PeerRemoves(r, p) \/ PeerLoads(r, p) \/ PeerMissed(r, p)

BucketNext == BucketStep /\ UNCHANGED mix

BucketSpec == BucketInit /\ [][BucketNext]_bucketVars

-----------------------------------------------------------------------------
(* Properties.                                                             *)

\* Type invariant: the document, the caches and the event rules of every node; the default
\* object-lock configuration comes with versioning (parseAllConfigs, Save).
BucketTypeOK ==
    /\ exists \in BOOLEAN /\ legacy \in BOOLEAN
    /\ document \in Documents \cup {NoDocument}
    /\ document # NoDocument /\ document.lock = "default" => document.versioning = "enabled"
    /\ cached \in [Nodes -> Documents \cup {NoDocument}]
    /\ rules \in [Nodes -> BOOLEAN]
    /\ ackedChanges \subseteq Changes /\ missed \subseteq Nodes
    /\ mix \in KindSets /\ bucketMishaps \in 0..MaxMissed

\* No lost update: a policy statement whose conditional addition was acknowledged is in the
\* document until an unconditional update or the bucket's deletion, whatever other updates,
\* migrations, failed saves, failed migrations and restarts happen (update's read-modify-write).
UpdatesKept == exists => ackedChanges \subseteq Persisted.policy

\* Versioning is never suspended while replication is configured, although both handlers
\* check a cache that may be stale (the re-checks inside update).
ReplicationVersioned == document # NoDocument /\ document.replication => document.versioning = "enabled"

\* A cached document differs from the persisted one only on a node that still has a
\* notification coming, or that was not told: the call to it failed, the save failed although
\* the document changed, or a policy file that a deleted bucket left behind was migrated.
\* In all other cases caches follow (update and loadConfig publish under the lock).
CacheCurrent ==
    \A n \in Nodes \ missed :
        \/ cached[n] = NoDocument
        \/ exists /\ cached[n] = Persisted
        \/ \E r \in Changes : \/ change[r].at \in {"notify", "remove"} /\ n \in change[r].left
                              \/ change[r].at = "remove" /\ change[r].node = n

\* The settings of a bucket survive concurrent changes: no acknowledged update is lost,
\* replication keeps its versioning, and caches follow what they are told (update,
\* loadConfig).
SettingsSound == UpdatesKept /\ ReplicationVersioned /\ CacheCurrent

\* Once every request has been answered and no call was lost, every node's event rules are
\* those of the bucket's settings.
RulesCurrent ==
    (\A r \in Changes : change[r].at \in {"new", "over"}) /\ bucketMishaps = 0 /\ exists
        => \A n \in Nodes : rules[n] = Persisted.events
=============================================================================
