----------------------------- MODULE Multipart ------------------------------
(* One multipart upload of the erasure backend (erasure-multipart.go): part   *)
(* uploads, completions, aborts and the clean-up of stale uploads, which run  *)
(* concurrently and share the lock of the upload and the directory            *)
(* .otterio.sys/multipart/<sha>/<uploadID> with its xl.meta and its parts.    *)
(*                                                                            *)
(* The drives answer alike (ErasureObject has them differ), and a call on all *)
(* of them is one step.  What a part holds is a number; it stands for the     *)
(* data and for the ETag.  The object may have a null version already, which  *)
(* a completion in an unversioned bucket replaces.                            *)
EXTENDS Integers

CONSTANTS Parts,        \* part numbers
          Putters,      \* PutObjectPart requests
          Completers,   \* CompleteMultipartUpload requests
          MaxSent,      \* bound on the part bodies sent
          MaxFails,     \* bound on requests that fail or crash midway
          Overlap       \* whether a completion is sent while another one runs

ASSUME MultipartAssumption ==
  /\ Parts \subseteq Nat /\ MaxSent \in Nat /\ MaxFails \in Nat
  /\ Overlap \in BOOLEAN

Nothing == 0
Blank == -1              \* a part listed without its ETag
Bodies == 1..MaxSent
NoParts == [p \in Parts |-> Nothing]

VARIABLES started,   \* NewMultipartUpload was called
          up,        \* xl.meta of the upload: its parts, and whether its
                     \* modification time is past the expiry
          files,     \* the part files in the data directory of the upload
          object,    \* the parts the committed xl.meta lists, as the client named them
          data,      \* the part files in the data directory of the object
          previous,  \* the data of the null version the completion replaces
          versioned,
          put,       \* PutObjectPart requests
          complete,  \* CompleteMultipartUpload requests
          sweep,     \* cleanupStaleUploads has found the upload stale
          acked,     \* the last body of each part the client was told is stored
          sent, fails,
          torn,      \* history: parts renamed into place and not recorded
          swept      \* history: the clean-up removed the upload under a request

mpVars == <<started, up, files, object, data, previous, versioned, put, complete,
            sweep, acked, sent, fails, torn, swept>>

Gone == [live |-> FALSE, parts |-> NoParts, old |-> FALSE]
IdlePut == [pc |-> "idle", part |-> Nothing, body |-> Nothing]
IdleComplete == [pc |-> "idle", list |-> NoParts, seen |-> {}]

UploadMeta ==
  [live : BOOLEAN, parts : [Parts -> Bodies \cup {Nothing, Blank}], old : BOOLEAN]
PartRequest ==
  [pc : {"idle", "body", "wait", "rename", "record"}, part : Parts \cup {Nothing},
   body : Bodies \cup {Nothing}]
CompleteRequest ==
  [pc : {"idle", "write", "trim", "commit"}, list : [Parts -> Bodies \cup {Nothing}],
   seen : SUBSET Parts]

\* Type invariant: a part without its ETag is in xl.meta of the upload only.
MPTypeOK ==
  /\ started \in BOOLEAN /\ versioned \in BOOLEAN /\ sweep \in BOOLEAN /\ swept \in BOOLEAN
  /\ up \in UploadMeta
  /\ files \in [Parts -> Bodies \cup {Nothing}]
  /\ object \in [Parts -> Bodies \cup {Nothing}]
  /\ data \in [Parts -> Bodies \cup {Nothing}]
  /\ previous \in {"kept", "trashed"}
  /\ put \in [Putters -> PartRequest]
  /\ complete \in [Completers -> CompleteRequest]
  /\ acked \in [Parts -> Bodies \cup {Nothing}]
  /\ sent \in 0..MaxSent /\ fails \in 0..MaxFails
  /\ torn \subseteq Parts

MPInit ==
  /\ started = FALSE
  /\ up = Gone
  /\ files = NoParts /\ object = NoParts /\ data = NoParts
  /\ previous = "kept"
  /\ versioned \in BOOLEAN
  /\ put = [r \in Putters |-> IdlePut]
  /\ complete = [r \in Completers |-> IdleComplete]
  /\ sweep = FALSE
  /\ acked = NoParts
  /\ sent = 0 /\ fails = 0
  /\ torn = {} /\ swept = FALSE

\* The lock of the upload.
ReadLocked == (\E r \in Putters : put[r].pc = "body") \/ (\E r \in Completers : complete[r].pc # "idle")
WriteLocked == \E r \in Putters : put[r].pc \in {"rename", "record"}

\* newMultipartUpload
NewMultipartUpload ==
  /\ ~started
  /\ started' = TRUE
  /\ up' = [Gone EXCEPT !.live = TRUE]
  /\ UNCHANGED <<files, object, data, previous, versioned, put, complete, sweep, acked,
                 sent, fails, torn, swept>>

-----------------------------------------------------------------------------
(* PutObjectPart.                                                             *)

PutUnchanged == UNCHANGED <<started, object, data, previous, versioned, complete, sweep, swept>>

\* Under the read lock the upload is looked up and the body goes to a
\* temporary file.
StartPart(r, p) ==
  /\ put[r].pc = "idle" /\ ~WriteLocked /\ up.live
  /\ sent < MaxSent
  /\ sent' = sent + 1
  /\ put' = [put EXCEPT ![r] = [pc |-> "body", part |-> p, body |-> sent + 1]]
  /\ UNCHANGED <<up, files, acked, fails, torn>> /\ PutUnchanged

EncodePart(r) ==
  /\ put[r].pc = "body"
  /\ put' = [put EXCEPT ![r].pc = "wait"]
  /\ UNCHANGED <<up, files, acked, sent, fails, torn>> /\ PutUnchanged

\* The write lock replaces the read lock, and the upload is looked up again.
LockPart(r) ==
  /\ put[r].pc = "wait" /\ ~ReadLocked /\ ~WriteLocked
  /\ put' = [put EXCEPT ![r] = IF up.live THEN [@ EXCEPT !.pc = "rename"] ELSE IdlePut]
  /\ UNCHANGED <<up, files, acked, sent, fails, torn>> /\ PutUnchanged

RenamePart(r) ==
  /\ put[r].pc = "rename"
  /\ files' = [files EXCEPT ![put[r].part] = put[r].body]
  /\ put' = [put EXCEPT ![r].pc = "record"]
  /\ UNCHANGED <<up, acked, sent, fails, torn>> /\ PutUnchanged

\* AddObjectPart in the xl.meta as it is now.
RecordPart(r) ==
  /\ put[r].pc = "record"
  /\ IF up.live
     THEN /\ up' = [up EXCEPT !.parts[put[r].part] = put[r].body, !.old = FALSE]
          /\ acked' = [acked EXCEPT ![put[r].part] = put[r].body]
          /\ torn' = torn \ {put[r].part}
     ELSE UNCHANGED <<up, acked, torn>>
  /\ put' = [put EXCEPT ![r] = IdlePut]
  /\ UNCHANGED <<files, sent, fails>> /\ PutUnchanged

\* The body ends early, a lock or a quorum is not obtained, or the server dies.
PartFails(r) ==
  /\ put[r].pc # "idle" /\ fails < MaxFails
  /\ fails' = fails + 1
  /\ torn' = IF put[r].pc = "record" THEN torn \cup {put[r].part} ELSE torn
  /\ put' = [put EXCEPT ![r] = IdlePut]
  /\ UNCHANGED <<up, files, acked, sent>> /\ PutUnchanged

-----------------------------------------------------------------------------
(* CompleteMultipartUpload.                                                   *)

CompleteUnchanged == UNCHANGED <<started, versioned, put, sweep, acked, sent, torn, swept>>

\* The parts S the client lists, with the ETags it was given, are those of the
\* upload.
ValidParts(S) == \A p \in S : up.parts[p] = acked[p]

\* The read lock is taken and the list checked against xl.meta.
BeginComplete(r, S) ==
  /\ complete[r].pc = "idle" /\ ~WriteLocked /\ up.live
  /\ Overlap \/ \A q \in Completers : complete[q].pc = "idle"
  /\ S # {} /\ \A p \in S : acked[p] # Nothing
  /\ ValidParts(S)
  /\ complete' = [complete EXCEPT ![r] =
       [pc |-> "write", list |-> [p \in Parts |-> IF p \in S THEN acked[p] ELSE Nothing],
        seen |-> {p \in Parts : up.parts[p] # Nothing}]]
  /\ UNCHANGED <<up, files, object, data, previous, fails>> /\ CompleteUnchanged

Listed(r) == {p \in Parts : complete[r].list[p] # Nothing}

\* The parts of the object, which carry no ETags.
FinalMeta(r) ==
  [live |-> TRUE, old |-> FALSE,
   parts |-> [p \in Parts |-> IF p \in Listed(r) THEN Blank ELSE Nothing]]

\* writeUniqueFileInfo at the upload.
WriteFinal(r) ==
  /\ complete[r].pc = "write"
  /\ up' = FinalMeta(r)
  /\ complete' = [complete EXCEPT ![r].pc = "trim"]
  /\ UNCHANGED <<files, object, data, previous, fails>> /\ CompleteUnchanged

\* Mutant of Unlisted: the listed parts are removed.
UnlistedSwapped(r) == Listed(r)

\* The parts of the upload that the client did not list.
Unlisted(r) == complete[r].seen \ Listed(r)

\* removeObjectPart
TrimParts(r) ==
  /\ complete[r].pc = "trim"
  /\ files' = [p \in Parts |-> IF p \in Unlisted(r) THEN Nothing ELSE files[p]]
  /\ complete' = [complete EXCEPT ![r].pc = "commit"]
  /\ UNCHANGED <<up, object, data, previous, fails>> /\ CompleteUnchanged

\* renameData under the namespace lock.  RenameData moves the data of the
\* null version, and whatever is at the destination, to the trash before it
\* moves the data of the upload; then xl.meta, written at the upload, follows.
CommitUpload(r) ==
  /\ complete[r].pc = "commit"
  /\ previous' = IF versioned THEN previous ELSE "trashed"
  /\ IF files # NoParts
     THEN /\ data' = files /\ files' = NoParts
          /\ object' = complete[r].list
          /\ up' = Gone
     ELSE /\ data' = NoParts
          /\ up' = FinalMeta(r)
          /\ UNCHANGED <<files, object>>
  /\ complete' = [complete EXCEPT ![r] = IdleComplete]
  /\ UNCHANGED fails /\ CompleteUnchanged

\* A quorum or the namespace lock is not obtained, the object must not exist
\* and does (RequireNewObject), or the server dies.
CompleteFails(r) ==
  /\ complete[r].pc # "idle" /\ fails < MaxFails
  /\ fails' = fails + 1
  /\ complete' = [complete EXCEPT ![r] = IdleComplete]
  /\ UNCHANGED <<up, files, object, data, previous>> /\ CompleteUnchanged

-----------------------------------------------------------------------------
(* AbortMultipartUpload and cleanupStaleUploads.                              *)

AbortMultipartUpload ==
  /\ ~ReadLocked /\ ~WriteLocked /\ up.live
  /\ up' = Gone /\ files' = NoParts
  /\ UNCHANGED <<started, object, data, previous, versioned, put, complete, sweep, acked,
                 sent, fails, torn, swept>>

\* The expiry passes without a change to the upload.
Age ==
  /\ up.live /\ ~up.old
  /\ \A r \in Completers : complete[r].pc = "idle"
  /\ up' = [up EXCEPT !.old = TRUE]
  /\ UNCHANGED <<started, files, object, data, previous, versioned, put, complete, sweep,
                 acked, sent, fails, torn, swept>>

\* Mutant of IsStale: only uploads with parts are looked at.
IsStaleWithParts == up.live /\ up.old /\ files # NoParts

IsStale == up.live /\ up.old

\* cleanupStaleUploadsOnDisk reads the modification time.  It takes no lock.
FindStale ==
  /\ ~sweep /\ IsStale
  /\ sweep' = TRUE
  /\ UNCHANGED <<started, up, files, object, data, previous, versioned, put, complete,
                 acked, sent, fails, torn, swept>>

\* renameAll: the directory of the upload goes from every drive.
RemoveStale ==
  /\ sweep
  /\ sweep' = FALSE
  /\ up' = Gone /\ files' = NoParts
  /\ swept' = (swept \/ ReadLocked \/ WriteLocked)
  /\ UNCHANGED <<started, object, data, previous, versioned, put, complete, acked, sent,
                 fails, torn>>

PartStep(r) == EncodePart(r) \/ LockPart(r) \/ RenamePart(r) \/ RecordPart(r)
CompleteStep(r) == WriteFinal(r) \/ TrimParts(r) \/ CommitUpload(r)

MPNext ==
  \/ NewMultipartUpload
  \/ \E r \in Putters :
       (\E p \in Parts : StartPart(r, p)) \/ PartStep(r) \/ PartFails(r)
  \/ \E r \in Completers :
       (\E S \in SUBSET Parts : BeginComplete(r, S)) \/ CompleteStep(r) \/ CompleteFails(r)
  \/ AbortMultipartUpload \/ Age \/ FindStale \/ RemoveStale

\* Requests that were begun go on, time passes, and the clean-up runs at its
\* interval.  Clients need send nothing.
MPFairness ==
  /\ \A r \in Putters : WF_mpVars(PartStep(r))
  /\ \A r \in Completers : WF_mpVars(CompleteStep(r))
  /\ WF_mpVars(Age) /\ WF_mpVars(FindStale) /\ WF_mpVars(RemoveStale)

MPSpec == MPInit /\ [][MPNext]_mpVars /\ MPFairness

-----------------------------------------------------------------------------
(* Properties.                                                                *)

\* The object that CompleteMultipartUpload committed holds what the client
\* listed by its ETags, whichever requests ran at the time, except for a part
\* whose later upload failed between its rename and its record.
CompletedIntact ==
  \A p \in Parts \ torn : object[p] # Nothing => data[p] = object[p]

\* A part that xl.meta of the upload lists with an ETag is the part on the
\* drives, unless an upload is between its rename and its record: two uploads
\* of one part do not mix (PutObjectPart takes the write lock).
PartsAgree ==
  ~WriteLocked =>
    \A p \in Parts \ torn : up.parts[p] \in Bodies => files[p] = up.parts[p]

\* No part outlives its upload: a late PutObjectPart is refused after an abort
\* or a completion (its second checkUploadIDExists).  Only the clean-up, which
\* takes no lock, can let one through.
NoStrayParts ==
  ~up.live /\ ~WriteLocked /\ ~swept => files = NoParts

\* A completion that does not commit leaves the null version as it was; only
\* the clean-up, which takes no lock, can break that.
PreviousKept ==
  object = NoParts /\ ~swept => previous = "kept"

\* Requests on one upload do not mix: the object is what the completion listed,
\* xl.meta of the upload is right about its parts, no part outlives the upload,
\* and a completion that fails has done no harm.
UploadSound == CompletedIntact /\ PartsAgree /\ NoStrayParts /\ PreviousKept

\* An upload comes to an end, completed, aborted or cleaned up.
UploadEnds == up.live ~> ~up.live
=============================================================================
