---------------------------- MODULE PayloadCache ----------------------------
(***************************************************************************)
(* One tool's directory in the shared payload cache (tools/cache.go).      *)
(* Publishers are cacheDownloadedPayload, which works under the directory's*)
(* CacheLock; readers are InstallCachedToolPayload, which takes no lock.   *)
(*                                                                         *)
(* A payload file is abstracted to its content, and a metadata entry to the*)
(* content whose size and checksum it records.                             *)
(***************************************************************************)
EXTENDS CacheLock

CONSTANTS Version,   \* requested versions, the keys of metadata.json
          Content,   \* payloads
          Reader,    \* installs that read the cache
          MaxPublications,  \* bound: publications started
          None       \* no file, no entry

ASSUME CacheAssumption ==
  MaxPublications \in Nat /\ None \notin Content \cup Version

VARIABLES
  payload,   \* payload[v]: the file in the version's directory
  metadata,  \* metadata[v]: the entry of metadata.json; a missing file has none
  started,   \* publications so far
  step,      \* step[p]: where a publisher that holds the lock is
  target,    \* target[p]: the version it publishes
  staged,    \* staged[p]: the verified content at its stagingPath
  seen,      \* seen[p]: the metadata it read for its update
  reading,   \* reading[r]: where a reader is
  wanted,    \* wanted[r]: the version it installs
  entry,     \* entry[r]: the metadata entry it found
  installed  \* installed[r]: what it put into targetDir, or None

dirVars    == <<payload, metadata>>
publishVars == <<started, step, target, staged, seen>>
readVars   == <<reading, wanted, entry, installed>>
vars == <<lockVars, dirVars, publishVars, readVars>>

Entries == [Version -> Content \cup {None}]

TypeOK ==
  /\ LockTypeOK
  /\ payload \in Entries /\ metadata \in Entries
  /\ started \in 0 .. MaxPublications
  /\ step \in [Process -> {"clear", "move", "read", "write", "replace", "done", "error"}]
  /\ target \in [Process -> Version \cup {None}]
  /\ staged \in [Process -> Content \cup {None}]
  /\ seen \in [Process -> Entries]
  /\ reading \in [Reader -> {"look", "check", "extract", "installed", "failed"}]
  /\ wanted \in [Reader -> Version]
  /\ entry \in [Reader -> Content \cup {None}]
  /\ installed \in [Reader -> Content \cup {None}]

Empty == [v \in Version |-> None]

Init ==
  /\ LockInit
  /\ payload = Empty /\ metadata = Empty
  /\ started = 0
  /\ step = [p \in Process |-> "clear"]
  /\ target = [p \in Process |-> None]
  /\ staged = [p \in Process |-> None]
  /\ seen = [p \in Process |-> Empty]
  /\ reading = [r \in Reader |-> "look"]
  /\ wanted \in [Reader -> Version]
  /\ entry = [r \in Reader |-> None]
  /\ installed = [r \in Reader |-> None]

-----------------------------------------------------------------------------
(* Publishing. *)

\* The locals of a call that is over.
Forget(p) ==
  /\ step' = [step EXCEPT ![p] = "clear"]
  /\ target' = [target EXCEPT ![p] = None]
  /\ staged' = [staged EXCEPT ![p] = None]
  /\ seen' = [seen EXCEPT ![p] = Empty]
  /\ UNCHANGED started

\* The checksum of the staged file is verified, or computed, before the lock.
StartPublish(p) ==
  /\ EnterLock(p)
  /\ started < MaxPublications
  /\ started' = started + 1
  /\ \E v \in Version, c \in Content :
       /\ target' = [target EXCEPT ![p] = v]
       /\ staged' = [staged EXCEPT ![p] = c]
  /\ UNCHANGED <<dirVars, step, seen, readVars>>

\* acquireCacheLock, until it has the lock or gives up.
WaitForLock(p) ==
  /\ AcquireStep(p)
  /\ IF at'[p] = "out" THEN Forget(p) ELSE UNCHANGED publishVars
  /\ UNCHANGED <<dirVars, readVars>>

\* A step of a publisher that holds the lock; every one may fail.
Step(p, from, to) ==
  /\ at[p] = "in"
  /\ step[p] = from
  /\ step' = [step EXCEPT ![p] = to]

\* os.RemoveAll of the version's directory.
RemovePayload(p) == payload' = [payload EXCEPT ![target[p]] = None]

ClearPayload(p) ==
  /\ \/ Step(p, "clear", "move") /\ RemovePayload(p)
     \/ Step(p, "clear", "error") /\ (RemovePayload(p) \/ UNCHANGED payload)
  /\ UNCHANGED <<lockVars, metadata, started, target, staged, seen, readVars>>

\* os.Rename of the staged file, then chmod for a single file.
MovePayload(p) ==
  /\ \/ /\ Step(p, "move", "read") \/ Step(p, "move", "error")
        /\ payload' = [payload EXCEPT ![target[p]] = staged[p]]
     \/ Step(p, "move", "error") /\ UNCHANGED payload
  /\ UNCHANGED <<lockVars, metadata, started, target, staged, seen, readVars>>

\* readToolCacheMetadataForUpdate: a file that cannot be read counts as empty.
ReadMetadata(p) ==
  /\ Step(p, "read", "write")
  /\ \E found \in {metadata, Empty} : seen' = [seen EXCEPT ![p] = found]
  /\ UNCHANGED <<lockVars, dirVars, started, target, staged, readVars>>

OnlyOwnEntry(p) == [v \in {target[p]} |-> staged[p]]
Updated(p) == [seen[p] EXCEPT ![target[p]] = staged[p]]

\* writeToolCacheMetadata: a temporary file and replaceFile.  If the rename over
\* the old file fails, the old file is removed first.
WriteMetadata(p) ==
  /\ \/ Step(p, "write", "done") /\ metadata' = Updated(p)
     \/ Step(p, "write", "replace") /\ metadata' = Empty
     \/ Step(p, "write", "error") /\ UNCHANGED metadata
  /\ UNCHANGED <<lockVars, payload, started, target, staged, seen, readVars>>

RenameMetadata(p) ==
  /\ \/ Step(p, "replace", "done") /\ metadata' = Updated(p)
     \/ Step(p, "replace", "error") /\ UNCHANGED metadata
  /\ UNCHANGED <<lockVars, payload, started, target, staged, seen, readVars>>

\* The deferred release.
FinishPublish(p) ==
  /\ step[p] \in {"done", "error"}
  /\ ReleaseLock(p)
  /\ Forget(p)
  /\ UNCHANGED <<dirVars, readVars>>

CrashPublish(p) ==
  /\ CrashLock(p)
  /\ Forget(p)
  /\ UNCHANGED <<dirVars, readVars>>

Age == AgeLock /\ UNCHANGED <<dirVars, publishVars, readVars>>

Publish(p) ==
  \/ StartPublish(p)
  \/ WaitForLock(p)
  \/ ClearPayload(p)
  \/ MovePayload(p)
  \/ ReadMetadata(p)
  \/ WriteMetadata(p)
  \/ RenameMetadata(p)
  \/ FinishPublish(p)
  \/ CrashPublish(p)

-----------------------------------------------------------------------------
(* Installing. *)

Read(r, from, to) == reading[r] = from /\ reading' = [reading EXCEPT ![r] = to]

\* readToolCacheMetadata and the lookup of the version: a miss if it has no entry.
LookUp(r) ==
  /\ \/ metadata[wanted[r]] # None /\ Read(r, "look", "check")
     \/ metadata[wanted[r]] = None /\ Read(r, "look", "failed")
  /\ entry' = [entry EXCEPT ![r] = metadata[wanted[r]]]
  /\ UNCHANGED <<lockVars, dirVars, publishVars, wanted, installed>>

\* validateCachedPayloadFile: present, of the size and checksum of the entry.
ChecksumMatches(r) == payload[wanted[r]] = entry[r]

Validate(r) ==
  /\ \/ ChecksumMatches(r) /\ Read(r, "check", "extract")
     \/ ~ChecksumMatches(r) /\ Read(r, "check", "failed")
  /\ UNCHANGED <<lockVars, dirVars, publishVars, wanted, entry, installed>>

\* extractArchive or copyCachedPayloadFile opens the path again.
Extract(r) ==
  /\ \/ /\ payload[wanted[r]] # None
        /\ Read(r, "extract", "installed")
        /\ installed' = [installed EXCEPT ![r] = payload[wanted[r]]]
     \/ Read(r, "extract", "failed") /\ UNCHANGED installed
  /\ UNCHANGED <<lockVars, dirVars, publishVars, wanted, entry>>

Install(r) == LookUp(r) \/ Validate(r) \/ Extract(r)

Next ==
  \/ \E p \in Process : Publish(p)
  \/ Age
  \/ \E r \in Reader : Install(r)

Spec == Init /\ [][Next]_vars

-----------------------------------------------------------------------------
(* Properties. *)

\* What the cache serves for a version: an entry and the payload it describes.
Served(v) == IF metadata[v] = payload[v] THEN payload[v] ELSE None

\* A publisher that has written its metadata serves its payload: whoever published
\* or was killed before, nobody interferes while the lock is held.
PublishedIsServed ==
  ~everStale => \A p \in Process :
     at[p] = "in" /\ step[p] = "done" => Served(target[p]) = staged[p]

\* A publisher changes what is served for its own version only, unless it could
\* not read metadata.json or must remove it to replace it: no update is lost.
OthersUntouched ==
  [][\A v \in Version : ~everStale /\ Served(v)' # Served(v) =>
       \E p \in Process : /\ at[p] = "in"
                          /\ \/ target[p] = v
                             \/ seen[p] = Empty
                             \/ "replace" \in {step[p], step'[p]}]_vars

\* "InstallCachedToolPayload materializes a validated cached payload": what is
\* installed is the payload that was validated, and whose version is reported.
InstallsWhatItValidated ==
  \A r \in Reader : reading[r] = "installed" => installed[r] = entry[r]
=============================================================================
