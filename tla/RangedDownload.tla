--------------------------- MODULE RangedDownload ---------------------------
(***************************************************************************)
(* Concurrent file downloads (tools/ranged_download.go): each call of      *)
(* downloadFileWithProgress probes the server, splits the file into chunks *)
(* that several workers fetch, and falls back to a single stream when the  *)
(* ranged transfer cannot be used.  The workers beyond each file's first   *)
(* share the process-wide slots.                                           *)
(*                                                                         *)
(* A response is abstracted to the version of the file it carries, a       *)
(* failed attempt to its class: "retry" (connection error, stall, short    *)
(* body, retryable status), "unusable" (errRangedUnusable) or "write"      *)
(* (downloadWriteError).                                                   *)
(***************************************************************************)
EXTENDS Naturals, FiniteSets

CONSTANTS Files,        \* the downloads in progress in this process
          Chunks,       \* chunks per file: ceil(total / chunkSize)
          Connections,  \* downloadConnections()
          SlotCap,      \* cap(rangedDownloadSlots)
          MaxAttempts,  \* downloadMaxAttempts
          MaxVersion,   \* bound: how often a remote file is replaced
          Tag,          \* Tag[v]: the ETag or Last-Modified of version v
          Hole,         \* zeros: truncated or allocated, not yet written
          Torn          \* the remains of an attempt that failed

Version == 0 .. MaxVersion
Chunk   == 0 .. Chunks - 1

Smaller(a, b) == IF a <= b THEN a ELSE b

\* run: workers := min(connections, chunks, cap(slots)+1)
WorkerCount == Smaller(Smaller(Connections, Chunks), SlotCap + 1)
Worker      == 0 .. WorkerCount - 1

ASSUME ConstantAssumption ==
  /\ IsFiniteSet(Files)
  /\ Chunks \in Nat \ {0}
  /\ Connections \in Nat \ {0}
  /\ SlotCap \in Nat
  /\ MaxAttempts \in Nat \ {0}
  /\ MaxVersion \in Nat
  /\ Tag \in [Version -> Nat]
  /\ Hole \notin Version /\ Torn \notin Version

\* A validator that tells every two versions of the file apart.
StrongValidator == \A u, v \in Version : Tag[u] = Tag[v] => u = v

VARIABLES
  version,    \* version[f]: what the server has now
  phase,      \* phase[f]: where downloadFileWithProgress is
  served,     \* served[f]: version of the probe's, later the stream's, body
  disk,       \* disk[f][c]: what the target file holds at chunk c
  nextChunk,  \* rangedTransfer.nextChunk
  exhausted,  \* the exhausted channel is closed
  failure,    \* rangedTransfer.failure; its ctx is dead iff it is set
  inUse,      \* len(rangedDownloadSlots)
  held,       \* the workers whose transferSlot.held is true
  pc,         \* pc[f][w]: where a worker is
  chunk,      \* chunk[f][w]: the chunk it transfers
  attempt,    \* attempt[f][w]: transferChunk's attempt
  source      \* source[f][w]: version of the body it is copying

serverVars == <<version>>
fileVars   == <<phase, served, disk>>
sharedVars == <<nextChunk, exhausted, failure>>
slotVars   == <<inUse, held>>
workerVars == <<pc, chunk, attempt, source>>
vars == <<serverVars, fileVars, sharedVars, slotVars, workerVars>>

Phase   == {"probe", "ranged", "single", "stream", "ok", "failed"}
PC      == {"idle", "acquire", "claim", "request", "copy",
            "backoff", "reacquire", "exited"}
Failure == {"none", "retry", "unusable", "write", "cancelled"}

TypeOK ==
  /\ version \in [Files -> Version]
  /\ phase \in [Files -> Phase]
  /\ served \in [Files -> Version]
  /\ disk \in [Files -> [Chunk -> Version \cup {Hole, Torn}]]
  /\ nextChunk \in [Files -> Nat]
  /\ exhausted \in [Files -> BOOLEAN]
  /\ failure \in [Files -> Failure]
  /\ inUse \in Nat
  /\ held \in SUBSET (Files \X Worker)
  /\ pc \in [Files -> [Worker -> PC]]
  /\ chunk \in [Files -> [Worker -> Chunk]]
  /\ attempt \in [Files -> [Worker -> 1 .. MaxAttempts]]
  /\ source \in [Files -> [Worker -> Version]]

\* The first worker owns chunk 0, so the first one to claim is chunk 1.
FirstClaimZero == 0
FirstClaim == 1

\* downloadFileWithProgress skips the probe when one connection is allowed.
Init ==
  /\ version = [f \in Files |-> 0]
  /\ phase = [f \in Files |-> IF Connections <= 1 THEN "single" ELSE "probe"]
  /\ served = [f \in Files |-> 0]
  /\ disk = [f \in Files |-> [c \in Chunk |-> Hole]]
  /\ nextChunk = [f \in Files |-> FirstClaim]
  /\ exhausted = [f \in Files |-> FALSE]
  /\ failure = [f \in Files |-> "none"]
  /\ inUse = 0
  /\ held = {}
  /\ pc = [f \in Files |-> [w \in Worker |-> "idle"]]
  /\ chunk = [f \in Files |-> [w \in Worker |-> 0]]
  /\ attempt = [f \in Files |-> [w \in Worker |-> 1]]
  /\ source = [f \in Files |-> [w \in Worker |-> 0]]

\* The owner of the remote file replaces it.
Publish(f) ==
  /\ version[f] < MaxVersion
  /\ version' = [version EXCEPT ![f] = @ + 1]
  /\ UNCHANGED <<fileVars, sharedVars, slotVars, workerVars>>

-----------------------------------------------------------------------------
(* The connection budget. *)

\* The first worker's transferSlot has no channel.
SlotFreeForAll(f, w) == inUse < SlotCap
SlotFree(f, w) == w # 0 => inUse < SlotCap

\* transferSlot.acquire: no-op for the first worker and for a held slot.
TakeSlot(f, w) ==
  /\ SlotFree(f, w)
  /\ IF w = 0 \/ <<f, w>> \in held
       THEN UNCHANGED slotVars
       ELSE inUse' = inUse + 1 /\ held' = held \cup {<<f, w>>}

\* transferSlot.release: safe when no slot is held.
ReleaseSlotTwice(f, w) == inUse' = inUse - 1 /\ held' = held \ {<<f, w>>}
ReleaseSlot(f, w) ==
  IF <<f, w>> \in held
    THEN inUse' = inUse - 1 /\ held' = held \ {<<f, w>>}
    ELSE UNCHANGED slotVars

Goto(f, w, label) == pc' = [pc EXCEPT ![f][w] = label]

\* The worker returns, through the deferred slot.release.
ExitLeaking(f, w) == Goto(f, w, "exited") /\ UNCHANGED slotVars
Exit(f, w) ==
  /\ Goto(f, w, "exited")
  /\ ReleaseSlot(f, w)

CtxDead(f) == failure[f] # "none"

\* fail: failOnce keeps the first error, and cancels the siblings.
FailAgain(f, kind) == failure' = [failure EXCEPT ![f] = kind]
FailIgnored(f, kind) == UNCHANGED failure
Fail(f, kind) ==
  failure' = [failure EXCEPT ![f] = IF @ = "none" THEN kind ELSE @]

-----------------------------------------------------------------------------
(* One worker: rangedTransfer.work and transferChunk. *)

\* The head of work's loop: acquire a slot, then look at ctx.
AcquireSlot(f, w) ==
  /\ pc[f][w] = "acquire"
  /\ \/ ~CtxDead(f) /\ TakeSlot(f, w) /\ Goto(f, w, "claim")
     \/ CtxDead(f) /\ Exit(f, w)
     \/ exhausted[f] /\ w # 0 /\ Exit(f, w)
  /\ UNCHANGED <<serverVars, fileVars, sharedVars, chunk, attempt, source>>

ClaimChunk(f, w) ==
  /\ pc[f][w] = "claim"
  /\ nextChunk' = [nextChunk EXCEPT ![f] = @ + 1]
  /\ exhausted' = [exhausted EXCEPT ![f] = @ \/ nextChunk[f] >= Chunks - 1]
  /\ IF nextChunk[f] < Chunks
       THEN /\ chunk' = [chunk EXCEPT ![f][w] = nextChunk[f]]
            /\ attempt' = [attempt EXCEPT ![f][w] = 1]
            /\ Goto(f, w, "request")
            /\ UNCHANGED slotVars
       ELSE Exit(f, w) /\ UNCHANGED <<chunk, attempt>>
  /\ UNCHANGED <<serverVars, fileVars, failure, source>>

\* transferChunk after a failed attempt of the given kind.
AttemptFails(f, w, kind) ==
  \/ /\ CtxDead(f)                       \* a sibling failed first
     /\ Fail(f, "cancelled")
     /\ Exit(f, w)
     /\ UNCHANGED attempt
  \/ /\ ~CtxDead(f)
     /\ kind \in {"write", "unusable"} \/ attempt[f][w] >= MaxAttempts
     /\ Fail(f, kind)
     /\ Exit(f, w)
     /\ UNCHANGED attempt
  \/ /\ ~CtxDead(f)
     /\ kind = "retry" /\ attempt[f][w] < MaxAttempts
     /\ attempt' = [attempt EXCEPT ![f][w] = @ + 1]
     /\ ReleaseSlot(f, w)
     /\ Goto(f, w, "backoff")
     /\ UNCHANGED failure

\* rangeValidator.matches, for the version the server has now.
ValidatorIgnored(f) == TRUE
ValidatorMatches(f) == Tag[version[f]] = Tag[served[f]]

\* requestChunk up to validateChunkResponse: only a 206 for the same range and
\* validator is accepted.
RequestChunk(f, w) ==
  /\ pc[f][w] = "request"
  /\ \/ /\ ValidatorMatches(f)
        /\ source' = [source EXCEPT ![f][w] = version[f]]
        /\ Goto(f, w, "copy")
        /\ UNCHANGED <<sharedVars, slotVars, attempt>>
     \/ /\ \E kind \in {"retry", "unusable"} : AttemptFails(f, w, kind)
        /\ UNCHANGED <<nextChunk, exhausted, source>>
  /\ UNCHANGED <<serverVars, fileVars, chunk>>

\* copyChunkBody, also for the probe's body (consumeProbe).
CopyChunk(f, w) ==
  /\ pc[f][w] = "copy"
  /\ \/ /\ disk' = [disk EXCEPT ![f][chunk[f][w]] = source[f][w]]
        /\ Goto(f, w, "acquire")
        /\ ReleaseSlot(f, w)
        /\ UNCHANGED <<failure, attempt>>
     \/ /\ disk' = [disk EXCEPT ![f][chunk[f][w]] = Torn]
        /\ \E kind \in {"retry", "write"} : AttemptFails(f, w, kind)
  /\ UNCHANGED <<serverVars, phase, served, nextChunk, exhausted, chunk, source>>

\* waitRetry: the delay passes, or ctx ends it.
WaitRetry(f, w) ==
  /\ pc[f][w] = "backoff"
  /\ \/ Goto(f, w, "reacquire") /\ UNCHANGED <<failure, slotVars>>
     \/ CtxDead(f) /\ Fail(f, "cancelled") /\ Exit(f, w)
  /\ UNCHANGED <<serverVars, fileVars, nextChunk, exhausted, chunk, attempt, source>>

\* acquire(t.ctx, nil): this worker must get a slot, exhausted does not stop it.
ReacquireSlot(f, w) ==
  /\ pc[f][w] = "reacquire"
  /\ \/ TakeSlot(f, w) /\ Goto(f, w, "request") /\ UNCHANGED failure
     \/ CtxDead(f) /\ w # 0 /\ Fail(f, "cancelled") /\ Exit(f, w)
  /\ UNCHANGED <<serverVars, fileVars, nextChunk, exhausted, chunk, attempt, source>>

WorkerStep(f, w) ==
  \/ AcquireSlot(f, w)
  \/ ClaimChunk(f, w)
  \/ RequestChunk(f, w)
  \/ CopyChunk(f, w)
  \/ WaitRetry(f, w)
  \/ ReacquireSlot(f, w)

-----------------------------------------------------------------------------
(* One call of downloadFileWithProgress. *)

SetPhase(f, p) == phase' = [phase EXCEPT ![f] = p]
Blanked == [c \in Chunk |-> Hole]

\* The answer to the first request, which asks for chunk 0.
Probe(f) ==
  /\ phase[f] = "probe"
  /\ \/ /\ SetPhase(f, "stream")    \* 200: Range ignored, the body is the file
        /\ served' = [served EXCEPT ![f] = version[f]]
        /\ disk' = [disk EXCEPT ![f] = Blanked]
        /\ UNCHANGED pc
     \/ /\ SetPhase(f, "ranged")    \* a valid 206: run starts its workers
        /\ served' = [served EXCEPT ![f] = version[f]]
        /\ disk' = [disk EXCEPT ![f] = Blanked]
        /\ pc' = [pc EXCEPT ![f] = [w \in Worker |->
                                      IF w = 0 THEN "copy" ELSE "acquire"]]
     \/ /\ SetPhase(f, "single")    \* perhaps a rejection of Range itself
        /\ UNCHANGED <<served, disk, pc>>
     \/ /\ SetPhase(f, "failed")    \* no answer, 404, 410, retryable status;
        /\ UNCHANGED <<served, disk, pc>>    \* or no target file
  /\ source' = IF phase'[f] = "ranged"
                 THEN [source EXCEPT ![f][0] = version[f]] ELSE source
  /\ UNCHANGED <<serverVars, sharedVars, slotVars, chunk, attempt>>

\* group.Wait: run goes on when every worker has returned.
AllExitedOrFailed(f) == failure[f] # "none" \/ \A w \in Worker : pc[f][w] = "exited"
AllExited(f) == \A w \in Worker : pc[f][w] = "exited"

\* rangedTransfer.run after group.Wait, and its caller's decision.
RunReturns(f) ==
  /\ phase[f] = "ranged"
  /\ AllExited(f)
  /\ \/ failure[f] = "none" /\ SetPhase(f, "ok")
     \/ failure[f] \in {"none", "write"} /\ SetPhase(f, "failed")  \* close, or write
     \/ failure[f] \notin {"none", "write"} /\ SetPhase(f, "single")
  /\ UNCHANGED <<serverVars, served, disk, sharedVars, slotVars, workerVars>>

\* downloadSingleStream up to createDownloadTarget, which empties the target.
SingleStream(f) ==
  /\ phase[f] = "single"
  /\ \/ /\ SetPhase(f, "stream")
        /\ served' = [served EXCEPT ![f] = version[f]]
        /\ disk' = [disk EXCEPT ![f] = Blanked]
     \/ SetPhase(f, "failed") /\ UNCHANGED <<served, disk>>
  /\ UNCHANGED <<serverVars, sharedVars, slotVars, workerVars>>

\* writeDownloadBody: the body is copied and the file closed, or an error.
StreamBody(f) ==
  /\ phase[f] = "stream"
  /\ \/ /\ SetPhase(f, "ok")
        /\ disk' = [disk EXCEPT ![f] = [c \in Chunk |-> served[f]]]
     \/ /\ SetPhase(f, "failed")
        /\ disk' = [disk EXCEPT ![f] = [c \in Chunk |-> Torn]]
  /\ UNCHANGED <<serverVars, served, sharedVars, slotVars, workerVars>>

FileStep(f) ==
  \/ Probe(f)
  \/ RunReturns(f)
  \/ SingleStream(f)
  \/ StreamBody(f)

Next ==
  \E f \in Files :
    \/ Publish(f)
    \/ FileStep(f)
    \/ \E w \in Worker : WorkerStep(f, w)

Spec == Init /\ [][Next]_vars

\* Every goroutine runs, and the stall guard ends every request that is stuck.
FairSpec ==
  /\ Spec
  /\ \A f \in Files : WF_vars(FileStep(f))
  /\ \A f \in Files : \A w \in Worker : WF_vars(WorkerStep(f, w))

-----------------------------------------------------------------------------
(* Properties. *)

\* A worker that may hold a slot: it is about to claim, or in a request.
MayHold(f, w) == w # 0 /\ pc[f][w] \in {"claim", "request", "copy"}

\* The budget counts exactly the workers, beyond each file's first, that hold
\* a connection: none is leaked by a worker that backs off, waits or has
\* returned, and none is returned twice, whatever path a worker leaves by.
SlotBudget ==
  /\ inUse = Cardinality({p \in Files \X Worker : MayHold(p[1], p[2])})
  /\ inUse <= SlotCap

\* A worker that has claimed a chunk and not finished it.
Transferring(f, w) ==
  pc[f][w] \in {"request", "copy", "backoff", "reacquire"}

\* claimChunk and the first worker's own chunk 0: no chunk has two writers.
ChunkHasOneWriter ==
  \A f \in Files : \A v, w \in Worker :
     v # w /\ Transferring(f, v) /\ Transferring(f, w) => chunk[f][v] # chunk[f][w]

\* run returns nil only for a complete file: with every worker gone and no
\* failure recorded, each chunk holds a body that carried the validator.
NoSilentHole ==
  \A f \in Files : phase[f] = "ranged" /\ AllExited(f) /\ failure[f] = "none" =>
     \A c \in Chunk : /\ disk[f][c] \in Version
                      /\ Tag[disk[f][c]] = Tag[served[f]]

\* A finished call left one version of the file on disk (rangeValidator: "chunks
\* fetched separately cannot silently come from different versions").
OneVersionDelivered ==
  \A f \in Files : phase[f] = "ok" => \E v \in Version : disk[f] = [c \in Chunk |-> v]

\* "a fallback can safely truncate and rewrite the same path": outside the
\* ranged transfer no worker of the file is left.
NoStragglers ==
  \A f \in Files : phase[f] # "ranged" =>
     \A w \in Worker : pc[f][w] \in {"idle", "exited"}

\* The first error is the one reported, and after a local write failure the
\* file is not fetched again.
FailureHandled ==
  [][\A f \in Files :
       /\ failure[f] # "none" => failure'[f] = failure[f]
       /\ failure[f] = "write" => phase'[f] \in {"ranged", "failed"}]_vars

\* The abstract specification: only a finished file is visible to the caller.
Transfer == INSTANCE FileTransfer WITH
  Part    <- Chunk,
  Blank   <- Hole,
  result  <- [f \in Files |-> IF phase[f] \in {"ok", "failed"}
                                THEN phase[f] ELSE "running"],
  content <- [f \in Files |-> IF phase[f] = "ok" THEN disk[f] ELSE Blanked]

ImplementsTransfer == Transfer!Spec

\* Every call returns, although workers compete for slots.
TransfersEnd == Transfer!FairSpec

\* "each file's first worker always makes progress regardless of how busy other
\* downloads are": it can always step, even if every slot is held by a worker that
\* hangs.
FirstWorkerNeverBlocked ==
  \A f \in Files : phase[f] = "ranged" /\ pc[f][0] # "exited" =>
     ENABLED WorkerStep(f, 0)
=============================================================================
