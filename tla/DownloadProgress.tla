-------------------------- MODULE DownloadProgress --------------------------
(***************************************************************************)
(* The byte counts of one download (tools/ranged_download.go): workers and *)
(* the single stream add to downloadReporter's counters, a failed attempt  *)
(* takes back what it added, a fallback starts again from zero, and one    *)
(* goroutine samples the counters and emits them.                          *)
(*                                                                         *)
(* The transfer itself is the one of RangedDownload, reduced to what it    *)
(* counts; a unit of Size and Length is what one Write passes on.          *)
(***************************************************************************)
EXTENDS Naturals, Integers, FiniteSets, FiniteSetsExt

CONSTANTS Length,       \* Length[c]: bytes of chunk c of the probed file
          Sizes,        \* sizes the body of a plain GET may have
          Workers,      \* workers of the ranged transfer
          MaxAttempts   \* downloadMaxAttempts

Chunks == Cardinality(DOMAIN Length)
Chunk  == 0 .. Chunks - 1

ASSUME ProgressAssumption ==
  /\ Chunks \in Nat \ {0}
  /\ Length \in [Chunk -> Nat \ {0}]
  /\ Sizes \subseteq Nat \ {0}
  /\ Workers \in 1 .. Chunks
  /\ MaxAttempts \in Nat \ {0}

Worker == 0 .. Workers - 1
Bytes(S) == MapThenSumSet(LAMBDA c : Length[c], S)
RangedSize == Bytes(Chunk)

VARIABLES
  phase,       \* where downloadFileWithProgress is
  outcome,     \* what it is about to return
  size,        \* bytes of the plain GET's body
  streamed,    \* bytes of it that were copied
  nextChunk,   \* rangedTransfer.nextChunk
  failure,     \* rangedTransfer.failure
  work,        \* work[w]: where a worker is
  chunk,       \* chunk[w]: its chunk
  attempt,     \* attempt[w]: transferChunk's attempt
  written,     \* written[w]: bytes of this attempt, as io.Copy counts them
  finished,    \* the chunks transferred
  undone,      \* history: an attempt has failed
  downloaded,  \* downloadReporter.downloaded
  total,       \* downloadReporter.total
  last,        \* downloadReporter.last: the event emitted last
  flush,       \* where the delivery goroutine is
  loaded,      \* what its flush read from downloaded
  stopping     \* the stopping channel is closed

transferVars == <<phase, outcome, size, streamed, nextChunk, failure>>
workerVars   == <<work, chunk, attempt, written, finished, undone>>
counterVars  == <<downloaded, total>>
deliveryVars == <<last, flush, loaded>>
vars == <<transferVars, workerVars, counterVars, deliveryVars, stopping>>

Event(d, t) == [Downloaded |-> d, Total |-> t]

TypeOK ==
  /\ phase \in {"start", "ranged", "reset", "single", "stream",
                "stop", "wait", "returned"}
  /\ outcome \in {"none", "ok", "error"}
  /\ size \in Sizes \cup {0}
  /\ streamed \in 0 .. size
  /\ nextChunk \in Nat
  /\ failure \in {"none", "write", "other"}
  /\ work \in [Worker -> {"idle", "claim", "copy", "undo", "exited"}]
  /\ chunk \in [Worker -> Chunk]
  /\ attempt \in [Worker -> 1 .. MaxAttempts]
  /\ written \in [Worker -> 0 .. RangedSize]
  /\ finished \subseteq Chunk
  /\ undone \in BOOLEAN
  /\ downloaded \in Int
  /\ total \in {0, RangedSize} \cup Sizes
  /\ last \in [Downloaded : Int, Total : {0, RangedSize} \cup Sizes]
  /\ flush \in {"select", "load", "emit", "stopped"}
  /\ loaded \in Int
  /\ stopping \in BOOLEAN

Init ==
  /\ phase = "start" /\ outcome = "none"
  /\ size = 0 /\ streamed = 0
  /\ nextChunk = 1 /\ failure = "none"
  /\ work = [w \in Worker |-> "idle"]
  /\ chunk = [w \in Worker |-> 0]
  /\ attempt = [w \in Worker |-> 1]
  /\ written = [w \in Worker |-> 0]
  /\ finished = {} /\ undone = FALSE
  /\ downloaded = 0 /\ total = 0
  /\ last = Event(0, 0) /\ flush = "select" /\ loaded = 0
  /\ stopping = FALSE

-----------------------------------------------------------------------------
(* The counters. *)

\* add: atomic.Int64.Add.
Add(delta) == downloaded' = downloaded + delta

\* copyChunkBody, on error: what this attempt counted.
NothingToUndo(w) == 0
Uncounted(w) == written[w]

-----------------------------------------------------------------------------
(* The workers of the ranged transfer. *)

Goto(w, label) == work' = [work EXCEPT ![w] = label]

\* work and claimChunk; the transfer's ctx is dead once it has failed.
Claim(w) ==
  /\ work[w] = "claim"
  /\ \/ /\ failure # "none"
        /\ Goto(w, "exited")
        /\ UNCHANGED <<nextChunk, chunk, attempt, written>>
     \/ /\ failure = "none"
        /\ nextChunk' = nextChunk + 1
        /\ IF nextChunk < Chunks
             THEN /\ Goto(w, "copy")
                  /\ chunk' = [chunk EXCEPT ![w] = nextChunk]
                  /\ attempt' = [attempt EXCEPT ![w] = 1]
                  /\ written' = [written EXCEPT ![w] = 0]
             ELSE Goto(w, "exited") /\ UNCHANGED <<chunk, attempt, written>>
  /\ UNCHANGED <<phase, outcome, size, streamed, failure, finished, undone,
                 counterVars, deliveryVars, stopping>>

\* chunkWriter.Write; io.Copy has the count only once Write has returned, but
\* nothing reads it before.
WriteChunk(w) ==
  /\ work[w] = "copy"
  /\ written[w] < Length[chunk[w]]
  /\ written' = [written EXCEPT ![w] = @ + 1]
  /\ Add(1)
  /\ UNCHANGED <<transferVars, work, chunk, attempt, finished, undone, total,
                 deliveryVars, stopping>>

\* copyChunkBody returns nil: the whole length was written.
ChunkDone(w) ==
  /\ work[w] = "copy"
  /\ written[w] = Length[chunk[w]]
  /\ finished' = finished \cup {chunk[w]}
  /\ written' = [written EXCEPT ![w] = 0]
  /\ Goto(w, "claim")
  /\ UNCHANGED <<transferVars, chunk, attempt, undone, counterVars, deliveryVars,
                 stopping>>

\* The body ends early, or stalls, or cannot be written, or no body is accepted.
CopyFails(w) ==
  /\ work[w] = "copy"
  /\ Goto(w, "undo")
  /\ Add(-Uncounted(w))
  /\ undone' = TRUE
  /\ written' = [written EXCEPT ![w] = 0]
  /\ UNCHANGED <<transferVars, chunk, attempt, finished, total, deliveryVars, stopping>>

\* transferChunk gives up when attempt >= downloadMaxAttempts.
OneRetryTooMany(w) == attempt[w] <= MaxAttempts
AttemptsLeft(w) == attempt[w] < MaxAttempts

\* transferChunk after the error: retry, or fail the transfer.
AfterFailure(w) ==
  /\ work[w] = "undo"
  /\ \/ /\ failure = "none" /\ AttemptsLeft(w)
        /\ attempt' = [attempt EXCEPT ![w] = @ + 1]
        /\ Goto(w, "copy")
        /\ UNCHANGED failure
     \/ /\ failure = "none" /\ failure' \in {"write", "other"}
        /\ Goto(w, "exited")
        /\ UNCHANGED attempt
     \/ /\ failure # "none"
        /\ Goto(w, "exited")
        /\ UNCHANGED <<attempt, failure>>
  /\ UNCHANGED <<phase, outcome, size, streamed, nextChunk, chunk, written, finished,
                 undone, counterVars, deliveryVars, stopping>>

WorkerStep(w) ==
  Claim(w) \/ WriteChunk(w) \/ ChunkDone(w) \/ CopyFails(w) \/ AfterFailure(w)

-----------------------------------------------------------------------------
(* downloadFileWithProgress. *)

Return(result) == phase' = "stop" /\ outcome' = result

\* The probe's answer. run sets the total before it starts the workers; a plain
\* body, or no probe at all, leads to the single stream.
Probe ==
  /\ phase = "start"
  /\ \/ /\ phase' = "ranged"
        /\ total' = RangedSize
        /\ work' = [w \in Worker |-> IF w = 0 THEN "copy" ELSE "claim"]
        /\ UNCHANGED outcome
     \/ phase' = "single" /\ UNCHANGED <<outcome, total, work>>
     \/ Return("error") /\ UNCHANGED <<total, work>>
  /\ UNCHANGED <<size, streamed, nextChunk, failure, chunk, attempt, written,
                 finished, undone, downloaded, deliveryVars, stopping>>

\* group.Wait.
AllExited == \A w \in Worker : work[w] = "exited"

\* What a returned run leaves of the count, and reset's first store.
ResetCount == downloaded' = 0
KeepCount == UNCHANGED downloaded

\* run returns: only a failure that is not a local write's leads to a fallback.
RunReturns ==
  /\ phase = "ranged"
  /\ AllExited
  /\ \/ failure = "none" /\ Return("ok") /\ KeepCount
     \/ failure \in {"none", "write"} /\ Return("error") /\ KeepCount
     \/ failure = "other" /\ phase' = "reset" /\ ResetCount /\ UNCHANGED outcome
  /\ UNCHANGED <<size, streamed, nextChunk, failure, workerVars, total,
                 deliveryVars, stopping>>

\* reset's second store.
ResetTotal ==
  /\ phase = "reset"
  /\ total' = 0
  /\ phase' = "single"
  /\ UNCHANGED <<outcome, size, streamed, nextChunk, failure, workerVars, downloaded,
                 deliveryVars, stopping>>

\* downloadSingleStream and writeDownloadBody up to io.Copy; a server need not
\* say the length of the body.
OpenStream ==
  /\ phase = "single"
  /\ \/ /\ phase' = "stream"
        /\ size' \in Sizes
        /\ total' \in {total, size'}
        /\ UNCHANGED outcome
     \/ Return("error") /\ UNCHANGED <<size, total>>
  /\ UNCHANGED <<streamed, nextChunk, failure, workerVars, downloaded,
                 deliveryVars, stopping>>

\* io.Copy through the TeeReader.
CopyStream ==
  /\ phase = "stream"
  /\ \/ /\ streamed < size
        /\ streamed' = streamed + 1
        /\ Add(1)
        /\ UNCHANGED <<phase, outcome>>
     \/ streamed = size /\ Return("ok") /\ UNCHANGED <<streamed, downloaded>>
     \/ Return("error") /\ UNCHANGED <<streamed, downloaded>>
  /\ UNCHANGED <<size, nextChunk, failure, workerVars, total, deliveryVars, stopping>>

\* The deferred stop: close the channel ...
StopReporter ==
  /\ phase = "stop"
  /\ stopping' = TRUE
  /\ phase' = "wait"
  /\ UNCHANGED <<outcome, size, streamed, nextChunk, failure, workerVars,
                 counterVars, deliveryVars>>

\* ... and wait for the delivery goroutine.
DeliveryNotAwaited == TRUE
DeliveryEnded == flush = "stopped"

CallReturns ==
  /\ phase = "wait"
  /\ DeliveryEnded
  /\ phase' = "returned"
  /\ UNCHANGED <<outcome, size, streamed, nextChunk, failure, workerVars,
                 counterVars, deliveryVars, stopping>>

CallStep ==
  Probe \/ RunReturns \/ ResetTotal \/ OpenStream \/ CopyStream
    \/ StopReporter \/ CallReturns

-----------------------------------------------------------------------------
(* The delivery goroutine of startDownloadReporter. *)

\* A tick, or the closed stopping channel, starts a flush; when both are ready
\* select takes either.
LoadDownloaded ==
  /\ flush = "select"
  /\ loaded' = downloaded
  /\ flush' \in {"load"} \cup (IF stopping THEN {"emit"} ELSE {})
  /\ UNCHANGED <<transferVars, workerVars, counterVars, last, stopping>>

\* The rest of flush: total is loaded later than downloaded.  "emit" is the flush
\* after which the goroutine ends.
FlushLost == last' = last
Flush == last' = Event(loaded, total)

LoadTotalAndEmit ==
  /\ flush \in {"load", "emit"}
  /\ Flush
  /\ flush' = IF flush = "emit" THEN "stopped" ELSE "select"
  /\ UNCHANGED <<transferVars, workerVars, counterVars, loaded, stopping>>

Next ==
  \/ CallStep
  \/ \E w \in Worker : WorkerStep(w)
  \/ LoadDownloaded
  \/ LoadTotalAndEmit

Spec == Init /\ [][Next]_vars

-----------------------------------------------------------------------------
(* Properties. *)

\* The downloaded counter is at all times the bytes of the chunks that are
\* complete and of the attempts in progress, or the bytes streamed so far:
\* a retry counts nothing twice, and a fallback starts from zero.  No event is negative,
\* although attempts subtract and the reset stores zero; and until a fallback none shows
\* more bytes than the file has: afterwards one may pair the old count with the new total.
CountsExact ==
  /\ downloaded = IF failure = "other" /\ phase # "ranged"
                   THEN streamed
                   ELSE streamed + Bytes(finished) + MapThenSumSet(LAMBDA w : written[w], Worker)
  /\ last.Downloaded >= 0 /\ downloaded >= 0
  /\ failure # "other" /\ last.Total # 0 => last.Downloaded <= last.Total

\* The last event of a finished download reports the whole file: the final flush
\* sees every worker's bytes and no earlier flush overtakes it.
FinalEventExact ==
  phase = "returned" /\ outcome = "ok" =>
     last \in IF size = 0 THEN {Event(RangedSize, RangedSize)}
                          ELSE {Event(size, size), Event(size, 0)}

\* "events from concurrent workers stay ordered and cannot arrive after the
\* final one": the caller hears nothing once the call has returned, and without a failed
\* attempt the progress shown never goes back.
EventsOrdered ==
  [][/\ phase = "returned" => UNCHANGED last
     /\ ~undone => last'.Downloaded >= last.Downloaded]_vars
=============================================================================
