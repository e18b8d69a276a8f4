------------------------ MODULE RangedDownloadProofs ------------------------
(***************************************************************************)
(* Proofs about RangedDownload, for any number of files, chunks, workers,  *)
(* slots, attempts and versions.                                           *)
(***************************************************************************)
EXTENDS RangedDownload, FiniteSetTheorems, TLAPS

\* The counter of slots agrees with the set of holders.
CountInv ==
  /\ held \in SUBSET (Files \X Worker)
  /\ inUse = Cardinality(held)
  /\ inUse <= SlotCap

\* The holders are the workers with a connection.
HolderInv ==
  \A f \in Files : \A w \in Worker : <<f, w>> \in held <=> MayHold(f, w)

\* Workers live only while their transfer runs.
PhaseInv ==
  \A f \in Files : \A w \in Worker :
     /\ phase[f] # "ranged" => pc[f][w] \in {"idle", "exited"}
     /\ phase[f] = "ranged" => pc[f][w] # "idle"

\* Chunks in transfer have been claimed, and by one worker each.
ClaimInv ==
  \A f \in Files :
     /\ nextChunk[f] >= 1
     /\ exhausted[f] => nextChunk[f] >= Chunks
     /\ phase[f] = "probe" => /\ nextChunk[f] = 1
                              /\ \A w \in Worker : chunk[f][w] = 0
     /\ \A w \in Worker : Transferring(f, w) => chunk[f][w] < nextChunk[f]
     /\ \A v, w \in Worker :
           v # w /\ Transferring(f, v) /\ Transferring(f, w)
             => chunk[f][v] # chunk[f][w]

\* The body a worker copies carries the validator of the probe.
SourceInv ==
  \A f \in Files : \A w \in Worker :
     pc[f][w] = "copy" => Tag[source[f][w]] = Tag[served[f]]

\* Chunk c holds a body that carried the validator of the probe.
Good(f, c) ==
  /\ disk[f][c] \in Version
  /\ Tag[disk[f][c]] = Tag[served[f]]

\* While nothing has failed, a claimed chunk is complete or in transfer, and a
\* worker only returns when every chunk has been claimed.
CompleteInv ==
  \A f \in Files : phase[f] = "ranged" /\ failure[f] = "none" =>
     /\ \A c \in Chunk : c < nextChunk[f] =>
           \/ Good(f, c)
           \/ \E w \in Worker : Transferring(f, w) /\ chunk[f][w] = c
     /\ \A w \in Worker : pc[f][w] = "exited" => nextChunk[f] >= Chunks

\* Failures come from workers, and a write failure ends the call.
FailInv ==
  \A f \in Files :
     /\ failure[f] # "none" => phase[f] # "probe"
     /\ failure[f] = "write" => phase[f] \in {"ranged", "failed"}

\* What is served was published.
ServedInv == \A f \in Files : served[f] <= version[f]

IInv ==
  /\ TypeOK
  /\ CountInv
  /\ HolderInv
  /\ PhaseInv
  /\ ClaimInv
  /\ SourceInv
  /\ CompleteInv
  /\ FailInv
  /\ ServedInv

\* A delivered file is the version that was served, if the validator is strong.
DeliveredInv ==
  \A f \in Files : phase[f] = "ok" => disk[f] = [c \in Chunk |-> served[f]]

-----------------------------------------------------------------------------
(* Constants. *)

LEMMA ConstantFacts ==
  /\ WorkerCount \in Nat \ {0}
  /\ 0 \in Worker /\ Worker \subseteq Nat
  /\ 0 \in Chunk /\ Chunk \subseteq Nat
  /\ 0 \in Version /\ Version \subseteq Nat
  /\ 1 \in 1 .. MaxAttempts
  /\ IsFiniteSet(Files \X Worker)
<1>1. WorkerCount \in Nat \ {0}
  BY ConstantAssumption DEF WorkerCount, Smaller
<1>2. IsFiniteSet(Worker)
  BY <1>1, FS_Interval DEF Worker
<1>3. IsFiniteSet(Files \X Worker)
  BY <1>2, ConstantAssumption, FS_Product
<1> QED
  BY <1>1, <1>3, ConstantAssumption DEF Worker, Chunk, Version

(* The slots. *)

\* acquire and release keep the counter and the holders together.
LEMMA SlotCount ==
  ASSUME CountInv, NEW f \in Files, NEW w \in Worker
  PROVE  /\ inUse \in Nat
         /\ TakeSlot(f, w) => /\ held' = IF w = 0 THEN held ELSE held \cup {<<f, w>>}
                              /\ CountInv'
         /\ ReleaseSlot(f, w) => held' = held \ {<<f, w>>} /\ CountInv'
<1> DEFINE p == <<f, w>>
<1>1. p \in Files \X Worker
  OBVIOUS
<1>2. IsFiniteSet(held)
  BY ConstantFacts, FS_Subset DEF CountInv
<1>3. inUse \in Nat
  BY <1>2, FS_CardinalityType DEF CountInv
<1>4. ASSUME TakeSlot(f, w)
      PROVE  held' = (IF w = 0 THEN held ELSE held \cup {p}) /\ CountInv'
  <2>1. CASE w = 0
    BY <1>4, <2>1 DEF TakeSlot, CountInv, slotVars
  <2>2. CASE w # 0 /\ p \in held
    BY <1>4, <2>2 DEF TakeSlot, CountInv, slotVars
  <2>3. CASE w # 0 /\ p \notin held
    <3>1. inUse < SlotCap /\ inUse' = inUse + 1 /\ held' = held \cup {p}
      BY <1>4, <2>3 DEF TakeSlot, SlotFree
    <3>2. Cardinality(held \cup {p}) = Cardinality(held) + 1
      BY <1>2, <2>3, FS_AddElement
    <3> QED
      BY <1>1, <1>3, <2>3, <3>1, <3>2, ConstantAssumption DEF CountInv
  <2> QED
    BY <2>1, <2>2, <2>3
<1>5. ASSUME ReleaseSlot(f, w)
      PROVE  held' = held \ {p} /\ CountInv'
  <2>1. CASE p \notin held
    BY <1>5, <2>1 DEF ReleaseSlot, CountInv, slotVars
  <2>2. CASE p \in held
    <3>1. inUse' = inUse - 1 /\ held' = held \ {p}
      BY <1>5, <2>2 DEF ReleaseSlot
    <3>2. Cardinality(held \ {p}) = Cardinality(held) - 1
      BY <1>2, <2>2, FS_RemoveElement
    <3> QED
      BY <1>3, <3>1, <3>2, ConstantAssumption DEF CountInv
  <2> QED
    BY <2>1, <2>2
<1> QED
  BY <1>3, <1>4, <1>5

(* The variables that are kept per file and worker. *)

LEMMA CellUpdate ==
  ASSUME NEW I, NEW J, NEW S, NEW a \in [I -> [J -> S]],
         NEW i \in I, NEW j \in J, NEW x \in S
  PROVE  [a EXCEPT ![i][j] = x] \in [I -> [J -> S]]
  OBVIOUS

-----------------------------------------------------------------------------
(* What a worker step leaves alone, and where it can go. *)

LEMMA WorkerFrame ==
  ASSUME TypeOK, NEW f \in Files, NEW w \in Worker, WorkerStep(f, w)
  PROVE  /\ UNCHANGED <<version, phase, served>>
         /\ pc[f][w] \notin {"idle", "exited"}
         /\ \E l \in PC \ {"idle"} : pc' = [pc EXCEPT ![f][w] = l]
<1> USE DEF Goto, Exit, PC, serverVars, fileVars, sharedVars
<1>1. CASE AcquireSlot(f, w)
  BY <1>1 DEF AcquireSlot
<1>2. CASE ClaimChunk(f, w)
  BY <1>2 DEF ClaimChunk
<1>3. CASE RequestChunk(f, w)
  BY <1>3 DEF RequestChunk, AttemptFails
<1>4. CASE CopyChunk(f, w)
  BY <1>4 DEF CopyChunk, AttemptFails
<1>5. CASE WaitRetry(f, w)
  BY <1>5 DEF WaitRetry
<1>6. CASE ReacquireSlot(f, w)
  BY <1>6 DEF ReacquireSlot
<1> QED
  BY <1>1, <1>2, <1>3, <1>4, <1>5, <1>6 DEF WorkerStep

\* fail keeps the first error.
LEMMA FailEffect ==
  ASSUME TypeOK, NEW f \in Files, NEW kind \in Failure \ {"none"}, Fail(f, kind)
  PROVE  /\ CtxDead(f) => failure' = failure
         /\ ~CtxDead(f) => failure' = [failure EXCEPT ![f] = kind]
  BY DEF TypeOK, Fail, CtxDead

\* A worker step leaves failure alone or records its file's first error.
LEMMA FailFrame ==
  ASSUME TypeOK, NEW f \in Files, NEW w \in Worker, WorkerStep(f, w)
  PROVE  \/ failure' = failure
         \/ /\ failure[f] = "none"
            /\ \E kind \in Failure \ {"none"} :
                  failure' = [failure EXCEPT ![f] = kind]
<1>1. \/ failure' = failure
      \/ \E kind \in Failure \ {"none"} : Fail(f, kind)
  BY DEF WorkerStep, AcquireSlot, ClaimChunk, RequestChunk, CopyChunk, WaitRetry,
     ReacquireSlot, AttemptFails, Failure, sharedVars
<1>2. ASSUME NEW kind \in Failure \ {"none"}, Fail(f, kind)
      PROVE  \/ failure' = failure
             \/ /\ failure[f] = "none"
                /\ failure' = [failure EXCEPT ![f] = kind]
  BY <1>2, FailEffect DEF CtxDead
<1> QED
  BY <1>1, <1>2

(* Type correctness. *)

LEMMA TypeInit == Init => TypeOK
  BY ConstantFacts DEF Init, TypeOK, Phase, PC, Failure, Chunk, Version, FirstClaim

LEMMA CountWorker ==
  ASSUME CountInv, NEW f \in Files, NEW w \in Worker, WorkerStep(f, w)
  PROVE  CountInv'
<1> USE SlotCount DEF Exit
<1>0. UNCHANGED slotVars => CountInv'
  BY DEF CountInv, slotVars
<1>1. CASE AcquireSlot(f, w)
  BY <1>1 DEF AcquireSlot
<1>2. CASE ClaimChunk(f, w)
  BY <1>0, <1>2 DEF ClaimChunk
<1>3. CASE RequestChunk(f, w)
  BY <1>0, <1>3 DEF RequestChunk, AttemptFails, slotVars
<1>4. CASE CopyChunk(f, w)
  BY <1>4 DEF CopyChunk, AttemptFails
<1>5. CASE WaitRetry(f, w)
  BY <1>0, <1>5 DEF WaitRetry
<1>6. CASE ReacquireSlot(f, w)
  BY <1>6 DEF ReacquireSlot
<1> QED
  BY <1>1, <1>2, <1>3, <1>4, <1>5, <1>6 DEF WorkerStep

LEMMA TypeWorker ==
  ASSUME TypeOK, CountInv, NEW f \in Files, NEW w \in Worker, WorkerStep(f, w)
  PROVE  TypeOK'
<1>1. /\ version' \in [Files -> Version] /\ phase' \in [Files -> Phase]
      /\ served' \in [Files -> Version] /\ pc' \in [Files -> [Worker -> PC]]
  <2>1. PICK l \in PC : pc' = [pc EXCEPT ![f][w] = l]
    BY WorkerFrame
  <2>2. UNCHANGED <<version, phase, served>>
    BY WorkerFrame
  <2> QED
    BY <2>1, <2>2 DEF TypeOK
<1>2. inUse' \in Nat /\ held' \in SUBSET (Files \X Worker)
  <2>1. CountInv'
    BY CountWorker
  <2>2. held' \in SUBSET (Files \X Worker) /\ inUse' = Cardinality(held')
    BY <2>1 DEF CountInv
  <2> QED
    BY <2>2, FS_Subset, FS_CardinalityType, ConstantFacts
<1> USE DEF sharedVars, fileVars
<1> DEFINE Rest == /\ nextChunk' \in [Files -> Nat]
                   /\ exhausted' \in [Files -> BOOLEAN]
                   /\ chunk' \in [Files -> [Worker -> Chunk]]
                   /\ attempt' \in [Files -> [Worker -> 1 .. MaxAttempts]]
                   /\ source' \in [Files -> [Worker -> Version]]
                   /\ disk' \in [Files -> [Chunk -> Version \cup {Hole, Torn}]]
<1>0. failure' \in [Files -> Failure]
  BY FailFrame DEF TypeOK
<1>3. ASSUME NEW kind \in {"retry", "unusable", "write"}, AttemptFails(f, w, kind)
      PROVE  attempt' \in [Files -> [Worker -> 1 .. MaxAttempts]]
  <2>1. attempt \in [Files -> [Worker -> 1 .. MaxAttempts]]
    BY DEF TypeOK
  <2>2. attempt[f][w] < MaxAttempts => attempt[f][w] + 1 \in 1 .. MaxAttempts
    BY <2>1, ConstantAssumption
  <2>4. \/ UNCHANGED attempt
        \/ /\ attempt[f][w] < MaxAttempts
           /\ attempt' = [attempt EXCEPT ![f][w] = attempt[f][w] + 1]
    BY <1>3 DEF AttemptFails
  <2>5. \/ attempt' = attempt
        \/ \E n \in 1 .. MaxAttempts : attempt' = [attempt EXCEPT ![f][w] = n]
    BY <2>2, <2>4
  <2>6. attempt' \in [Files -> [Worker -> 1 .. MaxAttempts]]
    <3>1. CASE attempt' = attempt
      BY <2>1, <3>1
    <3>2. ASSUME NEW n \in 1 .. MaxAttempts,
                 attempt' = [attempt EXCEPT ![f][w] = n]
          PROVE  attempt' \in [Files -> [Worker -> 1 .. MaxAttempts]]
      BY <2>1, <3>2, CellUpdate
    <3> QED
      BY <2>5, <3>1, <3>2
  <2> QED
    BY <2>6
<1>4. ASSUME AcquireSlot(f, w) PROVE Rest
  BY <1>4 DEF AcquireSlot, TypeOK
<1>5. ASSUME ClaimChunk(f, w) PROVE Rest
  <2>1. nextChunk[f] < Chunks => nextChunk[f] \in Chunk
    BY ConstantAssumption DEF TypeOK, Chunk
  <2>4. /\ chunk \in [Files -> [Worker -> Chunk]]
        /\ attempt \in [Files -> [Worker -> 1 .. MaxAttempts]]
    BY DEF TypeOK
  <2>2. nextChunk' \in [Files -> Nat] /\ exhausted' \in [Files -> BOOLEAN]
    BY <1>5 DEF ClaimChunk, TypeOK
  <2>3. /\ chunk' \in [Files -> [Worker -> Chunk]]
        /\ attempt' \in [Files -> [Worker -> 1 .. MaxAttempts]]
    <3>1. CASE nextChunk[f] < Chunks
      <4>1. /\ chunk' = [chunk EXCEPT ![f][w] = nextChunk[f]]
            /\ attempt' = [attempt EXCEPT ![f][w] = 1]
        BY <1>5, <3>1 DEF ClaimChunk
      <4> QED
        BY <2>1, <2>4, <3>1, <4>1, ConstantFacts, CellUpdate
    <3>2. CASE ~(nextChunk[f] < Chunks)
      BY <1>5, <2>4, <3>2 DEF ClaimChunk
    <3> QED
      BY <3>1, <3>2
  <2>5. UNCHANGED <<source, disk>>
    BY <1>5 DEF ClaimChunk
  <2> QED
    BY <2>2, <2>3, <2>5 DEF TypeOK
<1>6. ASSUME RequestChunk(f, w) PROVE Rest
  <2>1. UNCHANGED <<nextChunk, exhausted, chunk, disk>>
    BY <1>6 DEF RequestChunk
  <2>2. CASE /\ source' = [source EXCEPT ![f][w] = version[f]]
             /\ UNCHANGED attempt
    BY <2>1, <2>2 DEF TypeOK
  <2>3. CASE /\ UNCHANGED source
             /\ \E kind \in {"retry", "unusable"} : AttemptFails(f, w, kind)
    BY <1>3, <2>1, <2>3 DEF TypeOK
  <2> QED
    BY <1>6, <2>2, <2>3 DEF RequestChunk
<1>7. ASSUME CopyChunk(f, w) PROVE Rest
  <2>1. UNCHANGED <<nextChunk, exhausted, chunk, source>>
    BY <1>7 DEF CopyChunk
  <2>2. disk' \in [Files -> [Chunk -> Version \cup {Hole, Torn}]]
    <3>1. PICK x \in Version \cup {Hole, Torn} :
             disk' = [disk EXCEPT ![f][chunk[f][w]] = x]
      <4>1. source[f][w] \in Version
        BY DEF TypeOK
      <4> QED
        BY <1>7, <4>1 DEF CopyChunk
    <3>2. chunk[f][w] \in Chunk /\ disk \in [Files -> [Chunk -> Version \cup {Hole, Torn}]]
      BY DEF TypeOK
    <3> QED
      BY <3>1, <3>2, CellUpdate
  <2>3. CASE UNCHANGED attempt
    BY <2>1, <2>2, <2>3 DEF TypeOK
  <2>4. CASE \E kind \in {"retry", "write"} : AttemptFails(f, w, kind)
    BY <1>3, <2>1, <2>2, <2>4 DEF TypeOK
  <2> QED
    BY <1>7, <2>3, <2>4 DEF CopyChunk
<1>8. ASSUME WaitRetry(f, w) PROVE Rest
  BY <1>8 DEF WaitRetry, TypeOK
<1>9. ASSUME ReacquireSlot(f, w) PROVE Rest
  BY <1>9 DEF ReacquireSlot, TypeOK
<1>10. Rest
  BY <1>4, <1>5, <1>6, <1>7, <1>8, <1>9 DEF WorkerStep
<1> QED
  BY <1>0, <1>1, <1>2, <1>10 DEF TypeOK

(* The other parts of the invariant, one lemma each. *)

LEMMA HolderWorker ==
  ASSUME TypeOK, CountInv, HolderInv,
         NEW f \in Files, NEW w \in Worker, WorkerStep(f, w)
  PROVE  HolderInv'
<1>1. PICK l \in PC : pc' = [pc EXCEPT ![f][w] = l]
  BY WorkerFrame
<1> DEFINE p == <<f, w>>
<1> DEFINE Effect == /\ \A q \in Files \X Worker : q # p => (q \in held' <=> q \in held)
                     /\ p \in held' <=> w # 0 /\ pc'[f][w] \in {"claim", "request", "copy"}
<1>2. /\ pc'[f][w] = l
      /\ \A g \in Files : \A v \in Worker : <<g, v>> # p => pc'[g][v] = pc[g][v]
  BY <1>1 DEF TypeOK
<1>3. p \in held <=> w # 0 /\ pc[f][w] \in {"claim", "request", "copy"}
  BY DEF HolderInv, MayHold
<1>4. /\ TakeSlot(f, w) => held' = IF w = 0 THEN held ELSE held \cup {p}
      /\ ReleaseSlot(f, w) => held' = held \ {p}
  BY SlotCount
<1>5. /\ UNCHANGED slotVars => held' = held
      /\ \A lab \in PC : Goto(f, w, lab) => pc'[f][w] = lab
      /\ Exit(f, w) => held' = held \ {p} /\ pc'[f][w] = "exited"
  BY <1>4 DEF slotVars, Goto, Exit, TypeOK
<1>6. ASSUME NEW kind, AttemptFails(f, w, kind) PROVE Effect
  BY <1>4, <1>5, <1>6 DEF AttemptFails, PC
<1>7. ASSUME AcquireSlot(f, w) PROVE Effect
  BY <1>3, <1>4, <1>5, <1>7 DEF AcquireSlot, PC
<1>8. ASSUME ClaimChunk(f, w) PROVE Effect
  BY <1>3, <1>5, <1>8 DEF ClaimChunk, PC
<1>9. ASSUME RequestChunk(f, w) PROVE Effect
  BY <1>3, <1>5, <1>6, <1>9 DEF RequestChunk, PC
<1>10. ASSUME CopyChunk(f, w) PROVE Effect
  BY <1>3, <1>4, <1>5, <1>6, <1>10 DEF CopyChunk, PC
<1>11. ASSUME WaitRetry(f, w) PROVE Effect
  BY <1>3, <1>5, <1>11 DEF WaitRetry, PC
<1>12. ASSUME ReacquireSlot(f, w) PROVE Effect
  BY <1>3, <1>4, <1>5, <1>12 DEF ReacquireSlot, PC
<1>13. Effect
  BY <1>7, <1>8, <1>9, <1>10, <1>11, <1>12 DEF WorkerStep
<1>14. ASSUME NEW g \in Files, NEW v \in Worker
       PROVE  <<g, v>> \in held' <=> MayHold(g, v)'
  <2>1. CASE g = f /\ v = w
    BY <1>13, <2>1 DEF MayHold
  <2>2. CASE ~(g = f /\ v = w)
    <3>1. <<g, v>> # p /\ <<g, v>> \in Files \X Worker
      BY <2>2
    <3>2. <<g, v>> \in held' <=> <<g, v>> \in held
      BY <1>13, <3>1
    <3>3. pc'[g][v] = pc[g][v]
      BY <1>2, <3>1
    <3> QED
      BY <3>2, <3>3 DEF HolderInv, MayHold
  <2> QED
    BY <2>1, <2>2
<1> QED
  BY <1>14 DEF HolderInv

LEMMA PhaseWorker ==
  ASSUME TypeOK, PhaseInv, NEW f \in Files, NEW w \in Worker, WorkerStep(f, w)
  PROVE  PhaseInv' /\ phase[f] = "ranged"
<1>1. PICK l \in PC \ {"idle"} : pc' = [pc EXCEPT ![f][w] = l]
  BY WorkerFrame
<1>2. phase' = phase /\ pc[f][w] \notin {"idle", "exited"}
  BY WorkerFrame
<1>3. phase[f] = "ranged"
  BY <1>2 DEF PhaseInv
<1> QED
  BY <1>1, <1>2, <1>3 DEF PhaseInv, TypeOK

\* A worker starts to transfer only by claiming the next chunk.
LEMMA ClaimFrame ==
  ASSUME TypeOK, NEW f \in Files, NEW w \in Worker, WorkerStep(f, w)
  PROVE  /\ \A g \in Files : \A v \in Worker : <<g, v>> # <<f, w>> =>
               (Transferring(g, v)' <=> Transferring(g, v)) /\ chunk'[g][v] = chunk[g][v]
         /\ \/ ClaimChunk(f, w)
            \/ /\ UNCHANGED <<nextChunk, exhausted, chunk>>
               /\ Transferring(f, w)' => Transferring(f, w)
<1>1. PICK l \in PC : pc' = [pc EXCEPT ![f][w] = l]
  BY WorkerFrame
<1>2. \A g \in Files : \A v \in Worker : <<g, v>> # <<f, w>> => pc'[g][v] = pc[g][v]
  BY <1>1 DEF TypeOK
<1>3. CASE ClaimChunk(f, w)
  <2>1. chunk' = chunk \/ chunk' = [chunk EXCEPT ![f][w] = nextChunk[f]]
    BY <1>3 DEF ClaimChunk
  <2>2. \A g \in Files : \A v \in Worker : <<g, v>> # <<f, w>> => chunk'[g][v] = chunk[g][v]
    BY <2>1 DEF TypeOK
  <2> QED
    BY <1>2, <1>3, <2>2 DEF Transferring
<1>4. CASE ~ClaimChunk(f, w)
  <2>1. UNCHANGED <<nextChunk, exhausted, chunk>>
    BY <1>4 DEF WorkerStep, AcquireSlot, RequestChunk, CopyChunk, WaitRetry,
       ReacquireSlot, sharedVars
  <2>2. CASE AcquireSlot(f, w)
    <3>1. pc'[f][w] \in {"claim", "exited"}
      BY <2>2 DEF AcquireSlot, Goto, Exit, TypeOK
    <3> QED
      BY <1>2, <2>1, <3>1 DEF Transferring
  <2>3. CASE ~AcquireSlot(f, w)
    <3>1. Transferring(f, w)
      BY <1>4, <2>3 DEF WorkerStep, RequestChunk, CopyChunk, WaitRetry,
         ReacquireSlot, Transferring
    <3> QED
      BY <1>2, <2>1, <3>1 DEF Transferring
  <2> QED
    BY <2>2, <2>3
<1> QED
  BY <1>3, <1>4

LEMMA ClaimWorker ==
  ASSUME TypeOK, PhaseInv, ClaimInv, NEW f \in Files, NEW w \in Worker, WorkerStep(f, w)
  PROVE  ClaimInv'
<1>1. phase' = phase /\ phase[f] = "ranged"
  BY WorkerFrame, PhaseWorker
<1>2. CASE ClaimChunk(f, w)
  <2>1. /\ nextChunk' = [nextChunk EXCEPT ![f] = @ + 1]
        /\ exhausted' = [exhausted EXCEPT ![f] = @ \/ nextChunk[f] >= Chunks - 1]
    BY <1>2 DEF ClaimChunk
  <2>2. \A g \in Files : \A v \in Worker : <<g, v>> # <<f, w>> =>
               (Transferring(g, v)' <=> Transferring(g, v)) /\ chunk'[g][v] = chunk[g][v]
    BY ClaimFrame
  <2>3. Transferring(f, w)' => chunk'[f][w] = nextChunk[f]
    BY <1>2 DEF ClaimChunk, Exit, Goto, Transferring, TypeOK
  <2>4. \A g \in Files : \A v \in Worker : chunk[g][v] \in Nat /\ nextChunk[g] \in Nat
    <3>1. \A g \in Files : nextChunk[g] \in Nat
      BY DEF TypeOK
    <3>2. ASSUME NEW g \in Files, NEW v \in Worker PROVE chunk[g][v] \in Chunk
      BY DEF TypeOK
    <3> QED
      BY <3>1, <3>2, ConstantFacts
  <2>5. ASSUME NEW g \in Files
        PROVE  /\ nextChunk'[g] >= 1
               /\ exhausted'[g] => nextChunk'[g] >= Chunks
    BY <2>1, <2>4, ConstantAssumption DEF ClaimInv, TypeOK
  <2>6. ASSUME NEW g \in Files, NEW v \in Worker, Transferring(g, v)'
        PROVE  chunk'[g][v] < nextChunk'[g]
    BY <2>1, <2>2, <2>3, <2>4, <2>6 DEF ClaimInv, TypeOK
  <2>7. ASSUME NEW g \in Files, NEW u \in Worker, NEW v \in Worker, u # v,
               Transferring(g, u)', Transferring(g, v)'
        PROVE  chunk'[g][u] # chunk'[g][v]
    BY <2>2, <2>3, <2>4, <2>7 DEF ClaimInv
  <2>8. ASSUME NEW g \in Files, phase'[g] = "probe"
        PROVE  nextChunk'[g] = 1 /\ \A v \in Worker : chunk'[g][v] = 0
    BY <1>1, <2>1, <2>2, <2>8 DEF ClaimInv, TypeOK
  <2> QED
    BY <2>5, <2>6, <2>7, <2>8 DEF ClaimInv
<1>3. CASE ~ClaimChunk(f, w)
  BY <1>1, <1>3, ClaimFrame DEF ClaimInv
<1> QED
  BY <1>2, <1>3

LEMMA SourceWorker ==
  ASSUME TypeOK, SourceInv, PhaseInv, NEW f \in Files, NEW w \in Worker, WorkerStep(f, w)
  PROVE  SourceInv'
<1>1. PICK l \in PC : pc' = [pc EXCEPT ![f][w] = l]
  BY WorkerFrame
<1>2. served' = served
  BY WorkerFrame
<1>3. CASE /\ source' = [source EXCEPT ![f][w] = version[f]]
           /\ Tag[version[f]] = Tag[served[f]]
  BY <1>1, <1>2, <1>3 DEF SourceInv, TypeOK
<1>4. CASE source' = source /\ pc'[f][w] # "copy"
  BY <1>1, <1>2, <1>4 DEF SourceInv, TypeOK
<1>5. \/ /\ source' = [source EXCEPT ![f][w] = version[f]]
         /\ Tag[version[f]] = Tag[served[f]]
      \/ source' = source /\ pc'[f][w] # "copy"
  <2> USE DEF Goto, Exit, AttemptFails, TypeOK
  <2>1. CASE AcquireSlot(f, w)
    BY <2>1 DEF AcquireSlot
  <2>2. CASE ClaimChunk(f, w)
    BY <2>2 DEF ClaimChunk
  <2>3. CASE RequestChunk(f, w)
    BY <2>3 DEF RequestChunk, ValidatorMatches
  <2>4. CASE CopyChunk(f, w)
    BY <2>4 DEF CopyChunk
  <2>5. CASE WaitRetry(f, w)
    BY <2>5 DEF WaitRetry
  <2>6. CASE ReacquireSlot(f, w)
    BY <2>6 DEF ReacquireSlot
  <2> QED
    BY <2>1, <2>2, <2>3, <2>4, <2>5, <2>6 DEF WorkerStep
<1> QED
  BY <1>3, <1>4, <1>5

\* What a worker step does to its file, if it records no failure: it copies its
\* chunk well, or writes only a chunk it keeps, or leaves the disk alone; and it
\* returns only when all chunks are claimed.
LEMMA CompleteFrame ==
  ASSUME TypeOK, ClaimInv, NEW f \in Files, NEW w \in Worker, WorkerStep(f, w),
         failure'[f] = "none"
  PROVE  /\ failure[f] = "none"
         /\ \/ UNCHANGED disk /\ (Transferring(f, w) => Transferring(f, w)')
            \/ /\ pc[f][w] = "copy" /\ Transferring(f, w)'
               /\ disk' = [disk EXCEPT ![f][chunk[f][w]] = Torn]
            \/ /\ pc[f][w] = "copy"
               /\ disk' = [disk EXCEPT ![f][chunk[f][w]] = source[f][w]]
         /\ pc'[f][w] = "exited" => nextChunk'[f] >= Chunks
<1>0. /\ \A lab \in PC : Goto(f, w, lab) => pc'[f][w] = lab
      /\ Exit(f, w) => pc'[f][w] = "exited"
      /\ UNCHANGED failure => failure[f] = "none"
      /\ nextChunk[f] \in Nat
  BY DEF Goto, Exit, TypeOK, PC
<1> USE DEF Transferring, PC
<1>f. ~CtxDead(f) /\ failure[f] = "none"
  BY FailFrame DEF CtxDead, TypeOK, Failure
<1>g. ASSUME NEW kind \in Failure \ {"none"}, Fail(f, kind)
      PROVE  FALSE
  <2>1. failure' = [failure EXCEPT ![f] = kind]
    BY <1>f, <1>g, FailEffect
  <2>2. failure'[f] = kind
    BY <2>1 DEF TypeOK
  <2> QED
    BY <2>2
<1>1. ASSUME NEW kind \in {"retry", "unusable", "write"}, AttemptFails(f, w, kind)
      PROVE  failure[f] = "none" /\ pc'[f][w] = "backoff"
  <2>1. kind \in Failure \ {"none"}
    BY DEF Failure
  <2>2. ~Fail(f, kind)
    BY <1>g, <2>1
  <2> QED
    BY <1>0, <1>1, <1>f, <2>2 DEF AttemptFails
<1>2. CASE AcquireSlot(f, w)
  <2>1. exhausted[f] => nextChunk[f] >= Chunks
    BY DEF ClaimInv
  <2> QED
    BY <1>0, <1>2, <1>f, <2>1 DEF AcquireSlot, sharedVars, fileVars
<1>3. CASE ClaimChunk(f, w)
  <2>1. /\ failure' = failure /\ disk' = disk
        /\ nextChunk'[f] = nextChunk[f] + 1 /\ pc[f][w] = "claim"
    <3>1. nextChunk' = [nextChunk EXCEPT ![f] = @ + 1]
      BY <1>3 DEF ClaimChunk
    <3>2. nextChunk'[f] = nextChunk[f] + 1
      BY <3>1 DEF TypeOK
    <3> QED
      BY <1>3, <3>2 DEF ClaimChunk, fileVars
  <2>2. pc'[f][w] = "exited" => ~(nextChunk[f] < Chunks)
    BY <1>0, <1>3 DEF ClaimChunk
  <2>3. nextChunk[f] < Chunks => Transferring(f, w)'
    BY <1>0, <1>3 DEF ClaimChunk
  <2> QED
    BY <1>0, <2>1, <2>2, <2>3, ConstantAssumption
<1>4. CASE RequestChunk(f, w)
  BY <1>0, <1>1, <1>4 DEF RequestChunk, sharedVars, fileVars
<1>5. CASE CopyChunk(f, w)
  <2>1. CASE /\ disk' = [disk EXCEPT ![f][chunk[f][w]] = source[f][w]]
             /\ Goto(f, w, "acquire") /\ UNCHANGED failure
    BY <1>0, <1>5, <2>1 DEF CopyChunk
  <2>2. CASE /\ disk' = [disk EXCEPT ![f][chunk[f][w]] = Torn]
             /\ \E kind \in {"retry", "write"} : AttemptFails(f, w, kind)
    BY <1>0, <1>1, <1>5, <2>2 DEF CopyChunk
  <2> QED
    BY <1>5, <2>1, <2>2 DEF CopyChunk
<1>6. CASE WaitRetry(f, w)
  BY <1>0, <1>6, <1>f DEF WaitRetry, sharedVars, fileVars
<1>7. CASE ReacquireSlot(f, w)
  BY <1>0, <1>7, <1>f DEF ReacquireSlot, sharedVars, fileVars
<1> QED
  BY <1>2, <1>3, <1>4, <1>5, <1>6, <1>7 DEF WorkerStep

LEMMA CompleteWorker ==
  ASSUME TypeOK, PhaseInv, ClaimInv, SourceInv, CompleteInv,
         NEW f \in Files, NEW w \in Worker, WorkerStep(f, w)
  PROVE  CompleteInv'
<1> SUFFICES ASSUME NEW g \in Files, phase'[g] = "ranged", failure'[g] = "none"
             PROVE  /\ \A c \in Chunk : c < nextChunk'[g] =>
                          \/ Good(g, c)'
                          \/ \E v \in Worker : Transferring(g, v)' /\ chunk'[g][v] = c
                    /\ \A v \in Worker : pc'[g][v] = "exited" => nextChunk'[g] >= Chunks
  BY DEF CompleteInv
<1>1. PICK l \in PC : pc' = [pc EXCEPT ![f][w] = l]
  BY WorkerFrame
<1>2. UNCHANGED <<phase, served>>
  BY WorkerFrame
<1>3. CASE g # f
  <2>0. failure'[g] = failure[g]
    BY <1>3, FailFrame DEF TypeOK
  <2>1. disk'[g] = disk[g] /\ nextChunk'[g] = nextChunk[g]
    BY <1>3 DEF WorkerStep, AcquireSlot, ClaimChunk, RequestChunk, CopyChunk,
       WaitRetry, ReacquireSlot, AttemptFails, sharedVars, fileVars, TypeOK
  <2>2. pc'[g] = pc[g]
    BY <1>1, <1>3 DEF TypeOK
  <2>3. \A v \in Worker : chunk'[g][v] = chunk[g][v]
    BY <1>3, ClaimFrame
  <2> QED
    BY <1>2, <2>0, <2>1, <2>2, <2>3 DEF CompleteInv, Good, Transferring
<1>4. CASE g = f
  <2>1. /\ failure[f] = "none"
        /\ \/ UNCHANGED disk /\ (Transferring(f, w) => Transferring(f, w)')
           \/ /\ pc[f][w] = "copy" /\ Transferring(f, w)'
              /\ disk' = [disk EXCEPT ![f][chunk[f][w]] = Torn]
           \/ /\ pc[f][w] = "copy"
              /\ disk' = [disk EXCEPT ![f][chunk[f][w]] = source[f][w]]
        /\ pc'[f][w] = "exited" => nextChunk'[f] >= Chunks
    BY <1>4, CompleteFrame
  <2>2. /\ \A v \in Worker : v # w => (Transferring(f, v)' <=> Transferring(f, v)) /\ chunk'[f][v] = chunk[f][v]
        /\ \/ ClaimChunk(f, w)
           \/ /\ UNCHANGED <<nextChunk, exhausted, chunk>>
              /\ Transferring(f, w)' => Transferring(f, w)
    BY ClaimFrame
  <2>3. phase[f] = "ranged"
    BY <1>2, <1>4
  <2>4. nextChunk'[f] = nextChunk[f] \/ (ClaimChunk(f, w) /\ nextChunk'[f] = nextChunk[f] + 1)
    BY <2>2 DEF ClaimChunk, TypeOK
  <2>5. ASSUME NEW v \in Worker, pc'[f][v] = "exited"
        PROVE  nextChunk'[f] >= Chunks
    <3>1. CASE v = w
      BY <2>1, <2>5, <3>1
    <3>2. CASE v # w
      <4>1. pc[f][v] = "exited"
        BY <1>1, <2>5, <3>2 DEF TypeOK
      <4>2. nextChunk[f] >= Chunks
        BY <2>1, <2>3, <4>1 DEF CompleteInv
      <4> QED
        BY <2>4, <4>2, ConstantAssumption DEF TypeOK
    <3> QED
      BY <3>1, <3>2
  <2>6. ASSUME NEW c \in Chunk, c < nextChunk'[f]
        PROVE  \/ Good(f, c)'
               \/ \E v \in Worker : Transferring(f, v)' /\ chunk'[f][v] = c
    <3>1. c \in Nat /\ nextChunk[f] \in Nat /\ chunk[f][w] \in Chunk
      BY ConstantFacts DEF TypeOK
    <3>2. CASE c < nextChunk[f]
      <4>1. CASE disk'[f][c] = disk[f][c] /\ Good(f, c)
        BY <1>2, <4>1 DEF Good
      <4>2. CASE disk'[f][c] # disk[f][c]
        <5>1. c = chunk[f][w] /\ Transferring(f, w)
          BY <2>1, <2>2, <3>1, <4>2 DEF TypeOK, Transferring
        <5>2. CASE Transferring(f, w)' /\ UNCHANGED chunk
          BY <5>1, <5>2
        <5>3. CASE /\ pc[f][w] = "copy"
                   /\ disk' = [disk EXCEPT ![f][chunk[f][w]] = source[f][w]]
          <6>1. disk'[f][c] = source[f][w] /\ source[f][w] \in Version
            BY <3>1, <5>1, <5>3 DEF TypeOK
          <6>2. Tag[source[f][w]] = Tag[served[f]]
            BY <5>3 DEF SourceInv
          <6> QED
            BY <1>2, <6>1, <6>2 DEF Good
        <5>4. ~ClaimChunk(f, w)
          BY <5>1 DEF ClaimChunk, Transferring
        <5> QED
          BY <2>1, <2>2, <4>2, <5>2, <5>3, <5>4
      <4>3. CASE \E v \in Worker : Transferring(f, v) /\ chunk[f][v] = c
        <5>1. PICK v \in Worker : Transferring(f, v) /\ chunk[f][v] = c
          BY <4>3
        <5>2. CASE v # w
          BY <2>2, <5>1, <5>2
        <5>3. CASE v = w
          <6>1. chunk' = chunk
            BY <2>2, <5>1, <5>3 DEF ClaimChunk, Transferring
          <6>2. CASE Transferring(f, w)'
            BY <5>1, <5>3, <6>1, <6>2
          <6>3. CASE /\ pc[f][w] = "copy"
                     /\ disk' = [disk EXCEPT ![f][chunk[f][w]] = source[f][w]]
            <7>1. disk'[f][c] = source[f][w] /\ source[f][w] \in Version
              BY <3>1, <5>1, <5>3, <6>3 DEF TypeOK
            <7>2. Tag[source[f][w]] = Tag[served[f]]
              BY <6>3 DEF SourceInv
            <7> QED
              BY <1>2, <7>1, <7>2 DEF Good
          <6> QED
            BY <2>1, <5>1, <5>3, <6>2, <6>3
        <5> QED
          BY <5>2, <5>3
      <4> QED
        BY <2>1, <2>3, <3>2, <4>1, <4>2, <4>3 DEF CompleteInv
    <3>3. CASE ~(c < nextChunk[f])
      <4>1. ClaimChunk(f, w) /\ c = nextChunk[f]
        BY <2>4, <2>6, <3>1, <3>3
      <4>2. nextChunk[f] < Chunks
        BY <4>1, ConstantAssumption DEF Chunk
      <4>3. chunk'[f][w] = c /\ pc'[f][w] = "request"
        BY <4>1, <4>2 DEF ClaimChunk, Goto, TypeOK
      <4> QED
        BY <4>3 DEF Transferring
    <3> QED
      BY <3>2, <3>3
  <2> QED
    BY <1>4, <2>5, <2>6
<1> QED
  BY <1>3, <1>4

LEMMA FailWorker ==
  ASSUME TypeOK, PhaseInv, FailInv, NEW f \in Files, NEW w \in Worker, WorkerStep(f, w)
  PROVE  /\ FailInv'
         /\ \A g \in Files : failure[g] # "none" => failure'[g] = failure[g]
<1>1. phase' = phase /\ phase[f] = "ranged"
  BY WorkerFrame, PhaseWorker
<1>2. \/ failure' = failure
      \/ /\ failure[f] = "none"
         /\ \E kind \in Failure : failure' = [failure EXCEPT ![f] = kind]
  BY FailFrame
<1> QED
  BY <1>1, <1>2 DEF FailInv, TypeOK

LEMMA InvWorker ==
  ASSUME IInv, NEW f \in Files, NEW w \in Worker, WorkerStep(f, w)
  PROVE  IInv'
<1> USE DEF IInv
<1>1. TypeOK' /\ CountInv' /\ HolderInv'
  BY TypeWorker, CountWorker, HolderWorker
<1>2. PhaseInv' /\ ClaimInv' /\ SourceInv' /\ CompleteInv' /\ FailInv'
  BY PhaseWorker, ClaimWorker, SourceWorker, CompleteWorker, FailWorker
<1>3. ServedInv'
  BY WorkerFrame DEF ServedInv
<1> QED
  BY <1>1, <1>2, <1>3

-----------------------------------------------------------------------------
(* The steps of the server and of downloadFileWithProgress. *)

LEMMA InvPublish ==
  ASSUME IInv, NEW f \in Files, Publish(f)
  PROVE  IInv'
<1> USE DEF IInv, Publish, fileVars, sharedVars, slotVars, workerVars
<1>1. TypeOK'
  <2>1. version[f] + 1 \in Version
    BY ConstantAssumption DEF TypeOK, Version
  <2> QED
    BY <2>1 DEF TypeOK
<1>2. ServedInv'
  BY DEF ServedInv, TypeOK, Version
<1>3. CountInv' /\ HolderInv' /\ PhaseInv' /\ ClaimInv' /\ SourceInv' /\ FailInv'
  BY DEF CountInv, HolderInv, MayHold, PhaseInv, ClaimInv, Transferring, SourceInv, FailInv
<1>4. CompleteInv'
  BY DEF CompleteInv, Good, Transferring
<1> QED
  BY <1>1, <1>2, <1>3, <1>4

\* A step that moves only the phase and the target of a file without workers.
LEMMA InvQuiet ==
  ASSUME IInv, NEW f \in Files,
         NEW p \in Phase \ {"ranged", "probe"}, phase' = [phase EXCEPT ![f] = p],
         phase[f] = "ranged" => \A w \in Worker : pc[f][w] = "exited",
         failure[f] = "write" => p = "failed",
         UNCHANGED <<version, sharedVars, slotVars, workerVars>>,
         served' \in [Files -> Version], disk' \in [Files -> [Chunk -> Version \cup {Hole, Torn}]],
         \A g \in Files : g # f => served'[g] = served[g] /\ disk'[g] = disk[g],
         served'[f] <= version[f]
  PROVE  IInv'
<1> USE DEF IInv, sharedVars, slotVars, workerVars
<1>1. TypeOK'
  BY DEF TypeOK
<1>2. CountInv' /\ HolderInv'
  BY DEF CountInv, HolderInv, MayHold
<1>3. \A g \in Files : phase'[g] = IF g = f THEN p ELSE phase[g]
  BY DEF TypeOK
<1>4. \A w \in Worker : pc[f][w] \in {"idle", "exited"}
  BY DEF PhaseInv
<1>5. PhaseInv'
  BY <1>3, <1>4 DEF PhaseInv
<1>6. ClaimInv'
  BY <1>3 DEF ClaimInv, Transferring
<1>7. SourceInv'
  BY <1>4 DEF SourceInv
<1>8. CompleteInv'
  BY <1>3 DEF CompleteInv, Good, Transferring
<1>9. FailInv'
  BY <1>3 DEF FailInv
<1>10. ServedInv'
  BY DEF ServedInv
<1> QED
  BY <1>1, <1>2, <1>5, <1>6, <1>7, <1>8, <1>9, <1>10

LEMMA InvStartWorkers ==
  ASSUME IInv, NEW f \in Files, phase[f] = "probe", phase' = [phase EXCEPT ![f] = "ranged"],
         served' = [served EXCEPT ![f] = version[f]],
         disk' = [disk EXCEPT ![f] = Blanked],
         pc' = [pc EXCEPT ![f] = [w \in Worker |-> IF w = 0 THEN "copy" ELSE "acquire"]],
         source' = [source EXCEPT ![f][0] = version[f]],
         UNCHANGED <<version, sharedVars, slotVars, chunk, attempt>>
  PROVE  IInv'
<1> USE DEF IInv, sharedVars, slotVars
<1>1. /\ served'[f] = version[f] /\ source'[f][0] = version[f]
      /\ \A w \in Worker : pc'[f][w] = IF w = 0 THEN "copy" ELSE "acquire"
      /\ \A g \in Files : phase'[g] = IF g = f THEN "ranged" ELSE phase[g]
      /\ \A g \in Files : g # f => /\ served'[g] = served[g] /\ source'[g] = source[g]
                                   /\ pc'[g] = pc[g] /\ disk'[g] = disk[g]
  BY ConstantFacts DEF TypeOK
<1>2. /\ failure[f] = "none" /\ nextChunk[f] = 1
      /\ \A w \in Worker : pc[f][w] \in {"idle", "exited"} /\ chunk[f][w] = 0
  BY DEF FailInv, ClaimInv, PhaseInv
<1>3. TypeOK'
  <2>1. disk' \in [Files -> [Chunk -> Version \cup {Hole, Torn}]]
    BY DEF TypeOK, Blanked
  <2>2. source' \in [Files -> [Worker -> Version]]
    BY ConstantFacts, CellUpdate DEF TypeOK
  <2>3. pc' \in [Files -> [Worker -> PC]]
    BY DEF TypeOK, PC
  <2>4. phase' \in [Files -> Phase] /\ served' \in [Files -> Version]
    BY DEF TypeOK, Phase
  <2> QED
    BY <2>1, <2>2, <2>3, <2>4 DEF TypeOK
<1>4. CountInv'
  BY DEF CountInv
<1>5. HolderInv'
  <2>1. ASSUME NEW g \in Files, NEW w \in Worker, g # f
        PROVE  <<g, w>> \in held' <=> MayHold(g, w)'
    BY <1>1, <2>1 DEF HolderInv, MayHold
  <2>2. ASSUME NEW w \in Worker
        PROVE  <<f, w>> \notin held' /\ ~MayHold(f, w)'
    <3>1. pc'[f][w] = IF w = 0 THEN "copy" ELSE "acquire"
      BY <1>1
    <3>2. <<f, w>> \notin held
      BY <1>2 DEF HolderInv, MayHold
    <3> QED
      BY <3>1, <3>2 DEF MayHold
  <2> QED
    BY <2>1, <2>2 DEF HolderInv
<1>6. PhaseInv'
  BY <1>1 DEF PhaseInv
<1>7. ClaimInv'
  <2>1. \A w \in Worker : Transferring(f, w)' => w = 0
    BY <1>1 DEF Transferring
  <2>2. \A g \in Files : \A w \in Worker : g # f => (Transferring(g, w)' <=> Transferring(g, w))
    BY <1>1 DEF Transferring
  <2>3. ASSUME NEW g \in Files
        PROVE  /\ nextChunk'[g] >= 1
               /\ exhausted'[g] => nextChunk'[g] >= Chunks
               /\ phase'[g] # "probe" \/ (nextChunk'[g] = 1 /\ \A w \in Worker : chunk'[g][w] = 0)
    BY <1>1 DEF ClaimInv
  <2>4. ASSUME NEW g \in Files, NEW w \in Worker, Transferring(g, w)'
        PROVE  chunk'[g][w] < nextChunk'[g]
    <3>1. CASE g = f
      BY <1>2, <3>1
    <3>2. CASE g # f
      BY <2>2, <2>4, <3>2 DEF ClaimInv
    <3> QED
      BY <3>1, <3>2
  <2>5. ASSUME NEW g \in Files, NEW v \in Worker, NEW w \in Worker, v # w,
               Transferring(g, v)', Transferring(g, w)'
        PROVE  chunk'[g][v] # chunk'[g][w]
    BY <2>1, <2>2, <2>5 DEF ClaimInv
  <2> QED
    BY <2>3, <2>4, <2>5 DEF ClaimInv
<1>8. SourceInv'
  BY <1>1 DEF SourceInv
<1>9. CompleteInv'
  <2>1. \A c \in Chunk : c < 1 => c = 0
    BY ConstantFacts
  <2>2. Transferring(f, 0)' /\ chunk'[f][0] = 0 /\ 0 \in Worker
    BY <1>1, <1>2, ConstantFacts DEF Transferring
  <2>3. ASSUME NEW g \in Files, g # f, phase'[g] = "ranged", failure'[g] = "none"
        PROVE  /\ \A c \in Chunk : c < nextChunk'[g] =>
                     \/ Good(g, c)'
                     \/ \E v \in Worker : Transferring(g, v)' /\ chunk'[g][v] = c
               /\ \A v \in Worker : pc'[g][v] = "exited" => nextChunk'[g] >= Chunks
    BY <1>1, <2>3 DEF CompleteInv, Good, Transferring
  <2>4. \A w \in Worker : pc'[f][w] # "exited"
    BY <1>1
  <2> QED
    BY <1>2, <2>1, <2>2, <2>3, <2>4 DEF CompleteInv
<1>10. FailInv'
  BY <1>1, <1>2 DEF FailInv
<1>11. ServedInv'
  BY <1>1 DEF ServedInv, TypeOK, Version
<1> QED
  BY <1>3, <1>4, <1>5, <1>6, <1>7, <1>8, <1>9, <1>10, <1>11

LEMMA InvFile ==
  ASSUME IInv, NEW f \in Files, FileStep(f)
  PROVE  IInv'
<1> USE DEF SetPhase, workerVars, serverVars
<1> DEFINE Rest(g) == g # f => served'[g] = served[g] /\ disk'[g] = disk[g]
<1>1. /\ TypeOK /\ phase \in [Files -> Phase]
      /\ version[f] \in Version /\ version[f] <= version[f]
      /\ served \in [Files -> Version] /\ served[f] <= version[f]
      /\ disk \in [Files -> [Chunk -> Version \cup {Hole, Torn}]]
  BY DEF IInv, TypeOK, ServedInv, Version
<1>2. CASE Probe(f)
  <2>1. CASE /\ phase' = [phase EXCEPT ![f] = "ranged"]
             /\ served' = [served EXCEPT ![f] = version[f]]
             /\ disk' = [disk EXCEPT ![f] = Blanked]
             /\ pc' = [pc EXCEPT ![f] = [w \in Worker |-> IF w = 0 THEN "copy" ELSE "acquire"]]
    <3>1. phase'[f] = "ranged"
      BY <1>1, <2>1
    <3> QED
      BY <1>2, <2>1, <3>1, InvStartWorkers DEF Probe
  <2>2. CASE \E p \in {"single", "failed"} :
                phase' = [phase EXCEPT ![f] = p] /\ UNCHANGED <<served, disk, pc>>
    <3>1. PICK p \in {"single", "failed"} : phase' = [phase EXCEPT ![f] = p]
      BY <2>2
    <3>2. phase'[f] = p
      BY <1>1, <3>1
    <3>3. /\ UNCHANGED <<version, sharedVars, slotVars, workerVars>>
          /\ phase[f] = "probe" /\ failure[f] = "none"
      BY <1>2, <2>2, <3>2 DEF Probe, IInv, FailInv
    <3> QED
      BY <1>1, <2>2, <3>1, <3>3, InvQuiet DEF Phase
  <2>3. CASE /\ phase' = [phase EXCEPT ![f] = "stream"]
             /\ served' = [served EXCEPT ![f] = version[f]]
             /\ disk' = [disk EXCEPT ![f] = Blanked]
             /\ UNCHANGED pc
    <3>1. phase'[f] = "stream"
      BY <1>1, <2>3
    <3>2. /\ UNCHANGED <<version, sharedVars, slotVars, workerVars>>
          /\ phase[f] = "probe" /\ failure[f] = "none"
      BY <1>2, <2>3, <3>1 DEF Probe, IInv, FailInv
    <3>3. /\ served' \in [Files -> Version] /\ served'[f] = version[f]
          /\ disk' \in [Files -> [Chunk -> Version \cup {Hole, Torn}]]
          /\ \A g \in Files : Rest(g)
      BY <1>1, <2>3 DEF Blanked
    <3> QED
      BY <1>1, <2>3, <3>2, <3>3, InvQuiet DEF Phase
  <2> QED
    BY <1>2, <2>1, <2>2, <2>3 DEF Probe
<1>3. CASE RunReturns(f)
  <2>1. PICK p \in {"ok", "failed", "single"} :
           phase' = [phase EXCEPT ![f] = p] /\ (failure[f] = "write" => p = "failed")
    BY <1>3 DEF RunReturns
  <2>2. /\ UNCHANGED <<version, served, disk, sharedVars, slotVars, workerVars>>
        /\ \A w \in Worker : pc[f][w] = "exited"
    BY <1>3 DEF RunReturns, AllExited
  <2> QED
    BY <1>1, <2>1, <2>2, InvQuiet DEF Phase
<1>4. CASE SingleStream(f)
  <2>1. /\ UNCHANGED <<version, sharedVars, slotVars, workerVars>>
        /\ phase[f] = "single" /\ failure[f] # "write"
    BY <1>4 DEF SingleStream, IInv, FailInv
  <2>2. CASE phase' = [phase EXCEPT ![f] = "failed"] /\ UNCHANGED <<served, disk>>
    BY <1>1, <2>1, <2>2, InvQuiet DEF Phase
  <2>3. CASE /\ phase' = [phase EXCEPT ![f] = "stream"]
             /\ served' = [served EXCEPT ![f] = version[f]]
             /\ disk' = [disk EXCEPT ![f] = Blanked]
    <3>1. /\ served' \in [Files -> Version] /\ served'[f] = version[f]
          /\ disk' \in [Files -> [Chunk -> Version \cup {Hole, Torn}]]
          /\ \A g \in Files : Rest(g)
      BY <1>1, <2>3 DEF Blanked
    <3> QED
      BY <1>1, <2>1, <2>3, <3>1, InvQuiet DEF Phase
  <2> QED
    BY <1>4, <2>2, <2>3 DEF SingleStream
<1>5. CASE StreamBody(f)
  <2>1. PICK p \in {"ok", "failed"}, d \in [Chunk -> Version \cup {Hole, Torn}] :
           phase' = [phase EXCEPT ![f] = p] /\ disk' = [disk EXCEPT ![f] = d]
    <3>1. /\ [c \in Chunk |-> served[f]] \in [Chunk -> Version \cup {Hole, Torn}]
          /\ [c \in Chunk |-> Torn] \in [Chunk -> Version \cup {Hole, Torn}]
      BY <1>1
    <3> QED
      BY <1>5, <3>1 DEF StreamBody
  <2>2. /\ UNCHANGED <<version, served, sharedVars, slotVars, workerVars>>
        /\ phase[f] = "stream" /\ failure[f] # "write"
    BY <1>5 DEF StreamBody, IInv, FailInv
  <2>3. /\ disk' \in [Files -> [Chunk -> Version \cup {Hole, Torn}]]
        /\ \A g \in Files : Rest(g)
    BY <1>1, <2>1, <2>2
  <2> QED
    BY <1>1, <2>1, <2>2, <2>3, InvQuiet DEF Phase
<1> QED
  BY <1>2, <1>3, <1>4, <1>5 DEF FileStep

LEMMA InvInit == Init => IInv
<1> SUFFICES ASSUME Init PROVE IInv
  OBVIOUS
<1>1. TypeOK
  BY TypeInit
<1>2. CountInv
  BY FS_EmptySet, ConstantAssumption DEF Init, CountInv
<1>3. HolderInv /\ PhaseInv /\ SourceInv /\ CompleteInv /\ FailInv /\ ServedInv
  BY DEF Init, HolderInv, MayHold, PhaseInv, SourceInv, CompleteInv, FailInv, ServedInv
<1>4. ClaimInv
  BY DEF Init, ClaimInv, Transferring, FirstClaim
<1> QED
  BY <1>1, <1>2, <1>3, <1>4 DEF IInv

LEMMA InvStutter == IInv /\ UNCHANGED vars => IInv'
  BY DEF IInv, vars, serverVars, fileVars, sharedVars, slotVars, workerVars,
     TypeOK, CountInv, HolderInv, MayHold, PhaseInv, ClaimInv, Transferring,
     SourceInv, CompleteInv, Good, FailInv, ServedInv

LEMMA InvNext == IInv /\ [Next]_vars => IInv'
  BY InvWorker, InvPublish, InvFile, InvStutter DEF Next

\* IInv holds throughout every run of the downloads.
THEOREM Invariance == Spec => []IInv
  BY InvInit, InvNext, PTL DEF Spec

\* Every variable keeps its type: among others, the slot counter never becomes
\* negative and no worker exceeds downloadMaxAttempts.
THEOREM TypeCorrect == Spec => []TypeOK
<1>1. IInv => TypeOK
  BY DEF IInv
<1> QED
  BY <1>1, Invariance, PTL

\* However many files download at once, transferSlot.acquire and release keep the
\* process within its budget and leak no slot.
THEOREM SlotBudgetHolds == Spec => []SlotBudget
<1>1. IInv => SlotBudget
  <2> SUFFICES ASSUME IInv PROVE SlotBudget
    OBVIOUS
  <2>1. held = {p \in Files \X Worker : MayHold(p[1], p[2])}
    <3>1. held \in SUBSET (Files \X Worker)
      BY DEF IInv, CountInv
    <3>2. \A p \in Files \X Worker : p = <<p[1], p[2]>> /\ p[1] \in Files /\ p[2] \in Worker
      OBVIOUS
    <3> QED
      BY <3>1, <3>2 DEF IInv, HolderInv
  <2> QED
    BY <2>1 DEF IInv, CountInv, SlotBudget
<1> QED
  BY <1>1, Invariance, PTL

\* claimChunk never gives two workers the same chunk.
THEOREM OneWriter == Spec => []ChunkHasOneWriter
<1>1. IInv => ChunkHasOneWriter
  BY DEF IInv, ClaimInv, ChunkHasOneWriter
<1> QED
  BY <1>1, Invariance, PTL

\* When run returns nil, no chunk is missing or torn.
THEOREM NoHole == Spec => []NoSilentHole
<1>1. IInv => NoSilentHole
  <2> SUFFICES ASSUME IInv, NEW f \in Files, phase[f] = "ranged", AllExited(f),
                      failure[f] = "none", NEW c \in Chunk
               PROVE  Good(f, c)
    BY DEF NoSilentHole, Good
  <2>1. nextChunk[f] >= Chunks
    BY ConstantFacts DEF IInv, CompleteInv, AllExited
  <2>2. c < nextChunk[f]
    BY <2>1, ConstantAssumption DEF IInv, TypeOK, Chunk
  <2>3. \A w \in Worker : ~Transferring(f, w)
    BY DEF AllExited, Transferring
  <2> QED
    BY <2>2, <2>3 DEF IInv, CompleteInv
<1> QED
  BY <1>1, Invariance, PTL

\* The fallback of downloadFileWithProgress meets no worker of the transfer.
THEOREM NoStragglersHold == Spec => []NoStragglers
<1>1. IInv => NoStragglers
  BY DEF IInv, PhaseInv, NoStragglers
<1> QED
  BY <1>1, Invariance, PTL

\* The first failure is the one run returns, and a local write error ends the
\* call without another download.
THEOREM FailureKept == Spec => FailureHandled
<1> DEFINE A == \A f \in Files :
                  /\ failure[f] # "none" => failure'[f] = failure[f]
                  /\ failure[f] = "write" => phase'[f] \in {"ranged", "failed"}
<1>1. IInv /\ [Next]_vars => [A]_vars
  <2> SUFFICES ASSUME IInv, [Next]_vars PROVE [A]_vars
    OBVIOUS
  <2>1. FailInv'
    BY InvNext DEF IInv
  <2>2. ASSUME NEW g \in Files, NEW w \in Worker, WorkerStep(g, w)
        PROVE  \A f \in Files : failure[f] # "none" => failure'[f] = failure[f]
    BY <2>2, FailWorker DEF IInv
  <2>3. ASSUME NEW g \in Files, FileStep(g) \/ Publish(g)
        PROVE  failure' = failure
    BY <2>3 DEF FileStep, Publish, Probe, RunReturns, SingleStream, StreamBody, sharedVars
  <2>4. CASE UNCHANGED vars
    BY <2>4
  <2>5. CASE Next
    <3>1. \A f \in Files : failure[f] # "none" => failure'[f] = failure[f]
      BY <2>2, <2>3, <2>5 DEF Next
    <3> QED
      BY <2>1, <3>1 DEF FailInv
  <2> QED
    BY <2>4, <2>5
<1> QED
  BY <1>1, Invariance, PTL DEF Spec, FailureHandled

-----------------------------------------------------------------------------
(* The content of a delivered file. *)

LEMMA DeliveredInit == Init => DeliveredInv
  BY DEF Init, DeliveredInv

\* run's success assembles the version of the probe.
LEMMA Assembled ==
  ASSUME StrongValidator, IInv, NEW f \in Files, phase[f] = "ranged", AllExited(f),
         failure[f] = "none"
  PROVE  disk[f] = [c \in Chunk |-> served[f]]
<1>1. nextChunk[f] >= Chunks
  BY ConstantFacts DEF IInv, CompleteInv, AllExited
<1>2. ASSUME NEW c \in Chunk
      PROVE  disk[f][c] = served[f]
  <2>1. c < nextChunk[f]
    BY <1>1, ConstantAssumption DEF IInv, TypeOK, Chunk
  <2>2. \A w \in Worker : ~Transferring(f, w)
    BY DEF AllExited, Transferring
  <2>3. Good(f, c)
    BY <2>1, <2>2 DEF IInv, CompleteInv
  <2>4. served[f] \in Version
    BY DEF IInv, TypeOK
  <2> QED
    BY <2>3, <2>4 DEF Good, StrongValidator
<1> QED
  BY <1>2 DEF IInv, TypeOK

LEMMA DeliveredNext ==
  ASSUME StrongValidator, IInv, DeliveredInv, [Next]_vars
  PROVE  DeliveredInv'
<1> USE DEF DeliveredInv
<1>1. ASSUME NEW g \in Files, NEW w \in Worker, WorkerStep(g, w)
      PROVE  DeliveredInv'
  <2>1. UNCHANGED <<phase, served>> /\ phase[g] = "ranged"
    BY <1>1, WorkerFrame, PhaseWorker DEF IInv
  <2>2. \A f \in Files : f # g => disk'[f] = disk[f]
    BY <1>1 DEF WorkerStep, AcquireSlot, ClaimChunk, RequestChunk, CopyChunk, WaitRetry,
       ReacquireSlot, fileVars, IInv, TypeOK
  <2> QED
    BY <2>1, <2>2
<1>2. ASSUME NEW g \in Files, Publish(g)
      PROVE  DeliveredInv'
  BY <1>2 DEF Publish, fileVars
<1>3. ASSUME NEW g \in Files, FileStep(g)
      PROVE  DeliveredInv'
  <2>0. /\ phase \in [Files -> Phase] /\ served \in [Files -> Version]
        /\ disk \in [Files -> [Chunk -> Version \cup {Hole, Torn}]]
    BY DEF IInv, TypeOK
  <2>1. \A f \in Files : f # g => /\ phase'[f] = phase[f] /\ served'[f] = served[f]
                                 /\ disk'[f] = disk[f]
    BY <1>3, <2>0 DEF FileStep, Probe, RunReturns, SingleStream, StreamBody, SetPhase
  <2>2. ASSUME phase'[g] = "ok"
        PROVE  disk'[g] = [c \in Chunk |-> served'[g]]
    <3>1. CASE RunReturns(g)
      <4>1. AllExited(g) /\ phase[g] = "ranged" /\ UNCHANGED <<served, disk>>
        BY <3>1 DEF RunReturns
      <4>2. failure[g] = "none"
        BY <2>0, <2>2, <3>1 DEF RunReturns, SetPhase
      <4> QED
        BY <4>1, <4>2, Assembled
    <3>2. CASE StreamBody(g)
      BY <2>0, <2>2, <3>2 DEF StreamBody, SetPhase
    <3>3. CASE Probe(g) \/ SingleStream(g)
      BY <2>0, <2>2, <3>3 DEF Probe, SingleStream, SetPhase
    <3> QED
      BY <1>3, <3>1, <3>2, <3>3 DEF FileStep
  <2> QED
    BY <2>1, <2>2
<1>4. CASE UNCHANGED vars
  BY <1>4 DEF vars, fileVars
<1> QED
  BY <1>1, <1>2, <1>3, <1>4 DEF Next

LEMMA DeliveredInvariance ==
  ASSUME StrongValidator
  PROVE  Spec => []DeliveredInv
<1>1. IInv /\ DeliveredInv /\ [Next]_vars => DeliveredInv'
  BY DeliveredNext
<1> QED
  BY <1>1, DeliveredInit, Invariance, PTL DEF Spec

\* With a validator that identifies the version, a call that succeeds leaves
\* exactly one version of the file on disk, from whatever mix of chunks,
\* retries and fallback it came.
THEOREM OneVersion ==
  ASSUME StrongValidator
  PROVE  Spec => []OneVersionDelivered
<1>1. IInv /\ DeliveredInv => OneVersionDelivered
  BY DEF IInv, TypeOK, DeliveredInv, OneVersionDelivered
<1> QED
  BY <1>1, Invariance, DeliveredInvariance, PTL

\* downloadFileWithProgress implements FileTransfer: seen from the caller, its
\* steps are the server's, one delivery of a whole version, or one failure.
THEOREM Implementation ==
  ASSUME StrongValidator
  PROVE  Spec => ImplementsTransfer
<1> DEFINE Res(f) == IF phase[f] \in {"ok", "failed"} THEN phase[f] ELSE "running"
<1> DEFINE Con(f) == IF phase[f] = "ok" THEN disk[f] ELSE Blanked
<1>1. Init => Transfer!Init
  BY DEF Init, Transfer!Init, Blanked
<1>2. IInv /\ DeliveredInv /\ DeliveredInv' /\ [Next]_vars => [Transfer!Next]_(Transfer!vars)
  <2> SUFFICES ASSUME IInv, DeliveredInv, DeliveredInv', [Next]_vars
               PROVE  [Transfer!Next]_(Transfer!vars)
    OBVIOUS
  <2>0. /\ phase \in [Files -> Phase] /\ served \in [Files -> Version]
        /\ disk \in [Files -> [Chunk -> Version \cup {Hole, Torn}]]
        /\ version \in [Files -> Version]
        /\ \A f \in Files : served[f] <= version[f]
    BY DEF IInv, TypeOK, ServedInv
  <2>1. ASSUME NEW g \in Files, NEW w \in Worker, WorkerStep(g, w)
        PROVE  UNCHANGED Transfer!vars
    <3>1. UNCHANGED <<version, phase>> /\ phase[g] = "ranged"
      BY <2>1, WorkerFrame, PhaseWorker DEF IInv
    <3>2. \A f \in Files : f # g => disk'[f] = disk[f]
      BY <2>1 DEF WorkerStep, AcquireSlot, ClaimChunk, RequestChunk, CopyChunk, WaitRetry,
         ReacquireSlot, fileVars, IInv, TypeOK
    <3>3. \A f \in Files : Con(f)' = Con(f)
      BY <3>1, <3>2
    <3> QED
      BY <3>1, <3>3 DEF Transfer!vars
  <2>2. ASSUME NEW g \in Files, Publish(g)
        PROVE  Transfer!Publish(g)
    BY <2>2 DEF Publish, Transfer!Publish, fileVars
  <2>3. ASSUME NEW g \in Files, FileStep(g)
        PROVE  Transfer!Deliver(g) \/ Transfer!Fail(g) \/ UNCHANGED Transfer!vars
    <3>1. /\ version' = version
          /\ \A f \in Files : f # g => phase'[f] = phase[f] /\ disk'[f] = disk[f]
      BY <2>3, <2>0 DEF FileStep, Probe, RunReturns, SingleStream, StreamBody, SetPhase, serverVars
    <3>2. /\ phase[g] \notin {"ok", "failed"}
          /\ phase' = [phase EXCEPT ![g] = phase'[g]]
          /\ phase'[g] \in Phase
      BY <2>3, <2>0 DEF FileStep, Probe, RunReturns, SingleStream, StreamBody, SetPhase, Phase
    <3>3. CASE phase'[g] = "ok"
      <4>1. served' = served
        BY <2>3, <2>0, <3>3 DEF FileStep, Probe, RunReturns, SingleStream, StreamBody, SetPhase
      <4>2. disk'[g] = [c \in Chunk |-> served[g]] /\ served[g] \in 0 .. version[g]
        <5>1. disk'[g] = [c \in Chunk |-> served[g]]
          BY <3>3, <4>1 DEF DeliveredInv
        <5>2. served[g] \in Nat /\ version[g] \in Nat /\ served[g] <= version[g]
          BY <2>0, ConstantFacts
        <5> QED
          BY <5>1, <5>2
      <4>3. [f \in Files |-> Con(f)'] = [[f \in Files |-> Con(f)] EXCEPT ![g] = [c \in Chunk |-> served[g]]]
        BY <3>1, <3>3, <4>2
      <4>4. [f \in Files |-> Res(f)'] = [[f \in Files |-> Res(f)] EXCEPT ![g] = "ok"]
        BY <3>1, <3>3
      <4>5. [f \in Files |-> Res(f)][g] = "running"
        BY <3>2
      <4> QED
        BY <3>1, <4>2, <4>3, <4>4, <4>5 DEF Transfer!Deliver
    <3>4. CASE phase'[g] = "failed"
      <4>1. [f \in Files |-> Con(f)'] = [f \in Files |-> Con(f)]
        BY <3>1, <3>2, <3>4
      <4>2. [f \in Files |-> Res(f)'] = [[f \in Files |-> Res(f)] EXCEPT ![g] = "failed"]
        BY <3>1, <3>4
      <4>3. [f \in Files |-> Res(f)][g] = "running"
        BY <3>2
      <4> QED
        BY <3>1, <4>1, <4>2, <4>3 DEF Transfer!Fail
    <3>5. CASE phase'[g] \notin {"ok", "failed"}
      <4>1. \A f \in Files : Con(f)' = Con(f) /\ Res(f)' = Res(f)
        BY <3>1, <3>2, <3>5
      <4> QED
        BY <3>1, <4>1 DEF Transfer!vars
    <3> QED
      BY <3>3, <3>4, <3>5
  <2>4. CASE UNCHANGED vars
    BY <2>4 DEF vars, serverVars, fileVars, Transfer!vars
  <2> QED
    BY <2>1, <2>2, <2>3, <2>4 DEF Next, Transfer!Next
<1> QED
  BY <1>1, <1>2, Invariance, DeliveredInvariance, PTL DEF Spec, ImplementsTransfer, Transfer!Spec
=============================================================================
