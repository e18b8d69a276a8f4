------------------------- MODULE PayloadCacheProofs -------------------------
(***************************************************************************)
(* The lock file is exclusive until one gets stale, and what is published  *)
(* under it is served: for any number of processes, versions and payloads. *)
(***************************************************************************)
EXTENDS PayloadCache, TLAPS

-----------------------------------------------------------------------------
(* The lock. *)

\* Until a lock file is stale, nobody is about to break it, and each holder's own
\* file is the one that exists.
HolderInv ==
  ~everStale => /\ ~stale
                /\ \A p \in Process : /\ at[p] # "break"
                                      /\ at[p] = "in" => lock = p

LockInv == LockTypeOK /\ HolderInv

LEMMA LockInitInv == LockInit => LockInv
  BY DEF LockInit, LockInv, LockTypeOK, HolderInv, Place

\* A process moves, and no other does.
LEMMA MoveFrame ==
  ASSUME LockTypeOK, NEW p \in Process, NEW from, NEW to \in Place, Move(p, from, to)
  PROVE  /\ at' \in [Process -> Place]
         /\ at[p] = from /\ at'[p] = to
         /\ \A q \in Process : q # p => at'[q] = at[q]
  BY DEF Move, LockTypeOK

LEMMA LockStep ==
  ASSUME LockInv, NEW p \in Process,
         EnterLock(p) \/ AcquireStep(p) \/ ReleaseLock(p) \/ CrashLock(p)
  PROVE  LockInv'
<1> USE DEF LockInv
<1> DEFINE Quiet(from, to) == Move(p, from, to) /\ FileUnchanged /\ to # "in"
<1>1. ASSUME NEW from, NEW to \in Place, Quiet(from, to), to = "break" => everStale
      PROVE  LockInv'
  BY <1>1, MoveFrame DEF FileUnchanged, HolderInv, LockTypeOK
<1>2. CASE EnterLock(p)
  BY <1>1, <1>2 DEF EnterLock, Place
<1>3. CASE TryLock(p)
  <2>1. CASE CreateExclusively(p) /\ Move(p, "try", "in") /\ UNCHANGED everStale
    <3>1. /\ at' \in [Process -> Place] /\ at'[p] = "in"
          /\ \A q \in Process : q # p => at'[q] = at[q]
      BY <2>1, MoveFrame DEF Place
    <3>2. /\ lock = Free /\ lock' = p /\ stale' = FALSE /\ everStale' = everStale
      BY <2>1 DEF CreateExclusively
    <3>3. ~everStale => \A q \in Process : at[q] # "in"
      BY <3>2, LockAssumption DEF HolderInv
    <3> QED
      BY <3>1, <3>2, <3>3 DEF HolderInv, LockTypeOK
  <2>2. CASE \E to \in {"stat", "out"} : Move(p, "try", to) /\ FileUnchanged
    BY <1>1, <2>2 DEF Place
  <2> QED
    BY <1>3, <2>1, <2>2 DEF TryLock
<1>4. CASE StatLock(p)
  <2>1. OldEnough => everStale
    BY DEF OldEnough, HolderInv, LockTypeOK
  <2> QED
    BY <1>1, <1>4, <2>1 DEF StatLock, Place
<1>5. CASE BreakLock(p)
  <2>1. everStale
    BY <1>5 DEF BreakLock, Move, HolderInv, LockTypeOK
  <2> QED
    BY <1>5, <2>1, MoveFrame DEF BreakLock, HolderInv, LockTypeOK, Place
<1>6. CASE WaitLock(p)
  BY <1>1, <1>6 DEF WaitLock, Place
<1>7. CASE ReleaseLock(p)
  <2>1. /\ at' \in [Process -> Place] /\ at[p] = "in" /\ at'[p] = "out"
        /\ \A q \in Process : q # p => at'[q] = at[q]
    BY <1>7, MoveFrame DEF ReleaseLock, Place
  <2>2. lock' = Free /\ stale' = FALSE /\ everStale' = everStale
    BY <1>7 DEF ReleaseLock
  <2>3. ~everStale => \A q \in Process : q # p => at[q] # "in"
    BY <2>1 DEF HolderInv
  <2> QED
    BY <2>1, <2>2, <2>3 DEF HolderInv, LockTypeOK
<1>8. CASE CrashLock(p)
  BY <1>8 DEF CrashLock, FileUnchanged, HolderInv, LockTypeOK, Place
<1> QED
  BY <1>2, <1>3, <1>4, <1>5, <1>6, <1>7, <1>8 DEF AcquireStep

LEMMA AgeStep == LockInv /\ AgeLock => LockInv'
  BY DEF AgeLock, LockInv, LockTypeOK, HolderInv

LEMMA LockStutter == LockInv /\ UNCHANGED lockVars => LockInv'
  BY DEF lockVars, LockInv, LockTypeOK, HolderInv

\* In every behaviour in which no lock file has become stale yet, the lock is
\* exclusive, whichever processes were killed or timed out.
THEOREM LockExclusive == LockSpec => []ExclusiveUntilStale
<1>1. LockInv /\ [LockNext]_lockVars => LockInv'
  BY LockStep, AgeStep, LockStutter DEF LockNext
<1>2. LockInv => ExclusiveUntilStale
  BY DEF LockInv, HolderInv, ExclusiveUntilStale, MutualExclusion
<1> QED
  BY LockInitInv, <1>1, <1>2, PTL DEF LockSpec

-----------------------------------------------------------------------------
(* The payloads. *)

\* A process outside the lock has not begun; one inside knows what to publish.
CallInv ==
  \A p \in Process :
     /\ at[p] # "in" => step[p] = "clear"
     /\ at[p] # "out" => target[p] \in Version /\ staged[p] \in Content

\* What the steps of a holder have established so far.
WorkInv ==
  ~everStale => \A p \in Process : at[p] = "in" =>
     /\ step[p] \in {"read", "write", "replace", "done"}
          => payload[target[p]] = staged[p]
     /\ step[p] = "write" => seen[p] \in {metadata, Empty}
     /\ step[p] = "done" => metadata[target[p]] = staged[p]

CacheInv == TypeOK /\ LockInv /\ CallInv /\ WorkInv

LEMMA CacheInit == Init => CacheInv
<1> SUFFICES ASSUME Init PROVE CacheInv
  OBVIOUS
<1>1. LockInv /\ LockTypeOK
  BY LockInitInv DEF Init, LockInv
<1>2. Empty \in Entries
  BY DEF Empty, Entries
<1>3. TypeOK
  BY <1>1, <1>2, CacheAssumption DEF Init, TypeOK
<1>4. CallInv /\ WorkInv
  BY DEF Init, LockInit, CallInv, WorkInv
<1> QED
  BY <1>1, <1>3, <1>4 DEF CacheInv

\* While nothing was stale, at most one process is inside.
LEMMA OneInside ==
  ASSUME LockInv, ~everStale
  PROVE  \A p, q \in Process : at[p] = "in" /\ at[q] = "in" => p = q
  BY DEF LockInv, HolderInv

-----------------------------------------------------------------------------
(* Steps that leave the directory alone. *)

LEMMA InvForget ==
  ASSUME CacheInv, NEW p \in Process, Forget(p), UNCHANGED <<dirVars, readVars>>,
         LockInv', at'[p] = "out", everStale' = everStale,
         \A q \in Process : q # p => at'[q] = at[q]
  PROVE  CacheInv'
<1>1. TypeOK'
  BY DEF CacheInv, TypeOK, Forget, dirVars, readVars, Empty, Entries, LockInv
<1>2. \A q \in Process : q # p => /\ step'[q] = step[q] /\ target'[q] = target[q]
                                  /\ staged'[q] = staged[q] /\ seen'[q] = seen[q]
  BY DEF CacheInv, TypeOK, Forget
<1>3. step'[p] = "clear"
  BY DEF CacheInv, TypeOK, Forget
<1>4. CallInv' /\ WorkInv'
  BY <1>2, <1>3 DEF CacheInv, CallInv, WorkInv, dirVars
<1> QED
  BY <1>1, <1>4 DEF CacheInv

LEMMA InvStart ==
  ASSUME CacheInv, NEW p \in Process, StartPublish(p)
  PROVE  CacheInv'
<1>1. LockInv'
  BY LockStep DEF StartPublish, CacheInv
<1>2. PICK v \in Version, c \in Content :
         target' = [target EXCEPT ![p] = v] /\ staged' = [staged EXCEPT ![p] = c]
  BY DEF StartPublish
<1>3. /\ at' = [at EXCEPT ![p] = "try"] /\ at[p] = "out" /\ everStale' = everStale
      /\ UNCHANGED <<dirVars, step, seen, readVars>>
      /\ started' = started + 1 /\ started < MaxPublications
  BY DEF StartPublish, EnterLock, Move, FileUnchanged
<1>4. TypeOK'
  BY <1>1, <1>2, <1>3, CacheAssumption DEF CacheInv, TypeOK, dirVars, readVars, LockInv
<1>5. CallInv' /\ WorkInv'
  BY <1>2, <1>3 DEF CacheInv, CallInv, WorkInv, TypeOK, LockTypeOK, dirVars
<1> QED
  BY <1>1, <1>4, <1>5 DEF CacheInv

LEMMA InvWait ==
  ASSUME CacheInv, NEW p \in Process, WaitForLock(p)
  PROVE  CacheInv'
<1>1. LockInv' /\ AcquireStep(p)
  BY LockStep DEF WaitForLock, CacheInv
<1>2. PICK to \in Place : at' = [at EXCEPT ![p] = to] /\ at[p] \notin {"in", "out"}
  BY <1>1 DEF AcquireStep, TryLock, StatLock, BreakLock, WaitLock, Move, Place
<1>3. everStale' = everStale /\ UNCHANGED <<dirVars, readVars>>
  BY <1>1 DEF AcquireStep, TryLock, StatLock, BreakLock, WaitLock, FileUnchanged, WaitForLock
<1>4. at'[p] = to /\ \A q \in Process : q # p => at'[q] = at[q]
  BY <1>2 DEF CacheInv, LockInv, LockTypeOK
<1>5. CASE to = "out"
  BY <1>1, <1>3, <1>4, <1>5, InvForget DEF WaitForLock
<1>6. CASE to # "out"
  <2>1. UNCHANGED publishVars
    BY <1>4, <1>6 DEF WaitForLock
  <2>2. TypeOK'
    BY <1>1, <1>3, <2>1 DEF CacheInv, TypeOK, dirVars, readVars, publishVars, LockInv
  <2>3. step[p] = "clear"
    BY <1>2 DEF CacheInv, CallInv
  <2> QED
    BY <1>1, <1>2, <1>3, <1>4, <2>1, <2>2, <2>3
    DEF CacheInv, CallInv, WorkInv, dirVars, publishVars
<1> QED
  BY <1>5, <1>6

LEMMA InvLeave ==
  ASSUME CacheInv, NEW p \in Process, FinishPublish(p) \/ CrashPublish(p)
  PROVE  CacheInv'
<1>1. LockInv'
  BY LockStep DEF FinishPublish, CrashPublish, CacheInv
<1>2. at' = [at EXCEPT ![p] = "out"] /\ everStale' = everStale
  BY DEF FinishPublish, CrashPublish, ReleaseLock, CrashLock, Move, FileUnchanged
<1>3. at'[p] = "out" /\ \A q \in Process : q # p => at'[q] = at[q]
  BY <1>2 DEF CacheInv, LockInv, LockTypeOK
<1> QED
  BY <1>1, <1>2, <1>3, InvForget DEF FinishPublish, CrashPublish

LEMMA InvAge ==
  ASSUME CacheInv, Age
  PROVE  CacheInv'
<1>1. LockInv' /\ at' = at /\ everStale'
  BY AgeStep DEF Age, CacheInv, AgeLock
<1> QED
  BY <1>1 DEF Age, CacheInv, TypeOK, CallInv, WorkInv, dirVars, publishVars, readVars,
     LockInv

-----------------------------------------------------------------------------
(* Steps of a holder on the directory. *)

\* What a holder changes, and that it alone is inside.
LEMMA HolderStep ==
  ASSUME CacheInv, NEW p \in Process,
         ClearPayload(p) \/ MovePayload(p) \/ ReadMetadata(p)
           \/ WriteMetadata(p) \/ RenameMetadata(p)
  PROVE  /\ at[p] = "in" /\ UNCHANGED <<lockVars, started, target, staged, readVars>>
         /\ target[p] \in Version /\ staged[p] \in Content
         /\ \E to \in {"move", "read", "write", "replace", "done", "error"} :
               step' = [step EXCEPT ![p] = to]
         /\ payload' \in Entries /\ metadata' \in Entries
         /\ seen' \in [Process -> Entries]
<1>1. at[p] = "in" /\ UNCHANGED <<lockVars, started, target, staged, readVars>>
  BY DEF ClearPayload, MovePayload, ReadMetadata, WriteMetadata, RenameMetadata, Step,
     dirVars
<1>2. target[p] \in Version /\ staged[p] \in Content
  BY <1>1 DEF CacheInv, CallInv
<1>3. \E to \in {"move", "read", "write", "replace", "done", "error"} :
         step' = [step EXCEPT ![p] = to]
  BY DEF ClearPayload, MovePayload, ReadMetadata, WriteMetadata, RenameMetadata, Step
<1>4. Updated(p) \in Entries /\ Empty \in Entries
  BY <1>2 DEF Updated, Empty, Entries, CacheInv, TypeOK
<1>5. payload' \in Entries
  <2>1. \/ payload' = payload
        \/ \E c \in Content \cup {None} : payload' = [payload EXCEPT ![target[p]] = c]
    BY <1>2 DEF ClearPayload, MovePayload, ReadMetadata, WriteMetadata, RenameMetadata,
       RemovePayload, dirVars
  <2> QED
    BY <1>2, <2>1 DEF CacheInv, TypeOK, Entries
<1>6. metadata' \in Entries
  <2>1. metadata' \in {metadata, Updated(p), Empty}
    BY DEF ClearPayload, MovePayload, ReadMetadata, WriteMetadata, RenameMetadata, dirVars
  <2> QED
    BY <1>4, <2>1 DEF CacheInv, TypeOK
<1>7. seen' \in [Process -> Entries]
  <2>1. \/ seen' = seen
        \/ \E found \in {metadata, Empty} : seen' = [seen EXCEPT ![p] = found]
    BY DEF ClearPayload, MovePayload, ReadMetadata, WriteMetadata, RenameMetadata
  <2> QED
    BY <1>4, <2>1 DEF CacheInv, TypeOK
<1> QED
  BY <1>1, <1>2, <1>3, <1>5, <1>6, <1>7

\* What a holder has established after its step.
LEMMA HolderWork ==
  ASSUME CacheInv, NEW p \in Process, ~everStale,
         ClearPayload(p) \/ MovePayload(p) \/ ReadMetadata(p)
           \/ WriteMetadata(p) \/ RenameMetadata(p)
  PROVE  /\ step'[p] \in {"read", "write", "replace", "done"}
              => payload'[target[p]] = staged[p]
         /\ step'[p] = "write" => seen'[p] \in {metadata', Empty}
         /\ step'[p] = "done" => metadata'[target[p]] = staged[p]
<1>0. /\ at[p] = "in" /\ target[p] \in Version /\ staged[p] \in Content
      /\ \A s : step' = [step EXCEPT ![p] = s] => step'[p] = s
      /\ payload \in Entries /\ metadata \in Entries /\ seen[p] \in Entries
  BY HolderStep DEF CacheInv, TypeOK
<1>1. step[p] \in {"read", "write", "replace", "done"} => payload[target[p]] = staged[p]
  BY <1>0 DEF CacheInv, WorkInv
<1>2. CASE ClearPayload(p)
  BY <1>0, <1>2 DEF ClearPayload, Step
<1>3. CASE MovePayload(p)
  BY <1>0, <1>3 DEF MovePayload, Step, Entries
<1>4. CASE ReadMetadata(p)
  <2>1. /\ payload' = payload /\ metadata' = metadata
        /\ \E found \in {metadata, Empty} : seen' = [seen EXCEPT ![p] = found]
    BY <1>4 DEF ReadMetadata, dirVars
  <2>2. seen'[p] \in {metadata, Empty}
    BY <2>1 DEF CacheInv, TypeOK
  <2> QED
    BY <1>0, <1>1, <1>4, <2>1, <2>2 DEF ReadMetadata, Step
<1>5. CASE WriteMetadata(p) \/ RenameMetadata(p)
  <2>1. payload' = payload /\ step[p] \in {"write", "replace"}
    BY <1>5 DEF WriteMetadata, RenameMetadata, Step
  <2>2. Updated(p)[target[p]] = staged[p]
    BY <1>0 DEF Updated, Entries
  <2>3. step'[p] \in {"done", "replace", "error"}
        /\ (step'[p] = "done" => metadata' = Updated(p))
    BY <1>0, <1>5 DEF WriteMetadata, RenameMetadata, Step
  <2> QED
    BY <1>1, <2>1, <2>2, <2>3
<1> QED
  BY <1>2, <1>3, <1>4, <1>5

LEMMA InvHolder ==
  ASSUME CacheInv, NEW p \in Process,
         ClearPayload(p) \/ MovePayload(p) \/ ReadMetadata(p)
           \/ WriteMetadata(p) \/ RenameMetadata(p)
  PROVE  CacheInv'
<1>1. PICK to \in {"move", "read", "write", "replace", "done", "error"} :
         step' = [step EXCEPT ![p] = to]
  BY HolderStep
<1>2. /\ at[p] = "in" /\ UNCHANGED <<lockVars, started, target, staged, readVars>>
      /\ payload' \in Entries /\ metadata' \in Entries /\ seen' \in [Process -> Entries]
  BY HolderStep
<1>3. LockInv' /\ LockTypeOK'
  BY <1>2, LockStutter DEF CacheInv, LockInv
<1>4. TypeOK'
  BY <1>1, <1>2, <1>3 DEF CacheInv, TypeOK, readVars
<1>5. CallInv'
  BY <1>1, <1>2 DEF CacheInv, CallInv, lockVars, TypeOK
<1>6. WorkInv'
  <2>1. SUFFICES ASSUME ~everStale', NEW q \in Process, at'[q] = "in"
                 PROVE  /\ step'[q] \in {"read", "write", "replace", "done"}
                             => payload'[target'[q]] = staged'[q]
                        /\ step'[q] = "write" => seen'[q] \in {metadata', Empty}
                        /\ step'[q] = "done" => metadata'[target'[q]] = staged'[q]
    BY DEF WorkInv
  <2>2. ~everStale /\ at[q] = "in"
    BY <1>2, <2>1 DEF lockVars
  <2>3. q = p
    BY <1>2, <2>2, OneInside DEF CacheInv
  <2> QED
    BY <1>2, <2>2, <2>3, HolderWork
<1> QED
  BY <1>3, <1>4, <1>5, <1>6 DEF CacheInv

-----------------------------------------------------------------------------
(* Readers, and the theorems. *)

LEMMA InvReader ==
  ASSUME CacheInv, NEW r \in Reader, Install(r)
  PROVE  CacheInv'
<1>1. UNCHANGED <<lockVars, dirVars, publishVars>>
  BY DEF Install, LookUp, Validate, Extract
<1>2. LockInv' /\ LockTypeOK'
  BY <1>1, LockStutter DEF CacheInv, LockInv
<1>3. TypeOK'
  <2>1. /\ wanted' = wanted
        /\ \E s \in {"check", "extract", "installed", "failed"} :
              reading' = [reading EXCEPT ![r] = s]
        /\ entry' = entry \/ entry' = [entry EXCEPT ![r] = metadata[wanted[r]]]
        /\ \/ installed' = installed
           \/ installed' = [installed EXCEPT ![r] = payload[wanted[r]]]
    BY DEF Install, LookUp, Validate, Extract, Read
  <2>2. metadata[wanted[r]] \in Content \cup {None} /\ payload[wanted[r]] \in Content \cup {None}
    BY DEF CacheInv, TypeOK, Entries
  <2> QED
    BY <1>1, <1>2, <2>1, <2>2 DEF CacheInv, TypeOK, dirVars, publishVars
<1>4. CallInv' /\ WorkInv'
  BY <1>1 DEF CacheInv, CallInv, WorkInv, lockVars, dirVars, publishVars
<1> QED
  BY <1>2, <1>3, <1>4 DEF CacheInv

LEMMA CacheNext == CacheInv /\ [Next]_vars => CacheInv'
<1> SUFFICES ASSUME CacheInv, [Next]_vars PROVE CacheInv'
  OBVIOUS
<1>1. ASSUME NEW p \in Process, Publish(p) PROVE CacheInv'
  BY <1>1, InvStart, InvWait, InvLeave, InvHolder DEF Publish
<1>2. CASE UNCHANGED vars
  <2>1. LockInv' /\ LockTypeOK'
    BY <1>2, LockStutter DEF vars, CacheInv, LockInv
  <2> QED
    BY <1>2, <2>1 DEF vars, CacheInv, TypeOK, CallInv, WorkInv, lockVars, dirVars,
       publishVars, readVars
<1> QED
  BY <1>1, <1>2, InvAge, InvReader DEF Next

\* Every variable of the cache keeps its type; in particular metadata.json always
\* maps versions to entries.
THEOREM CacheTypeCorrect == Spec => []TypeOK
<1>1. CacheInv => TypeOK
  BY DEF CacheInv
<1> QED
  BY CacheInit, CacheNext, <1>1, PTL DEF Spec

\* As long as no lock file got stale, a publisher that has written its metadata
\* serves its payload, whatever other publishers do, and whoever was killed.
THEOREM PublishServed == Spec => []PublishedIsServed
<1>1. CacheInv => PublishedIsServed
  BY DEF CacheInv, WorkInv, PublishedIsServed, Served
<1> QED
  BY CacheInit, CacheNext, <1>1, PTL DEF Spec

\* One step of a holder, seen from another version.
LEMMA OthersStep ==
  ASSUME CacheInv, ~everStale, NEW v \in Version, [Next]_vars, Served(v)' # Served(v)
  PROVE  \E p \in Process : /\ at[p] = "in"
                            /\ \/ target[p] = v
                               \/ seen[p] = Empty
                               \/ "replace" \in {step[p], step'[p]}
<1>1. ~UNCHANGED dirVars
  BY DEF Served, dirVars
<1>2. PICK p \in Process : ClearPayload(p) \/ MovePayload(p) \/ WriteMetadata(p) \/ RenameMetadata(p)
  BY <1>1 DEF Next, vars, Publish, StartPublish, WaitForLock, ReadMetadata, FinishPublish,
     CrashPublish, Age, Install, LookUp, Validate, Extract
<1>3. at[p] = "in" /\ target[p] \in Version
  BY <1>2, HolderStep
<1>4. SUFFICES ASSUME target[p] # v, seen[p] # Empty, "replace" \notin {step[p], step'[p]}
               PROVE  FALSE
  BY <1>3
<1>5. CASE ClearPayload(p) \/ MovePayload(p)
  <2>1. metadata' = metadata /\ payload'[v] = payload[v]
    BY <1>3, <1>4, <1>5 DEF ClearPayload, MovePayload, RemovePayload, CacheInv, TypeOK, Entries
  <2> QED
    BY <2>1 DEF Served
<1>6. CASE WriteMetadata(p)
  <2>1. payload' = payload /\ metadata' # metadata /\ step[p] = "write"
    BY <1>1, <1>6 DEF WriteMetadata, Step, dirVars
  <2>2. step'[p] # "replace" /\ \A s : step' = [step EXCEPT ![p] = s] => step'[p] = s
    BY <1>4 DEF CacheInv, TypeOK
  <2>3. metadata' = Updated(p)
    BY <1>6, <2>1, <2>2 DEF WriteMetadata, Step
  <2>4. seen[p] = metadata
    BY <1>3, <1>4, <2>1 DEF CacheInv, WorkInv
  <2>5. metadata'[v] = metadata[v]
    BY <1>4, <2>3, <2>4 DEF Updated, CacheInv, TypeOK, Entries
  <2> QED
    BY <2>1, <2>5 DEF Served
<1>7. CASE RenameMetadata(p)
  BY <1>4, <1>7 DEF RenameMetadata, Step
<1> QED
  BY <1>2, <1>5, <1>6, <1>7

\* As long as no lock file got stale, no publisher undoes the publication of
\* another version, except where metadata.json cannot be read or replaced.
THEOREM NoLostUpdate == Spec => OthersUntouched
<1>1. CacheInv /\ [Next]_vars =>
        [\A v \in Version : ~everStale /\ Served(v)' # Served(v) =>
           \E p \in Process : /\ at[p] = "in"
                              /\ \/ target[p] = v
                                 \/ seen[p] = Empty
                                 \/ "replace" \in {step[p], step'[p]}]_vars
  BY OthersStep
<1> QED
  BY CacheInit, CacheNext, <1>1, PTL DEF Spec, OthersUntouched
=============================================================================
