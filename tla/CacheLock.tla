----------------------------- MODULE CacheLock ------------------------------
(***************************************************************************)
(* The lock file of a directory (tools/cache.go, cacheLock and DirLock):   *)
(* created exclusively, removed on release, and removed by a waiter that   *)
(* finds it older than cacheLockStaleAfter.  Processes are separate polka  *)
(* commands; they may be killed at any point and started again.            *)
(*                                                                         *)
(* Time is abstracted to one bit: the lock file is stale or it is not.     *)
(***************************************************************************)
EXTENDS Naturals

CONSTANTS Process,
          Free,         \* there is no lock file
          SlowHolders   \* a holder may take longer than cacheLockStaleAfter

ASSUME LockAssumption == Free \notin Process /\ SlowHolders \in BOOLEAN

VARIABLES
  lock,       \* the process that created the lock file, or Free
  stale,      \* the lock file is older than cacheLockStaleAfter
  everStale,  \* history: some lock file has been
  at          \* at[p]: where a process is in acquireCacheLock

lockVars == <<lock, stale, everStale, at>>

Place == {"out", "try", "stat", "break", "wait", "in"}

LockTypeOK ==
  /\ lock \in Process \cup {Free}
  /\ stale \in BOOLEAN
  /\ everStale \in BOOLEAN
  /\ at \in [Process -> Place]

LockInit ==
  /\ lock = Free
  /\ stale = FALSE
  /\ everStale = FALSE
  /\ at = [p \in Process |-> "out"]

Move(p, from, to) == at[p] = from /\ at' = [at EXCEPT ![p] = to]
FileUnchanged == UNCHANGED <<lock, stale, everStale>>

\* O_CREATE|O_EXCL succeeds only when there is no file.
CreateAnyway(p) == lock' = p /\ stale' = FALSE
CreateExclusively(p) == lock = Free /\ lock' = p /\ stale' = FALSE

\* The call of acquireCacheLock.
EnterLock(p) == Move(p, "out", "try") /\ FileUnchanged

TryLock(p) ==
  \/ /\ CreateExclusively(p)
     /\ Move(p, "try", "in")
     /\ UNCHANGED everStale
  \/ lock # Free /\ Move(p, "try", "stat") /\ FileUnchanged
  \/ Move(p, "try", "out") /\ FileUnchanged     \* another error of OpenFile

\* removeStaleCacheLock looks at the file first ...
NeverOld == FALSE
OldEnough == lock # Free /\ stale

StatLock(p) ==
  /\ Move(p, "stat", IF OldEnough THEN "break" ELSE "wait")
  /\ FileUnchanged

\* ... and then removes whatever has that name now.
BreakLock(p) ==
  /\ Move(p, "break", "wait")
  /\ lock' = Free /\ stale' = FALSE
  /\ UNCHANGED everStale

\* The deadline has passed, or it is time for another attempt.
WaitLock(p) ==
  /\ Move(p, "wait", "out") \/ Move(p, "wait", "try")
  /\ FileUnchanged

\* release removes the path, whoever created it.
ReleaseLock(p) ==
  /\ Move(p, "in", "out")
  /\ lock' = Free /\ stale' = FALSE
  /\ UNCHANGED everStale

\* The process is killed; its file stays.
CrashLock(p) ==
  /\ at[p] # "out"
  /\ at' = [at EXCEPT ![p] = "out"]
  /\ FileUnchanged

\* cacheLockStaleAfter passes over a file.
AgeLock ==
  /\ lock # Free /\ ~stale
  /\ SlowHolders \/ at[lock] # "in"
  /\ stale' = TRUE /\ everStale' = TRUE
  /\ UNCHANGED <<lock, at>>

AcquireStep(p) == TryLock(p) \/ StatLock(p) \/ BreakLock(p) \/ WaitLock(p)

LockNext ==
  \/ \E p \in Process : EnterLock(p) \/ AcquireStep(p) \/ ReleaseLock(p) \/ CrashLock(p)
  \/ AgeLock

LockSpec == LockInit /\ [][LockNext]_lockVars

-----------------------------------------------------------------------------
(* Properties. *)

\* "DirLock is an exclusive advisory file lock": no two processes are between
\* acquireCacheLock and release.
MutualExclusion == \A p, q \in Process : at[p] = "in" /\ at[q] = "in" => p = q

\* It is exclusive as long as no lock file has become stale, crashes included.
ExclusiveUntilStale == ~everStale => MutualExclusion

\* The file of a process that was killed.
LeftBehind == lock # Free /\ at[lock] # "in"

\* From some time on no process is killed while it looks at the file.
LooksSurvive ==
  <>[][\A p \in Process : at[p] \in {"stat", "break"} => at'[p] # "out"]_lockVars

\* A killed holder does not lock the directory for ever: if processes keep looking
\* at its file, it gets old and goes.
LeftoverRemoved ==
  /\ \A p \in Process : WF_lockVars(AcquireStep(p))
  /\ WF_lockVars(AgeLock)
  /\ []<>(\E p \in Process : at[p] = "stat")
  /\ LooksSurvive
  => (LeftBehind ~> ~LeftBehind)
=============================================================================
