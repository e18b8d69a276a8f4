----------------------------- MODULE InternalTools -----------------------------
(***************************************************************************)
(* The machine's internal tools (backend/internal_tools.go, state.go):     *)
(* PHP, Composer and PIE, which polka itself runs, in one directory that   *)
(* the processes of all projects share.  There is a lock for each tool,    *)
(* but one installed.json and one environment file for all of them.  The   *)
(* lock is CacheLock's, and its waiters may give up or find it stale.  A   *)
(* polka build drops records, too: that is in BuildEngine.                 *)
(***************************************************************************)
EXTENDS Naturals, FiniteSets

CONSTANTS Provisioner,  \* the processes that provision a tool
          InternalTool, \* the tools
          Configured,   \* those with a post-install step: php and php-zts
          Version, Default,   \* the versions, and the one polka has for each tool
          Unset,        \* no version, no process
          MaxMishaps    \* bound: edits, removals and kills together

ASSUME InternalAssumption ==
  /\ Configured \subseteq InternalTool /\ Default \in Version
  /\ Unset \notin Version /\ Unset \notin Provisioner
  /\ MaxMishaps \in Nat

Install == InternalTool \X Version

VARIABLES
  chosen,     \* the environment file: the version of each tool
  recorded,   \* installed.json
  tree,       \* the installations: "absent", "bare" or "whole"
  lock,       \* the holder of each tool's lock
  provision,  \* of a process: its step, its tool and version, its copies of the two files
  mishaps,    \* edits, removals and kills so far
  blurred     \* history: a record may not be what the installation is

internalVars == <<chosen, recorded, tree, lock, provision, mishaps, blurred>>

NoProvision == [step |-> "idle", tool |-> Unset, version |-> Unset,
                file |-> [t \in InternalTool |-> Unset], state |-> {}]

InternalInit ==
  /\ chosen = [t \in InternalTool |-> Unset]
  /\ recorded = {}
  /\ tree = [i \in Install |-> "absent"]
  /\ lock = [t \in InternalTool |-> Unset]
  /\ provision = [p \in Provisioner |-> NoProvision]
  /\ mishaps = 0 /\ blurred = FALSE

Stage(p, label) == provision[p].step = label
Proceed(p, label) == provision' = [provision EXCEPT ![p] = IF label = "idle" THEN NoProvision
                                                         ELSE [@ EXCEPT !.step = label]]
Wanted(p) == <<provision[p].tool, provision[p].version>>

Files == UNCHANGED <<chosen, recorded, tree>>
Rest == UNCHANGED <<mishaps, blurred>>

\* resolvedInternalInstall.
ResolvedByDirectory(i) == tree[i] # "absent"
Resolved(i) == i \in recorded /\ tree[i] # "absent"

-----------------------------------------------------------------------------
(* EnsureInternalTool. *)

\* The environment file's version, or polka's own.
Request(p, t) ==
  /\ provision[p].step \in {"idle", "returned"}
  /\ LET v == IF chosen[t] = Unset THEN Default ELSE chosen[t]
     IN  provision' = [provision EXCEPT ![p] =
           IF chosen[t] = v
           THEN [NoProvision EXCEPT !.tool = t, !.version = v, !.step = "look"]
           ELSE [NoProvision EXCEPT !.tool = t, !.version = v, !.step = "write", !.file = chosen]]
  /\ UNCHANGED lock
  /\ Files /\ Rest

\* writeInternalEnvironment: the whole file as it was read, with the version.
WriteVersion(p) ==
  /\ Stage(p, "write")
  /\ \/ /\ chosen' = [provision[p].file EXCEPT ![provision[p].tool] = provision[p].version]
        /\ provision' = [provision EXCEPT ![p].step = "look", ![p].file = NoProvision.file]
     \/ /\ chosen' = NoProvision.file
        /\ provision' = [provision EXCEPT ![p] = NoProvision]
  /\ UNCHANGED <<recorded, tree, lock>>
  /\ Rest

\* The fast path, without the lock.
FastPath(p) ==
  /\ Stage(p, "look")
  /\ Proceed(p, IF Resolved(Wanted(p)) THEN "returned" ELSE "wait")
  /\ UNCHANGED lock
  /\ Files /\ Rest

Acquire(p) ==
  /\ Stage(p, "wait")
  /\ \/ /\ lock[provision[p].tool] = Unset
        /\ lock' = [lock EXCEPT ![provision[p].tool] = p]
        /\ Proceed(p, "again")
     \/ UNCHANGED lock /\ Proceed(p, "idle")
  /\ Files /\ Rest

Unlock(p) ==
  lock' = [lock EXCEPT ![provision[p].tool] = IF @ = p THEN Unset ELSE @]

\* Another process may have finished meanwhile.
LookAgain(p) ==
  /\ Stage(p, "again")
  /\ IF Resolved(Wanted(p)) THEN Proceed(p, "returned") /\ Unlock(p)
                            ELSE Proceed(p, "fetch") /\ UNCHANGED lock
  /\ Files /\ Rest

\* The payload is in the cache, or is downloaded, and is copied to a staging directory.
Fetch(p) ==
  /\ Stage(p, "fetch")
  /\ \/ Proceed(p, "remove") /\ UNCHANGED lock
     \/ Proceed(p, "idle") /\ Unlock(p)
  /\ Files /\ Rest

\* installToolFromCache: what is there is removed, and the staging directory renamed.
RemoveTree(p) ==
  /\ Stage(p, "remove")
  /\ tree' = [tree EXCEPT ![Wanted(p)] = "absent"]
  /\ Proceed(p, "rename")
  /\ UNCHANGED <<chosen, recorded, lock>>
  /\ Rest

RenameTree(p) ==
  /\ Stage(p, "rename")
  /\ \/ /\ tree[Wanted(p)] = "absent"
        /\ tree' = [tree EXCEPT ![Wanted(p)] =
                      IF provision[p].tool \in Configured THEN "bare" ELSE "whole"]
        /\ Proceed(p, "configure") /\ UNCHANGED lock
     \/ UNCHANGED tree /\ Proceed(p, "idle") /\ Unlock(p)
  /\ UNCHANGED <<chosen, recorded>>
  /\ Rest

\* PostInstall writes php.ini.
Configure(p) ==
  /\ Stage(p, "configure")
  /\ \/ /\ tree' = [tree EXCEPT ![Wanted(p)] = IF @ = "absent" THEN @ ELSE "whole"]
        /\ Proceed(p, "read") /\ UNCHANGED lock
     \/ /\ provision[p].tool \in Configured
        /\ UNCHANGED tree /\ Proceed(p, "idle") /\ Unlock(p)
  /\ UNCHANGED <<chosen, recorded>>
  /\ Rest

\* installed.json is read, and written with the new record in it: atomically, but by the
\* copy that was read.
ReadState(p) ==
  /\ Stage(p, "read")
  /\ provision' = [provision EXCEPT ![p].step = "record", ![p].state = recorded]
  /\ UNCHANGED lock
  /\ Files /\ Rest

RecordInstall(p) ==
  /\ Stage(p, "record")
  /\ \/ /\ recorded' = provision[p].state \cup {Wanted(p)}
        /\ blurred' = (blurred \/ recorded # provision[p].state)
        /\ provision' = [provision EXCEPT ![p].step = "returned", ![p].state = {}]
     \/ UNCHANGED <<recorded, blurred>>
        /\ provision' = [provision EXCEPT ![p] = NoProvision]
  /\ Unlock(p)
  /\ UNCHANGED <<chosen, tree, mishaps>>

-----------------------------------------------------------------------------
(* What happens to them. *)

Mishap == mishaps < MaxMishaps /\ mishaps' = mishaps + 1

\* A user edits the environment file: another version of a tool.
EditVersion ==
  /\ Mishap
  /\ \E t \in InternalTool, v \in Version : chosen[t] # v /\ chosen' = [chosen EXCEPT ![t] = v]
  /\ UNCHANGED <<recorded, tree, lock, provision, blurred>>

\* A user removes an installation; the record stays.
RemoveInstallation ==
  /\ Mishap
  /\ \E i \in Install :
        tree[i] # "absent" /\ tree' = [tree EXCEPT ![i] = "absent"]
  /\ blurred' = TRUE
  /\ UNCHANGED <<chosen, recorded, lock, provision>>

\* A process is killed, with the lock in its hands.
KillProvisioner(p) ==
  /\ provision[p].step \notin {"idle", "returned"}
  /\ Mishap
  /\ provision' = [provision EXCEPT ![p] = NoProvision]
  /\ chosen' = IF Stage(p, "write") THEN [t \in InternalTool |-> Unset] ELSE chosen
  /\ UNCHANGED <<recorded, tree, lock, blurred>>

\* removeStaleCacheLock, by the age of the file: its owner is gone, or takes too long.
BreakLock(t) ==
  /\ lock[t] # Unset
  /\ \E p \in Provisioner : Stage(p, "wait") /\ provision[p].tool = t
  /\ lock' = [lock EXCEPT ![t] = Unset]
  /\ LET held == provision[lock[t]].tool = t /\ provision[lock[t]].step \notin {"idle", "look",
                                                                  "write", "wait", "returned"}
     IN  /\ blurred' = (blurred \/ held)
         /\ IF held THEN Mishap ELSE UNCHANGED mishaps
  /\ Files /\ UNCHANGED provision

InternalNext ==
  \/ EditVersion \/ RemoveInstallation
  \/ \E t \in InternalTool : BreakLock(t)
  \/ \E p \in Provisioner :
        \/ \E t \in InternalTool : Request(p, t)
        \/ WriteVersion(p) \/ FastPath(p) \/ Acquire(p) \/ LookAgain(p) \/ Fetch(p)
        \/ RemoveTree(p) \/ RenameTree(p) \/ Configure(p) \/ ReadState(p) \/ RecordInstall(p)
        \/ KillProvisioner(p)

InternalSpec == InternalInit /\ [][InternalNext]_internalVars

-----------------------------------------------------------------------------
(* Correctness. *)

\* The types.
InternalTypeOK ==
  /\ chosen \in [InternalTool -> Version \cup {Unset}]
  /\ recorded \subseteq Install
  /\ tree \in [Install -> {"absent", "bare", "whole"}]
  /\ lock \in [InternalTool -> Provisioner \cup {Unset}]
  /\ \A p \in Provisioner : provision[p].state \subseteq Install
  /\ mishaps \in 0..MaxMishaps /\ blurred \in BOOLEAN

\* The tool that EnsureInternalTool has returned stays installed and configured while polka
\* runs it, whichever processes provision it or other tools meanwhile and wherever they are
\* killed: until the record of an installation is lost to a process that writes back an
\* older copy of installed.json, an installation is removed by hand, or the lock of a slow
\* owner is taken for stale.
ReturnedIsWhole ==
  ~blurred => \A p \in Provisioner : Stage(p, "returned") => tree[Wanted(p)] = "whole"
=============================================================================
