------------------------------- MODULE Workers -------------------------------
(***************************************************************************)
(* The configured workers of one environment (service/workers.go): every   *)
(* worker has a command and a number of replicas; one state file names the *)
(* process of each replica.  A start keeps what matches the config and     *)
(* replaces everything otherwise; failures of single replicas are only     *)
(* warned about.                                                           *)
(***************************************************************************)
EXTENDS Naturals, FiniteSets

CONSTANTS Worker,       \* names of workers
          MaxReplicas,  \* bound: replicas of one worker
          WorkerPid,
          Runner,       \* processes that run polka commands
          NoProcess,
          Stranger,     \* a process of somebody else
          MaxWorkerEdits \* bound: edits of the config

WorkersAssumption == MaxReplicas \in Nat \ {0} /\ MaxWorkerEdits \in Nat

\* A worker's command line: two of them; a worker that is not configured has no replica.
Configured == [Worker -> [replicas : 0 .. MaxReplicas, command : {"old", "new"}]]
\* WorkerProcessState.
Replica == [name : Worker, replica : 1 .. MaxReplicas, command : {"old", "new"}]

VARIABLES
  workers,     \* the config
  workerEdits,
  state,       \* the state file: "absent", "garbled", or what it names: see named
  named,       \* named[x]: the replica that the state file says has PID x
  process,     \* process[x]: the replica that has PID x, a stranger, or NoProcess
  step,        \* step[r]: where a command is
  work,        \* work[r]: its copy of the config, what it has read or started, and
               \* the replicas it has to start
  single,      \* history: single[r]: no other command has run beside r
  forgiven     \* history: processes that a kill, a race or a failed stop left unnamed

workersVars == <<workers, workerEdits, state, named, process, step, work, single, forgiven>>

Nothing == [x \in {} |-> NoProcess]
NoWork == [config |-> [w \in Worker |-> [replicas |-> 0, command |-> "old"]],
           known |-> Nothing, todo |-> {}]

Alive(x) == process[x] # NoProcess
Ours(x) == process[x] \notin {NoProcess, Stranger}
Active(r) == step[r] \notin {"idle", "done"}

\* The replicas that a config asks for.
Replicas(config) ==
  {p \in Replica : /\ p.replica <= config[p.name].replicas
                   /\ p.command = config[p.name].command}

WorkersInit ==
  /\ workers \in [Worker -> [replicas : 1 .. MaxReplicas, command : {"old"}]]
  /\ workerEdits = 0
  /\ state = "absent" /\ named = Nothing
  /\ process = [x \in WorkerPid |-> NoProcess]
  /\ step = [r \in Runner |-> "idle"]
  /\ work = [r \in Runner |-> NoWork]
  /\ single = [r \in Runner |-> FALSE]
  /\ forgiven = {}

Forgive(xs) ==
  LET crowd == \E r, q \in Runner : r # q /\ Active(r) /\ Active(q)
      seen  == xs \cup forgiven \cup (IF crowd THEN WorkerPid ELSE {})
  IN  forgiven' = {x \in seen \cap WorkerPid : process'[x] \notin {NoProcess, Stranger}}

Move(r, from, to, known, todo) ==
  /\ step[r] = from
  /\ step' = [step EXCEPT ![r] = to]
  /\ work' = [work EXCEPT ![r] = IF to \in {"idle", "done"} THEN NoWork
                                 ELSE [config |-> @.config, known |-> known, todo |-> todo]]
  /\ single' = [single EXCEPT ![r] = @ /\ to \notin {"idle", "done"}]
  /\ UNCHANGED <<workers, workerEdits>>

Begin(r, label) ==
  /\ ~Active(r)
  /\ step' = [step EXCEPT ![r] = label]
  /\ work' = [work EXCEPT ![r] = [NoWork EXCEPT !.config = workers]]
  /\ LET others == {q \in Runner \ {r} : Active(q)}
     IN  single' = [q \in Runner |-> IF q = r THEN others = {} ELSE single[q] /\ q \notin others]
  /\ UNCHANGED <<workers, workerEdits, state, named, process>>
  /\ Forgive({})

StartWorkers(r) == (\E w \in Worker : workers[w].replicas > 0) /\ Begin(r, "ensure")
StopWorkers(r) == Begin(r, "load")

-----------------------------------------------------------------------------
(* The state file. *)

\* LoadLiveWorkersState: the entries whose PID is alive, whoever has it.
LiveEntries == {x \in DOMAIN named : Alive(x)}
Restrict(f, S) == [x \in S |-> f[x]]

\* The file is unreadable; there is none; all its processes are gone and it is removed;
\* or some are alive.
LoadState(r, from, none, some) ==
  \/ state = "garbled" /\ Move(r, from, "idle", Nothing, {}) /\ UNCHANGED <<state, named>>
  \/ state = "absent" /\ Move(r, from, none, Nothing, {}) /\ UNCHANGED <<state, named>>
  \/ /\ state = "names" /\ LiveEntries = {}
     /\ \/ Move(r, from, none, Nothing, {}) /\ state' = "absent" /\ named' = Nothing
        \/ Move(r, from, "idle", Nothing, {}) /\ UNCHANGED <<state, named>>
  \/ /\ state = "names" /\ LiveEntries # {}
     /\ Move(r, from, some, Restrict(named, LiveEntries), {})
     /\ UNCHANGED <<state, named>>

\* WorkersStateMatchesEnvironment: names, commands and numbers of replicas.
WorkersStateMatches(known, config) ==
  \A w \in Worker :
     LET entries == {x \in DOMAIN known : known[x].name = w}
     IN  /\ Cardinality(entries) = config[w].replicas
         /\ \A x \in entries : known[x].command = config[w].command

\* stopWorkerProcesses: a process that cannot be killed is only warned about.
StopProcesses(known) ==
  \E stuck \in SUBSET DOMAIN known :
     /\ process' = [x \in WorkerPid |->
                      IF x \in DOMAIN known \ stuck THEN NoProcess ELSE process[x]]
     /\ Forgive(stuck)

\* removeWorkersState.
RemoveState(r, from, to) ==
  /\ \/ Move(r, from, to, Nothing, {}) /\ state' = "absent" /\ named' = Nothing
     \/ Move(r, from, "idle", Nothing, {}) /\ UNCHANGED <<state, named>>
  /\ UNCHANGED process
  /\ Forgive({})

-----------------------------------------------------------------------------
(* EnsureManagedWorkersStarted. *)

EnsureLoad(r) == LoadState(r, "ensure", "build", "match") /\ UNCHANGED process /\ Forgive({})

EnsureMatch(r) ==
  /\ \/ WorkersStateMatches(work[r].known, work[r].config) /\ Move(r, "match", "done", Nothing, {})
     \/ ~WorkersStateMatches(work[r].known, work[r].config)
        /\ Move(r, "match", "replace", work[r].known, {})
  /\ UNCHANGED <<state, named, process>>
  /\ Forgive({})

\* Reconciling: what is left is stopped and forgotten, and everything starts again.
ReplaceUnstopped(r) ==
  /\ Move(r, "replace", "forget", Nothing, {})
  /\ UNCHANGED <<state, named, process>>
  /\ Forgive({})
Replace(r) ==
  /\ Move(r, "replace", "forget", Nothing, {})
  /\ StopProcesses(work[r].known)
  /\ UNCHANGED <<state, named>>

Forget(r) == RemoveState(r, "forget", "build")

\* BuildWorkerSpecs: an environment that cannot be built is an error; workers whose
\* command cannot be split or resolved are skipped with a warning.
BuildWorkerSpecs(r) ==
  /\ \/ Move(r, "build", "idle", Nothing, {})
     \/ \E skipped \in SUBSET Worker :
           Move(r, "build", "start", Nothing,
                {p \in Replicas(work[r].config) : p.name \notin skipped})
  /\ UNCHANGED <<state, named, process>>
  /\ Forgive({})

\* StartWorkerProcess: in the order of their names; a replica that fails is skipped.
\* The check that the process has not exited at once may see the zombie of a process
\* that has, and then records its PID.
StartReplica(r) ==
  \E p \in work[r].todo :
     LET known == work[r].known
         rest  == work[r].todo \ {p}
     IN  /\ \/ /\ Move(r, "start", "start", known, rest)
               /\ UNCHANGED process
            \/ \E x \in WorkerPid \ DOMAIN known :
                  /\ process[x] = NoProcess
                  /\ Move(r, "start", "start",
                          [y \in DOMAIN known \cup {x} |-> IF y = x THEN p ELSE known[y]], rest)
                  /\ \/ process' = [process EXCEPT ![x] = p]
                     \/ UNCHANGED process
         /\ UNCHANGED <<state, named>>
         /\ Forgive({})

\* Nothing has started: no state file, and no error.
NoneStarted(r) ==
  /\ work[r].todo = {} /\ work[r].known = Nothing
  /\ Move(r, "start", "done", Nothing, {})
  /\ UNCHANGED <<state, named, process>>
  /\ Forgive({})

\* WriteWorkersState: the file is emptied, then written; if either fails, everything
\* that was started is stopped.
WriteWorkersState(r) ==
  /\ work[r].todo = {} /\ work[r].known # Nothing
  /\ \/ /\ Move(r, "start", "fill", work[r].known, {})
        /\ state' = "garbled" /\ named' = Nothing
     \/ /\ Move(r, "start", "undo", work[r].known, {})
        /\ UNCHANGED <<state, named>>
  /\ UNCHANGED process
  /\ Forgive({})

FillWorkersState(r) ==
  /\ \/ /\ Move(r, "fill", "done", Nothing, {})
        /\ state' = "names" /\ named' = work[r].known
     \/ Move(r, "fill", "undo", work[r].known, {}) /\ UNCHANGED <<state, named>>
  /\ UNCHANGED process
  /\ Forgive({})

Undo(r) ==
  /\ Move(r, "undo", "idle", Nothing, {})
  /\ StopProcesses(work[r].known)
  /\ UNCHANGED <<state, named>>

-----------------------------------------------------------------------------
(* StopManagedWorkers. *)

StopLoad(r) == LoadState(r, "load", "done", "stop") /\ UNCHANGED process /\ Forgive({})

StopAll(r) ==
  /\ Move(r, "stop", "remove", Nothing, {})
  /\ StopProcesses(work[r].known)
  /\ UNCHANGED <<state, named>>

\* polka status loads the state as a stop does, and only counts the entries.
CountWorkers(r) ==
  /\ Move(r, "stop", "done", Nothing, {})
  /\ UNCHANGED <<state, named, process>>
  /\ Forgive({})

StopRemove(r) == RemoveState(r, "remove", "done")

-----------------------------------------------------------------------------

KillRunner(r) ==
  /\ Active(r)
  /\ step' = [step EXCEPT ![r] = "idle"]
  /\ work' = [work EXCEPT ![r] = NoWork]
  /\ single' = [single EXCEPT ![r] = FALSE]
  /\ UNCHANGED <<workers, workerEdits, state, named, process>>
  /\ Forgive(DOMAIN work[r].known)

Elsewhere == UNCHANGED <<workers, workerEdits, state, named, step, work, single>>

\* A worker, or a process of somebody else, ends.
WorkerEnds(x) ==
  Alive(x) /\ process' = [process EXCEPT ![x] = NoProcess] /\ Elsewhere /\ Forgive({})

\* A PID goes to a process of somebody else, but not while the parent of the dead
\* process that had it still runs.
PidReused(x) ==
  /\ process[x] = NoProcess
  /\ \A r \in Runner : step[r] \in {"start", "fill", "undo"} => x \notin DOMAIN work[r].known
  /\ process' = [process EXCEPT ![x] = Stranger]
  /\ Elsewhere /\ Forgive({})

EditWorkers ==
  /\ workerEdits < MaxWorkerEdits /\ workerEdits' = workerEdits + 1
  /\ \E w \in Worker, replicas \in 0 .. MaxReplicas, command \in {"old", "new"} :
        workers' = [workers EXCEPT ![w] = [replicas |-> replicas, command |-> command]]
  /\ workers' # workers
  /\ UNCHANGED <<state, named, process, step, work, single>>
  /\ Forgive({})

WorkersNext ==
  \/ \E r \in Runner :
        \/ StartWorkers(r)
        \/ EnsureLoad(r)
        \/ EnsureMatch(r)
        \/ Replace(r)
        \/ Forget(r)
        \/ BuildWorkerSpecs(r)
        \/ StartReplica(r)
        \/ NoneStarted(r)
        \/ WriteWorkersState(r)
        \/ FillWorkersState(r)
        \/ Undo(r)
        \/ StopWorkers(r)
        \/ StopLoad(r)
        \/ StopAll(r)
        \/ CountWorkers(r)
        \/ StopRemove(r)
        \/ KillRunner(r)
  \/ \E x \in WorkerPid : WorkerEnds(x) \/ PidReused(x)
  \/ EditWorkers

WorkersSpec == WorkersInit /\ [][WorkersNext]_workersVars

-----------------------------------------------------------------------------

\* The variables hold values of their types.
WorkersTypeOK ==
  /\ workers \in Configured /\ workerEdits \in 0 .. MaxWorkerEdits
  /\ state \in {"absent", "garbled", "names"}
  /\ DOMAIN named \subseteq WorkerPid /\ \A x \in DOMAIN named : named[x] \in Replica
  /\ (named = Nothing) <=> (state # "names")
  /\ \A x \in WorkerPid : process[x] \in Replica \cup {Stranger, NoProcess}
  /\ \A r \in Runner : work[r].config \in Configured /\ work[r].todo \subseteq Replica
  /\ single \in [Runner -> BOOLEAN] /\ forgiven \subseteq WorkerPid

\* No replica is lost or runs twice: when no command runs, every replica that runs is
\* in the state file, and no two processes are the same replica of one worker, unless
\* the command that started one was killed, two commands ran at once, or one could not
\* be stopped.
NoWorkerLost ==
  LET plain == {x \in WorkerPid : Ours(x) /\ x \notin forgiven}
  IN  (\A r \in Runner : ~Active(r)) =>
        /\ plain \subseteq DOMAIN named
        /\ \A x, y \in plain : x # y =>
              process[x].name # process[y].name \/ process[x].replica # process[y].replica
===============================================================================
