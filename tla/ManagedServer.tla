---------------------------- MODULE ManagedServer ----------------------------
(***************************************************************************)
(* The run state of one managed service of one environment: the server     *)
(* process, the state file run/<service>/<environment>.json that names it, *)
(* and the commands that start and stop it (service/redis.go, meilisearch, *)
(* traefik, mailpit, rabbitmq and database).  Nothing is locked: a command *)
(* reads the file and pings, acts, and writes or removes the file.         *)
(*                                                                         *)
(* Processes share the table of PIDs with processes of others, which may   *)
(* listen on the service's port and may get the PID of a dead server.      *)
(***************************************************************************)
EXTENDS Naturals, FiniteSets

CONSTANTS Command,    \* processes that run polka commands
          Pid,
          Port,
          Nobody,     \* not a process
          NoPid,
          DefaultPort, DefaultSecond, \* the ports of a config that gives none
          MaxVersion, \* bound: versions of the service
          MaxEdits,   \* bound: edits of the config
          MaxOthers   \* bound: processes of others at one time

Kind == {"redis", "meilisearch", "traefik", "mailpit", "rabbitmq", "mysql", "postgresql"}

ASSUME ServerAssumption ==
  /\ Nobody \notin Pid /\ NoPid \notin Pid
  /\ {DefaultPort, DefaultSecond} \subseteq Port /\ DefaultPort # DefaultSecond
  /\ MaxVersion \in Nat \ {0} /\ MaxEdits \in Nat /\ MaxOthers \in Nat

\* The service's part of the config.  "second" is Mailpit's UI port and RabbitMQ's
\* management port; "option" is a password, a master key, https or an account.
Settings == [version : 1 .. MaxVersion, port : Port, second : Port, option : BOOLEAN]
Blank == [version |-> 1, port |-> DefaultPort, second |-> DefaultSecond, option |-> FALSE]

\* The contents of the state file: none, what a write that was cut off leaves, or the
\* PID and the settings of the server.
Absent  == [at |-> "absent",  pid |-> NoPid, settings |-> Blank]
Garbled == [at |-> "garbled", pid |-> NoPid, settings |-> Blank]
Recorded(x, s) == [at |-> "recorded", pid |-> x, settings |-> s]

VARIABLES
  kind,     \* the service; never changes
  config,   \* its settings in the config
  edits,    \* edits so far
  file,     \* the state file
  proc,     \* proc[x]: the process with PID x
  defaults, \* port in the client defaults file of a MySQL or MariaDB server
  at,       \* at[c]: where a command is
  job,      \* job[c]: its copy of the settings, and the state it has read or built
  alone,    \* history: alone[c]: no other command has run beside c
  excused   \* history: servers that a kill, a race or an answer of others left unnamed

serverVars == <<kind, config, edits, file, proc, defaults, at, job, alone, excused>>

Label == {"idle", "ensure", "clear", "launch", "wait", "write", "fill", "undo",
          "load", "discard", "signal", "drain", "remove", "done"}
Process == [owner : {"polka", "other"}, ports : SUBSET Port,
            status : {"starting", "up", "closing"}, settings : Settings]
NoJob == [settings |-> Blank, state |-> Absent]

Alive(x) == x \in Pid /\ proc[x] # Nobody
Server(x) == Alive(x) /\ proc[x].owner = "polka"
\* A TCP ping.
Answers(port) == \E x \in Pid : Alive(x) /\ proc[x].status = "up" /\ port \in proc[x].ports
Running(c) == at[c] \notin {"idle", "done"}
Children == {job[c].state.pid : c \in {d \in Command : at[d] \in {"wait", "write", "fill", "undo"}}}

-----------------------------------------------------------------------------
(* What the services differ in. *)

RedisRunsThere(state, s) == state.version = s.version /\ state.port = s.port
RedisMatches(state, s) ==
  state.version = s.version /\ state.port = s.port /\ state.option = s.option
MeilisearchMatches(state, s) ==
  state.version = s.version /\ state.port = s.port /\ state.option = s.option
TraefikMatches(state, s) == state.version = s.version /\ state.port = s.port
MailpitMatches(state, s) == state = s
RabbitMQMatches(state, s) == state = s
\* Not the port.
DatabaseMatches(state, s) == state.version = s.version

RedisIsLive(r) == Answers(r.settings.port)
MeilisearchIsLive(r) == Answers(r.settings.port)
TraefikIsLive(r) == Answers(r.settings.port)
MailpitIsLive(r) ==
  Alive(r.pid) /\ Answers(r.settings.port) /\ Answers(r.settings.second)
RabbitMQIsLive(r) == Answers(r.settings.port)
DatabaseIsLive(r) == Alive(r.pid) /\ Answers(r.settings.port)

Matches(state, s) ==
  CASE kind = "redis"       -> RedisMatches(state, s)
    [] kind = "meilisearch" -> MeilisearchMatches(state, s)
    [] kind = "traefik"     -> TraefikMatches(state, s)
    [] kind = "mailpit"     -> MailpitMatches(state, s)
    [] kind = "rabbitmq"    -> RabbitMQMatches(state, s)
    [] OTHER                -> DatabaseMatches(state, s)

IsLive(r) ==
  CASE kind = "redis"       -> RedisIsLive(r)
    [] kind = "meilisearch" -> MeilisearchIsLive(r)
    [] kind = "traefik"     -> TraefikIsLive(r)
    [] kind = "mailpit"     -> MailpitIsLive(r)
    [] kind = "rabbitmq"    -> RabbitMQIsLive(r)
    [] OTHER                -> DatabaseIsLive(r)

\* The fields that the service has: the others are never edited.
Fields ==
  CASE kind \in {"redis", "meilisearch"}   -> {"version", "port", "option"}
    [] kind \in {"mailpit", "rabbitmq"}    -> {"version", "port", "second", "option"}
    [] OTHER                               -> {"version", "port"}

\* The addresses the server listens on.
Listens(s) == IF "second" \in Fields THEN {s.port, s.second} ELSE {s.port}

-----------------------------------------------------------------------------

ServerInit ==
  /\ kind \in Kind
  /\ config = Blank
  /\ edits = 0
  /\ file = Absent
  /\ proc = [x \in Pid |-> Nobody]
  /\ defaults = config.port
  /\ at = [c \in Command |-> "idle"]
  /\ job = [c \in Command |-> NoJob]
  /\ alone = [c \in Command |-> FALSE]
  /\ excused = {}

\* Servers that live while two commands run are excused; so are those in xs.
Excuse(xs) ==
  LET crowd == \E c, d \in Command : c # d /\ Running(c) /\ Running(d)
      seen  == xs \cup excused \cup (IF crowd THEN Pid ELSE {})
  IN  excused' = {x \in seen \cap Pid : proc'[x] # Nobody /\ proc'[x].owner = "polka"}

\* A step of a command from one label to another, which keeps its settings and has
\* the state st.
Step(c, from, to, st) ==
  /\ at[c] = from
  /\ at' = [at EXCEPT ![c] = to]
  /\ job' = [job EXCEPT ![c] = IF to \in {"idle", "done"}
                               THEN NoJob ELSE [settings |-> @.settings, state |-> st]]
  /\ alone' = [alone EXCEPT ![c] = @ /\ to \notin {"idle", "done"}]
  /\ UNCHANGED <<kind, config, edits>>

Begin(c, label) ==
  /\ ~Running(c)
  /\ at' = [at EXCEPT ![c] = label]
  /\ job' = [job EXCEPT ![c] = [settings |-> config, state |-> Absent]]
  /\ LET others == {d \in Command \ {c} : Running(d)}
     IN  alone' = [d \in Command |->
                     IF d = c THEN others = {} ELSE alone[d] /\ d \notin others]
  /\ UNCHANGED <<kind, config, edits, file, proc, defaults>>
  /\ Excuse({})

Start(c) == Begin(c, "ensure")
Stop(c) == Begin(c, "load")

-----------------------------------------------------------------------------
(* Starting: EnsureManaged...Started. *)

\* LoadLive...StateForEnvironment.
Judgement(s) ==
  IF file.at = "absent" THEN "none"
  ELSE IF file.at = "garbled" THEN "undecodable"
  ELSE IF ~IsLive(file) THEN "stale"
  ELSE IF Matches(file.settings, s) THEN "started"
  ELSE "different"

Ensure(c) ==
  /\ at[c] = "ensure"
  /\ LET found == Judgement(job[c].settings)
     IN  \/ found = "none" /\ Step(c, "ensure", "launch", Absent)
         \/ found = "stale" /\ Step(c, "ensure", "clear", Absent)
         \/ found = "started" /\ Step(c, "ensure", "done", Absent)
         \/ found \in {"undecodable", "different"} /\ Step(c, "ensure", "idle", Absent)
  /\ UNCHANGED <<file, proc, defaults>>
  /\ Excuse({})

\* os.Remove of a stale state file may fail.
ClearStale(c, from, to) ==
  /\ \/ Step(c, from, to, Absent) /\ file' = Absent
     \/ Step(c, from, "idle", Absent) /\ UNCHANGED file
  /\ UNCHANGED <<proc, defaults>>
  /\ Excuse({})

\* The spec cannot be built (the tool is not installed), the log cannot be opened, or
\* the process cannot be started.
NotLaunched(c) ==
  /\ Step(c, "launch", "idle", Absent)
  /\ UNCHANGED <<file, proc, defaults>>
  /\ Excuse({})

\* A new process with a free PID.  A child that has died keeps its PID until its
\* parent ends.
Spawn(c) ==
  at[c] = "launch" /\ \E x \in Pid \ Children :
     /\ proc[x] = Nobody
     /\ proc' = [proc EXCEPT ![x] = [owner |-> "polka", status |-> "starting",
                                     ports |-> Listens(job[c].settings),
                                     settings |-> job[c].settings]]
     /\ Step(c, "launch", "wait", Recorded(x, job[c].settings))
     /\ Excuse({})
     /\ UNCHANGED file

Free(s) == \A p \in Listens(s) : ~Answers(p)

LaunchRedis(c) == kind = "redis" /\ Spawn(c) /\ UNCHANGED defaults
LaunchMeilisearch(c) == kind = "meilisearch" /\ Spawn(c) /\ UNCHANGED defaults
LaunchTraefik(c) == kind = "traefik" /\ Spawn(c) /\ UNCHANGED defaults
LaunchMailpit(c) ==
  at[c] = "launch" /\ kind = "mailpit" /\ Free(job[c].settings) /\ Spawn(c) /\ UNCHANGED defaults
LaunchRabbitMQ(c) == kind = "rabbitmq" /\ Spawn(c) /\ UNCHANGED defaults
\* The credential files are written before, the data directory is initialized before.
LaunchDatabase(c) ==
  /\ at[c] = "launch" /\ kind \in {"mysql", "postgresql"}
  /\ Free(job[c].settings) /\ Spawn(c)
  /\ defaults' = job[c].settings.port

Launch(c) ==
  \/ NotLaunched(c)
  \/ LaunchRedis(c)
  \/ LaunchMeilisearch(c)
  \/ LaunchTraefik(c)
  \/ LaunchMailpit(c)
  \/ LaunchRabbitMQ(c)
  \/ LaunchDatabase(c)

\* The broker that rabbitmqctl reaches, by the name of its node: one at most.
Brokers == {x \in Pid : Server(x) /\ proc[x].status = "up"}

\* The PID file that the running broker has written.
BrokerPid(x) == IF Brokers = {} THEN x ELSE CHOOSE y \in Brokers : TRUE

\* WaitFor...: whoever answers; Mailpit waits for both of its ports.
Awaited(s) == IF kind = "mailpit" THEN Listens(s) ELSE {s.port}
Answered(c) == \A p \in Awaited(job[c].settings) : Answers(p)

\* reconcileRabbitMQCredentials needs the broker itself; the process ID is the
\* broker's.
BrokerReady(c) == kind = "rabbitmq" => Brokers # {}
StartedPidUnread(c) == IF kind = "rabbitmq" THEN NoPid ELSE job[c].state.pid
StartedPid(c) ==
  IF kind = "rabbitmq" THEN BrokerPid(job[c].state.pid) ELSE job[c].state.pid

Wait(c) ==
  /\ at[c] = "wait" /\ Answered(c) /\ BrokerReady(c)
  /\ Step(c, "wait", "write", Recorded(StartedPid(c), job[c].settings))
  /\ UNCHANGED <<file, proc, defaults>>
  /\ Excuse({x \in {job[c].state.pid} : ~(Server(x) /\ proc[x].status = "up")})

\* kill -9; a child that has exited is no process any more.
Killed(x) == [y \in Pid |-> IF y = x THEN Nobody ELSE proc[y]]

\* The startup timeout, a failure of the credentials or of the PostgreSQL bootstrap:
\* the child is killed.
GiveUp(c) ==
  /\ at[c] = "wait"
  /\ ~Answered(c) \/ kind \in {"rabbitmq", "postgresql"}
  /\ Step(c, "wait", "idle", Absent)
  /\ proc' = Killed(job[c].state.pid)
  /\ UNCHANGED <<file, defaults>>
  /\ Excuse({})

\* os.WriteFile: the file is emptied and then written; either may fail, and then the
\* server is stopped.
WriteState(c) ==
  /\ \/ Step(c, "write", "fill", job[c].state) /\ file' = Garbled
     \/ Step(c, "write", "undo", job[c].state) /\ UNCHANGED file
  /\ UNCHANGED <<proc, defaults>>
  /\ Excuse({})

FillState(c) ==
  /\ \/ Step(c, "fill", "done", Absent) /\ file' = job[c].state
     \/ Step(c, "fill", "undo", job[c].state) /\ UNCHANGED file
  /\ UNCHANGED <<proc, defaults>>
  /\ Excuse({})

\* The result of StopServer is ignored; only the shutdown of a database can fail.
UndoForgotten(c) ==
  Step(c, "undo", "idle", Absent) /\ UNCHANGED <<proc, file, defaults>> /\ Excuse({})
Undo(c) ==
  /\ Step(c, "undo", "idle", Absent)
  /\ \/ proc' = Killed(job[c].state.pid) /\ Excuse({})
     \/ /\ kind \in {"mysql", "postgresql"} /\ UNCHANGED proc
        /\ Excuse({job[c].state.pid})
  /\ UNCHANGED <<file, defaults>>

-----------------------------------------------------------------------------
(* Stopping: StopManaged... *)

\* LoadLive...State: the settings in the config do not matter.
LoadLive(c) ==
  /\ at[c] = "load"
  /\ \/ file.at = "absent" /\ Step(c, "load", "done", Absent)
     \/ file.at = "garbled" /\ Step(c, "load", "idle", Absent)
     \/ file.at = "recorded" /\ ~IsLive(file) /\ Step(c, "load", "discard", Absent)
     \/ file.at = "recorded" /\ IsLive(file) /\ Step(c, "load", "signal", file)
  /\ UNCHANGED <<file, proc, defaults>>
  /\ Excuse({})

\* polka status loads the state as a stop does, and what it loads is all it needs.
Status(c) ==
  Step(c, "signal", "idle", Absent) /\ UNCHANGED <<file, proc, defaults>> /\ Excuse({})

\* stopServicePID kills whatever has the PID, or is not permitted to.
KillRecorded(c) ==
  /\ \/ Step(c, "signal", "drain", job[c].state) /\ proc' = Killed(job[c].state.pid)
     \/ Step(c, "signal", "idle", Absent) /\ UNCHANGED proc
  /\ UNCHANGED <<file, defaults>>
  /\ Excuse({})

StopRedis(c) == kind = "redis" /\ KillRecorded(c)
StopMeilisearch(c) == kind = "meilisearch" /\ KillRecorded(c)
StopTraefik(c) == kind = "traefik" /\ KillRecorded(c)
StopMailpit(c) == kind = "mailpit" /\ KillRecorded(c)

Closing(xs) ==
  [x \in Pid |-> IF x \in xs THEN [proc[x] EXCEPT !.status = "closing"] ELSE proc[x]]

\* rabbitmqctl shutdown reaches the node by its name; whether it did is ignored.
StopRabbitMQ(c) ==
  /\ kind = "rabbitmq"
  /\ Step(c, "signal", "drain", job[c].state)
  /\ proc' = Closing(Brokers) \/ UNCHANGED proc
  /\ UNCHANGED <<file, defaults>>
  /\ Excuse({})

\* The servers that the engine's admin program reaches: mysqladmin through the port in
\* the defaults file, pg_ctl through the data directory.
Administered ==
  {x \in Pid : /\ Server(x)
               /\ kind = "mysql" => proc[x].status = "up" /\ defaults \in proc[x].ports}

StopDatabase(c) ==
  /\ at[c] = "signal" /\ kind \in {"mysql", "postgresql"}
  /\ \/ /\ ~Answers(job[c].state.settings.port)
        /\ Step(c, "signal", "remove", job[c].state)
        /\ UNCHANGED proc
     \/ /\ Answers(job[c].state.settings.port) /\ Administered # {}
        /\ Step(c, "signal", "drain", job[c].state)
        /\ proc' = Closing(Administered)
     \/ /\ Answers(job[c].state.settings.port)
        /\ Step(c, "signal", "idle", Absent)
        /\ UNCHANGED proc
  /\ UNCHANGED <<file, defaults>>
  /\ Excuse({})

\* The wait for the end of the server, and its timeout.
Drain(c) ==
  at[c] = "drain" /\
  LET listening == IF kind \in {"rabbitmq", "mysql", "postgresql"}
                   THEN Answers(job[c].state.settings.port)
                   ELSE IsLive(job[c].state)
  IN  /\ \/ ~listening /\ Step(c, "drain", "remove", job[c].state) /\ UNCHANGED proc
         \/ /\ listening /\ kind = "rabbitmq"
            /\ Step(c, "drain", "remove", job[c].state)
            /\ proc' = Killed(job[c].state.pid)
         \/ listening /\ Step(c, "drain", "idle", Absent) /\ UNCHANGED proc
      /\ UNCHANGED <<file, defaults>>
      /\ Excuse({})

RemoveState(c) == ClearStale(c, "remove", "done")

CommandStep(c) ==
  \/ Start(c)
  \/ Stop(c)
  \/ Ensure(c)
  \/ ClearStale(c, "clear", "launch")
  \/ Launch(c)
  \/ Wait(c)
  \/ GiveUp(c)
  \/ WriteState(c)
  \/ FillState(c)
  \/ Undo(c)
  \/ LoadLive(c)
  \/ ClearStale(c, "discard", "done")
  \/ Status(c)
  \/ StopRedis(c)
  \/ StopMeilisearch(c)
  \/ StopTraefik(c)
  \/ StopMailpit(c)
  \/ StopRabbitMQ(c)
  \/ StopDatabase(c)
  \/ Drain(c)
  \/ RemoveState(c)

-----------------------------------------------------------------------------
(* Everything else. *)

\* The command is killed; the server it has started is not.
KillCommand(c) ==
  /\ Running(c)
  /\ at' = [at EXCEPT ![c] = "idle"]
  /\ job' = [job EXCEPT ![c] = NoJob]
  /\ alone' = [alone EXCEPT ![c] = FALSE]
  /\ UNCHANGED <<kind, config, edits, file, proc, defaults>>
  /\ Excuse({job[c].state.pid})

ProcessStep == UNCHANGED <<kind, config, edits, file, defaults, at, job, alone>>

\* RABBITMQ_NODENAME: one node of the name at a time, until its process has ended.
NodeTaken == kind = "rabbitmq" /\ \E y \in Pid : Server(y) /\ proc[y].status # "starting"

\* A starting server binds its ports, or ends if one, or the broker's name, is taken.
Bind(x) ==
  /\ Server(x) /\ proc[x].status = "starting"
  /\ IF NodeTaken \/ \E p \in proc[x].ports : Answers(p)
     THEN proc' = Killed(x)
     ELSE proc' = [proc EXCEPT ![x].status = "up"]
  /\ ProcessStep /\ Excuse({})

\* A process ends.
End(x) == Alive(x) /\ proc' = Killed(x) /\ ProcessStep /\ Excuse({})

\* A process of somebody else starts; it may listen on a port.
OtherStarts(x) ==
  /\ Cardinality({y \in Pid : Alive(y) /\ proc[y].owner = "other"}) < MaxOthers
  /\ x \notin Children /\ proc[x] = Nobody
  /\ \E ports \in {{}} \cup {{p} : p \in {q \in Port : ~Answers(q)}} :
        proc' = [proc EXCEPT ![x] = [owner |-> "other", status |-> "up",
                                     ports |-> ports, settings |-> Blank]]
  /\ ProcessStep /\ Excuse({})

EditConfig ==
  /\ edits < MaxEdits /\ edits' = edits + 1
  /\ \E s \in Settings, f \in Fields :
        /\ s # config /\ config' = s
        /\ \A g \in DOMAIN s \ {f} : s[g] = config[g]
  /\ UNCHANGED <<kind, file, proc, defaults, at, job, alone>>
  /\ Excuse({})

\* Other commands write the credential files anew, without starting anything.
RefreshDefaults ==
  /\ kind = "mysql" /\ defaults' = config.port
  /\ UNCHANGED <<kind, config, edits, file, proc, at, job, alone>>
  /\ Excuse({})

ServerNext ==
  \/ \E c \in Command : CommandStep(c) \/ KillCommand(c)
  \/ \E x \in Pid : Bind(x) \/ End(x) \/ OtherStarts(x)
  \/ EditConfig
  \/ RefreshDefaults

ServerSpec == ServerInit /\ [][ServerNext]_serverVars

-----------------------------------------------------------------------------

\* The variables hold values of their types.
ServerTypeOK ==
  /\ kind \in Kind /\ config \in Settings /\ edits \in 0 .. MaxEdits
  /\ file \in [at : {"absent", "garbled", "recorded"}, pid : Pid \cup {NoPid},
              settings : Settings]
  /\ (file.pid = NoPid) <=> (file.at # "recorded")
  /\ \A x \in Pid : proc[x] = Nobody \/ proc[x] \in Process
  /\ defaults \in Port
  /\ at \in [Command -> Label]
  /\ \A c \in Command : job[c].settings \in Settings
  /\ alone \in [Command -> BOOLEAN]
  /\ excused \subseteq Pid

\* No server is lost: a server of ours that runs is named by the state file or is in
\* the hands of a running command, unless the command that had it was killed, two
\* commands ran at once, another process answered in its place when it was started, or
\* the shutdown of a database failed after its state could not be written.  Errors,
\* timeouts, edits of the config and servers that end never lose one.
NoServerLost ==
  \A x \in Pid :
     Server(x) /\ proc[x].status # "closing" =>
        \/ file.at = "recorded" /\ file.pid = x
        \/ \E c \in Command : Running(c) /\ job[c].state.pid = x
        \/ x \in excused

\* A success is true.  When a stop that ran alone reports one, no server of ours
\* listens, but for a server lost before (StopManaged...).  When a start that ran alone
\* reports one, the state file has the settings of the config it was given, in every
\* field of the service but for a database's port, which is not compared
\* (EnsureManaged...Started, ...StateMatchesEnvironment).
SuccessStep ==
  \A c \in Command : alone[c] /\ at'[c] = "done" =>
    /\ at[c] \in {"load", "discard", "remove"} =>
          \A x \in Pid : Server(x)' /\ proc'[x].status # "closing" => x \in excused'
    /\ at[c] \in {"ensure", "fill"} =>
          /\ file'.at = "recorded"
          /\ \A f \in Fields \ (IF kind \in {"mysql", "postgresql"} THEN {"port"} ELSE {}) :
                file'.settings[f] = job[c].settings[f]
SuccessIsTrue == [][SuccessStep]_serverVars
=============================================================================
