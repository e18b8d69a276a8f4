---------------------------- MODULE ServicesProofs ----------------------------
(***************************************************************************)
(* Proofs about the services of an environment: that no server, no worker  *)
(* and no webserver is lost, and that a success tells the truth, for every *)
(* number of commands, PIDs, ports and services.                           *)
(***************************************************************************)
EXTENDS MCServices, Sequences, TLAPS

-----------------------------------------------------------------------------
(* One managed service. *)

FileType == [at : {"absent", "garbled", "recorded"}, pid : Pid \cup {NoPid}, settings : Settings]
Starting == {"wait", "write", "fill", "undo"}
Stopping == {"signal", "drain", "remove"}

\* No two commands run.
Lone == \A c, d \in Command : Running(c) /\ Running(d) => c = d

\* A server that somebody has to know of.
Lost(x) == Server(x) /\ proc[x].status # "closing" /\ x \notin excused
Named(x) == file.at = "recorded" /\ file.pid = x

\* A server that waits at all the addresses that a start with these settings waits for.
Waits(x, s) == proc[x].status = "up" /\ Awaited(s) \subseteq proc[x].ports

Kept(x) == Named(x) /\ Waits(x, file.settings)

\* What a command that runs alone, or none, knows of the servers.
Hands(c) ==
  /\ at[c] \in {"ensure", "load"} \cup Stopping => \A x \in Pid : Lost(x) => Kept(x)
  /\ at[c] \in {"clear", "discard", "launch", "remove"} => \A x \in Pid : ~Lost(x)
  /\ at[c] \in Starting => \A x \in Pid : Lost(x) => x = job[c].state.pid
  /\ at[c] = "wait" => \A x \in Pid : Lost(x) => proc[x].ports = Listens(job[c].settings)
  /\ at[c] \in {"write", "fill"} => \A x \in Pid : Lost(x) => Waits(x, job[c].settings)
  /\ at[c] \in Stopping => \A x \in Pid : Lost(x) => job[c].state = file

ServerTypes ==
  /\ ServerTypeOK
  /\ proc \in [Pid -> Process \cup {Nobody}]
  /\ job \in [Command -> [settings : Settings, state : FileType]]
  /\ \A c \in Command : at[c] \in Starting =>
       /\ job[c].state.at = "recorded" /\ job[c].state.pid \in Pid
       /\ job[c].state.settings = job[c].settings

\* A node name is of one broker at a time.
OneBroker == kind = "rabbitmq" => \A x, y \in Brokers : x = y

AloneInv == \A c \in Command : alone[c] => Running(c) /\ Lone

\* What is known, whoever runs; with two commands, only NoServerLost.
Known ==
  /\ Lone => \A c \in Command : Hands(c)
  /\ (\A c \in Command : ~Running(c)) => \A x \in Pid : Lost(x) => Kept(x)

ServerInv == ServerTypes /\ OneBroker /\ AloneInv /\ Known /\ NoServerLost

-----------------------------------------------------------------------------
\* Whatever Excuse names, and every server when two commands run, is excused.
LEMMA Excused ==
  ASSUME NEW xs, Excuse(xs)
  PROVE  /\ excused' \subseteq Pid
         /\ \A x \in Pid : Server(x)' /\ (x \in xs \/ x \in excused \/ ~Lone) => x \in excused'
BY DEF Excuse, Server, Alive, Lone

\* A step of one command changes no other command's position, settings or record.
LEMMA StepFrame ==
  ASSUME ServerTypes, NEW c \in Command, NEW from \in Label, NEW to \in Label,
         NEW st \in FileType, Step(c, from, to, st)
  PROVE  /\ at[c] = from /\ at'[c] = to /\ at' \in [Command -> Label]
         /\ job' \in [Command -> [settings : Settings, state : FileType]]
         /\ to \notin {"idle", "done"} => job'[c].settings = job[c].settings /\ job'[c].state = st
         /\ \A d \in Command \ {c} : at'[d] = at[d] /\ job'[d] = job[d] /\ alone'[d] = alone[d]
         /\ alone' \in [Command -> BOOLEAN]
         /\ alone'[c] <=> alone[c] /\ to \notin {"idle", "done"}
         /\ UNCHANGED <<kind, config, edits>>
<1> USE DEF ServerTypes, ServerTypeOK, Step
<1>1. NoJob \in [settings : Settings, state : FileType]
  BY ServerAssumption DEF NoJob, Settings, FileType, Blank, Absent
<1>2. alone' = [alone EXCEPT ![c] = alone[c] /\ to \notin {"idle", "done"}]
  OBVIOUS
<1>3. alone[c] \in BOOLEAN
  OBVIOUS
<1>4. job' \in [Command -> [settings : Settings, state : FileType]]
  BY <1>1
<1>5. to \notin {"idle", "done"} => job'[c].settings = job[c].settings /\ job'[c].state = st
  OBVIOUS
<1>6. \A d \in Command \ {c} : at'[d] = at[d] /\ job'[d] = job[d] /\ alone'[d] = alone[d]
  OBVIOUS
<1>7. alone' \in [Command -> BOOLEAN]
  BY <1>2, <1>3
<1>8. alone'[c] <=> alone[c] /\ to \notin {"idle", "done"}
  BY <1>2
<1> QED
  BY <1>4, <1>5, <1>6, <1>7, <1>8

\* What a command's own record may become.
Fits(c, to, st) ==
  /\ st \in FileType
  /\ to \in Starting => /\ st.at = "recorded" /\ st.pid \in Pid
                        /\ st.settings = job[c].settings

Stepped(c) ==
  \E from \in Label \ {"idle", "done"}, to \in Label, st \in FileType :
     Step(c, from, to, st) /\ Fits(c, to, st)

\* Blank, Absent and Garbled are of their types and name no process.
LEMMA Constants ==
  /\ Blank \in Settings /\ Absent \in FileType /\ Garbled \in FileType
  /\ Absent.pid = NoPid /\ Garbled.pid = NoPid
  /\ Absent.at = "absent" /\ Garbled.at = "garbled"
  /\ NoJob \in [settings : Settings, state : FileType] /\ NoJob.state = Absent
BY ServerAssumption DEF Settings, FileType, Blank, Absent, Garbled, NoJob

\* A step that drops the record is a step of a command,
LEMMA ToIdle ==
  ASSUME NEW c \in Command, NEW from \in Label \ {"idle", "done"},
         NEW to \in {"idle", "done", "launch", "clear", "discard"}, Step(c, from, to, Absent)
  PROVE  Stepped(c)
BY Constants DEF Stepped, Fits, Label, Starting

\* and so is one that carries the record along.
LEMMA KeepState ==
  ASSUME ServerTypes, NEW c \in Command, NEW from \in Label \ {"idle", "done"},
         NEW to \in {"fill", "undo", "drain", "remove"},
         from \in Starting \/ to \in {"drain", "remove"}, Step(c, from, to, job[c].state)
  PROVE  Stepped(c)
<1>1. job[c].state \in FileType /\ at[c] = from
  BY DEF ServerTypes, Step
<1>2. Fits(c, to, job[c].state)
  BY <1>1 DEF ServerTypes, Fits, Starting
<1> QED
  BY <1>1, <1>2 DEF Stepped, Label

Begun(c) == Begin(c, "ensure") \/ Begin(c, "load")

\* Every step of a command begins it or moves it along.
LEMMA StepShape ==
  ASSUME ServerTypes, NEW c \in Command, CommandStep(c)
  PROVE  Begun(c) \/ Stepped(c)
<1>0. /\ {"ensure", "clear", "launch", "wait", "write", "fill", "undo", "load", "discard",
          "signal", "drain", "remove"} \subseteq Label \ {"idle", "done"}
      /\ {"idle", "done"} \subseteq Label
      /\ \A d \in Command : job[d].state \in FileType /\ job[d].settings \in Settings
      /\ file \in FileType
  BY DEF Label, ServerTypes, ServerTypeOK, FileType
<1>1. CASE Start(c) \/ Stop(c)
  BY <1>1 DEF Start, Stop, Begun
<1>2. CASE Ensure(c)
  BY <1>0, <1>2, ToIdle DEF Ensure
<1>3. CASE ClearStale(c, "clear", "launch") \/ ClearStale(c, "discard", "done") \/ RemoveState(c)
  BY <1>0, <1>3, ToIdle DEF ClearStale, RemoveState
<1>4. ASSUME Spawn(c)
      PROVE  Stepped(c)
  <2>1. PICK x \in Pid : Step(c, "launch", "wait", Recorded(x, job[c].settings))
    BY <1>4 DEF Spawn
  <2>2. Fits(c, "wait", Recorded(x, job[c].settings))
    BY <1>0 DEF Fits, Recorded, FileType
  <2> QED
    BY <1>0, <2>1, <2>2 DEF Stepped, Fits
<1>5. CASE Launch(c)
  BY <1>0, <1>4, <1>5, ToIdle
  DEF Launch, NotLaunched, LaunchRedis, LaunchMeilisearch, LaunchTraefik, LaunchMailpit,
      LaunchRabbitMQ, LaunchDatabase
<1>6. CASE Wait(c)
  <2>1. at[c] = "wait" /\ job[c].state.pid \in Pid
    BY <1>6 DEF Wait, ServerTypes, Starting
  <2>2. StartedPid(c) \in Pid
    BY <2>1 DEF StartedPid, BrokerPid, Brokers
  <2>3. Fits(c, "write", Recorded(StartedPid(c), job[c].settings))
    BY <1>0, <2>2 DEF Fits, Recorded, FileType
  <2> QED
    BY <1>0, <1>6, <2>3 DEF Stepped, Fits, Wait
<1>7. CASE GiveUp(c) \/ Status(c) \/ Undo(c)
  BY <1>0, <1>7, ToIdle DEF GiveUp, Status, Undo
<1>8. CASE WriteState(c) \/ FillState(c)
  BY <1>0, <1>8, ToIdle, KeepState DEF WriteState, FillState, Starting
<1>9. CASE LoadLive(c)
  <2>1. Fits(c, "signal", file)
    BY <1>0 DEF Fits, Starting
  <2> QED
    BY <1>0, <1>9, <2>1, ToIdle DEF LoadLive, Stepped
<1>10. CASE StopRedis(c) \/ StopMeilisearch(c) \/ StopTraefik(c) \/ StopMailpit(c)
  BY <1>0, <1>10, ToIdle, KeepState
  DEF StopRedis, StopMeilisearch, StopTraefik, StopMailpit, KillRecorded
<1>11. CASE StopRabbitMQ(c) \/ StopDatabase(c)
  BY <1>0, <1>11, ToIdle, KeepState DEF StopRabbitMQ, StopDatabase
<1>12. CASE Drain(c)
  BY <1>0, <1>12, ToIdle, KeepState DEF Drain
<1> QED
  BY <1>1, <1>2, <1>3, <1>5, <1>6, <1>7, <1>8, <1>9, <1>10, <1>11, <1>12 DEF CommandStep

Procs == [Pid -> Process \cup {Nobody}]

\* Killing, closing and opening a server keep the map of processes of its type.
LEMMA ProcShapes ==
  ASSUME proc \in Procs
  PROVE  /\ \A x : Killed(x) \in Procs
         /\ \A xs \in SUBSET Pid : (\A x \in xs : Server(x)) => Closing(xs) \in Procs
         /\ \A x \in Pid : Server(x) => [proc EXCEPT ![x].status = "up"] \in Procs
<1>1. \A x : Killed(x) \in Procs
  BY DEF Procs, Killed
<1>2. ASSUME NEW x \in Pid, Server(x), NEW t \in {"up", "closing"}
      PROVE  [proc[x] EXCEPT !.status = t] \in Process
  BY <1>2 DEF Procs, Server, Alive, Process
<1>3. \A xs \in SUBSET Pid : (\A x \in xs : Server(x)) => Closing(xs) \in Procs
  BY <1>2 DEF Procs, Closing
<1>4. \A x \in Pid : Server(x) => [proc EXCEPT ![x].status = "up"] \in Procs
  BY <1>2 DEF Procs
<1> QED
  BY <1>1, <1>3, <1>4

\* What a step of a command may do to the processes and to the state file.
LEMMA WorldShape ==
  ASSUME ServerTypes, NEW c \in Command, CommandStep(c) \/ KillCommand(c)
  PROVE  /\ file' \in FileType /\ (file'.pid = NoPid <=> file'.at # "recorded")
         /\ proc' \in Procs /\ defaults' \in Port /\ excused' \subseteq Pid
<1>0. /\ file \in FileType /\ (file.pid = NoPid <=> file.at # "recorded")
      /\ proc \in Procs /\ defaults \in Port /\ excused \subseteq Pid
      /\ job[c].settings \in Settings /\ NoPid \notin Pid
  BY ServerAssumption DEF ServerTypes, ServerTypeOK, FileType, Procs
<1> DEFINE Same == UNCHANGED <<file, proc, defaults>>
<1>1. ASSUME NEW xs, Excuse(xs)
      PROVE  excused' \subseteq Pid
  BY <1>1, Excused
<1>2. CASE Start(c) \/ Stop(c) \/ Ensure(c) \/ NotLaunched(c) \/ Wait(c) \/ LoadLive(c)
           \/ Status(c) \/ KillCommand(c)
  <2>1. Same /\ \E xs : Excuse(xs)
    BY <1>2 DEF Start, Stop, Begin, Ensure, NotLaunched, Wait, LoadLive, Status, KillCommand
  <2> QED
    BY <1>0, <1>1, <2>1
<1>3. CASE ClearStale(c, "clear", "launch") \/ ClearStale(c, "discard", "done") \/ RemoveState(c)
  BY <1>0, <1>1, <1>3, Constants DEF ClearStale, RemoveState
<1>4. ASSUME Spawn(c)
      PROVE  proc' \in Procs /\ UNCHANGED file /\ excused' \subseteq Pid
  <2>1. PICK x \in Pid :
          /\ proc' = [proc EXCEPT ![x] = [owner |-> "polka", status |-> "starting",
                                          ports |-> Listens(job[c].settings),
                                          settings |-> job[c].settings]]
          /\ UNCHANGED file /\ Excuse({})
    BY <1>4 DEF Spawn
  <2>2. Listens(job[c].settings) \subseteq Port
    BY <1>0 DEF Listens, Settings
  <2> QED
    BY <1>0, <1>1, <2>1, <2>2 DEF Procs, Process
<1>5. CASE Launch(c)
  <2>1. job[c].settings.port \in Port
    BY <1>0 DEF Settings
  <2> QED
    BY <1>0, <1>2, <1>4, <1>5, <2>1
    DEF Launch, LaunchRedis, LaunchMeilisearch, LaunchTraefik, LaunchMailpit,
        LaunchRabbitMQ, LaunchDatabase
<1>6. CASE GiveUp(c) \/ Undo(c)
  BY <1>0, <1>1, <1>6, ProcShapes DEF GiveUp, Undo
<1>7. CASE WriteState(c) \/ FillState(c)
  <2>1. file' \in {file, Garbled} \/ (at[c] = "fill" /\ file' = job[c].state)
    BY <1>7 DEF WriteState, FillState, Step
  <2>2. at[c] = "fill" => job[c].state \in FileType /\ job[c].state.at = "recorded"
                          /\ job[c].state.pid \in Pid
    BY DEF ServerTypes, Starting
  <2>3. UNCHANGED <<proc, defaults>> /\ Excuse({})
    BY <1>7 DEF WriteState, FillState
  <2> QED
    BY <1>0, <1>1, <2>1, <2>2, <2>3, Constants
<1>8. CASE StopRedis(c) \/ StopMeilisearch(c) \/ StopTraefik(c) \/ StopMailpit(c) \/ Drain(c)
  BY <1>0, <1>1, <1>8, ProcShapes
  DEF StopRedis, StopMeilisearch, StopTraefik, StopMailpit, KillRecorded, Drain
<1>9. CASE StopRabbitMQ(c) \/ StopDatabase(c)
  <2>1. /\ Brokers \in SUBSET Pid /\ Administered \in SUBSET Pid
        /\ \A x \in Brokers \cup Administered : Server(x)
    BY DEF Brokers, Administered
  <2> QED
    BY <1>0, <1>1, <1>9, <2>1, ProcShapes DEF StopRabbitMQ, StopDatabase
<1> QED
  BY <1>2, <1>3, <1>5, <1>6, <1>7, <1>8, <1>9 DEF CommandStep

\* What changes when a command begins.
LEMMA BeginFrame ==
  ASSUME ServerTypes, NEW c \in Command, Begun(c)
  PROVE  /\ ~Running(c) /\ at'[c] \in {"ensure", "load"} /\ at' \in [Command -> Label]
         /\ job' \in [Command -> [settings : Settings, state : FileType]]
         /\ job'[c] = [settings |-> config, state |-> Absent]
         /\ \A d \in Command \ {c} : at'[d] = at[d] /\ job'[d] = job[d]
         /\ \A d \in Command : alone'[d] = IF d = c THEN \A e \in Command \ {c} : ~Running(e)
                                           ELSE alone[d] /\ ~Running(d)
         /\ alone' \in [Command -> BOOLEAN]
         /\ UNCHANGED <<kind, config, edits, file, proc, defaults>> /\ Excuse({})
<1>1. [settings |-> config, state |-> Absent] \in [settings : Settings, state : FileType]
  BY Constants DEF ServerTypes, ServerTypeOK
<1>2. alone \in [Command -> BOOLEAN]
  BY DEF ServerTypes, ServerTypeOK
<1> DEFINE others == {d \in Command \ {c} : Running(d)}
<1>3. alone' = [d \in Command |-> IF d = c THEN others = {} ELSE alone[d] /\ d \notin others]
  BY DEF Begun, Begin
<1>4. \A d \in Command : alone'[d] = IF d = c THEN \A e \in Command \ {c} : ~Running(e)
                                     ELSE alone[d] /\ ~Running(d)
  BY <1>2, <1>3
<1>5. alone' \in [Command -> BOOLEAN]
  BY <1>2, <1>3
<1>6. ~Running(c) /\ Excuse({}) /\ UNCHANGED <<kind, config, edits, file, proc, defaults>>
  BY DEF Begun, Begin
<1>7. /\ job' = [job EXCEPT ![c] = [settings |-> config, state |-> Absent]]
      /\ at' = [at EXCEPT ![c] = "ensure"] \/ at' = [at EXCEPT ![c] = "load"]
  BY DEF Begun, Begin
<1> HIDE DEF others
<1>8. /\ job' \in [Command -> [settings : Settings, state : FileType]]
      /\ job'[c] = [settings |-> config, state |-> Absent]
      /\ \A d \in Command \ {c} : job'[d] = job[d]
  BY <1>1, <1>7 DEF ServerTypes
<1>9. /\ at'[c] \in {"ensure", "load"} /\ at' \in [Command -> Label]
      /\ \A d \in Command \ {c} : at'[d] = at[d]
  BY <1>7 DEF ServerTypes, ServerTypeOK, Label
<1> QED
  BY <1>4, <1>5, <1>6, <1>8, <1>9

\* What changes when a command is killed.
LEMMA KillFrame ==
  ASSUME ServerTypes, NEW c \in Command, KillCommand(c)
  PROVE  /\ Running(c) /\ at'[c] = "idle" /\ at' \in [Command -> Label]
         /\ job' \in [Command -> [settings : Settings, state : FileType]]
         /\ \A d \in Command \ {c} : at'[d] = at[d] /\ job'[d] = job[d] /\ alone'[d] = alone[d]
         /\ alone' \in [Command -> BOOLEAN] /\ ~alone'[c]
         /\ UNCHANGED <<kind, config, edits, file, proc, defaults>>
         /\ Excuse({job[c].state.pid})
BY Constants DEF KillCommand, ServerTypes, ServerTypeOK, Label

\* A step of a command keeps the types.
LEMMA CommandTypes ==
  ASSUME ServerTypes, NEW c \in Command, CommandStep(c) \/ KillCommand(c)
  PROVE  ServerTypes'
<1>0. ASSUME /\ at' \in [Command -> Label] /\ alone' \in [Command -> BOOLEAN]
             /\ job' \in [Command -> [settings : Settings, state : FileType]]
             /\ UNCHANGED <<kind, config, edits>>,
             \A d \in Command : at'[d] \in Starting =>
               /\ job'[d].state.at = "recorded" /\ job'[d].state.pid \in Pid
               /\ job'[d].state.settings = job'[d].settings
      PROVE  ServerTypes'
  BY <1>0, WorldShape DEF ServerTypes, ServerTypeOK, FileType, Procs
<1>1. CASE Begun(c)
  BY <1>0, <1>1, BeginFrame DEF ServerTypes, Starting
<1>2. CASE Stepped(c)
  <2>1. PICK from \in Label \ {"idle", "done"}, to \in Label, st \in FileType :
          Step(c, from, to, st) /\ Fits(c, to, st)
    BY <1>2 DEF Stepped
  <2>2. /\ at'[c] = to /\ at' \in [Command -> Label]
        /\ job' \in [Command -> [settings : Settings, state : FileType]]
        /\ to \notin {"idle", "done"} => job'[c].settings = job[c].settings /\ job'[c].state = st
        /\ \A d \in Command \ {c} : at'[d] = at[d] /\ job'[d] = job[d]
        /\ alone' \in [Command -> BOOLEAN]
        /\ UNCHANGED <<kind, config, edits>>
    BY <2>1, StepFrame
  <2>3. \A d \in Command : at'[d] \in Starting =>
          /\ job'[d].state.at = "recorded" /\ job'[d].state.pid \in Pid
          /\ job'[d].state.settings = job'[d].settings
    BY <2>1, <2>2 DEF Fits, ServerTypes, Starting
  <2> QED
    BY <1>0, <2>2, <2>3
<1>3. CASE KillCommand(c)
  BY <1>0, <1>3, KillFrame DEF ServerTypes, Starting
<1> QED
  BY <1>1, <1>2, <1>3, StepShape

Elsewhere == UNCHANGED <<kind, file, at, job, alone>>

\* A step of the machine or of the user keeps the types.
LEMMA OutsideTypes ==
  ASSUME ServerTypes,
         \/ \E x \in Pid : Bind(x) \/ End(x) \/ OtherStarts(x)
         \/ EditConfig \/ RefreshDefaults
  PROVE  ServerTypes' /\ Elsewhere /\ Excuse({})
<1>0. /\ proc \in Procs /\ config \in Settings /\ defaults \in Port
  BY DEF ServerTypes, ServerTypeOK, Procs
<1>1. ASSUME proc' \in Procs, ProcessStep, Excuse({})
      PROVE  ServerTypes' /\ Elsewhere
  BY <1>1, Excused DEF ServerTypes, ServerTypeOK, Procs, ProcessStep, Elsewhere
<1>2. ASSUME NEW x \in Pid, Bind(x) \/ End(x)
      PROVE  ServerTypes' /\ Elsewhere /\ Excuse({})
  BY <1>0, <1>1, <1>2, ProcShapes DEF Bind, End
<1>3. ASSUME NEW x \in Pid, OtherStarts(x)
      PROVE  ServerTypes' /\ Elsewhere /\ Excuse({})
  <2>1. PICK ports \in {{}} \cup {{p} : p \in {q \in Port : ~Answers(q)}} :
          proc' = [proc EXCEPT ![x] = [owner |-> "other", status |-> "up",
                                       ports |-> ports, settings |-> Blank]]
    BY <1>3 DEF OtherStarts
  <2>2. [owner |-> "other", status |-> "up", ports |-> ports, settings |-> Blank] \in Process
    BY Constants DEF Process
  <2>3. proc' \in Procs
    BY <1>0, <2>1, <2>2 DEF Procs
  <2> QED
    BY <1>1, <1>3, <2>3 DEF OtherStarts
<1>4. CASE EditConfig
  <2>1. config' \in Settings /\ edits' \in 0 .. MaxEdits
    BY <1>4, ServerAssumption DEF EditConfig, ServerTypes, ServerTypeOK
  <2> QED
    BY <1>4, <2>1, Excused DEF EditConfig, ServerTypes, ServerTypeOK, Elsewhere
<1>5. CASE RefreshDefaults
  <2>1. config.port \in Port
    BY <1>0 DEF Settings
  <2> QED
    BY <1>5, <2>1, Excused DEF RefreshDefaults, ServerTypes, ServerTypeOK, Elsewhere
<1> QED
  BY <1>2, <1>3, <1>4, <1>5

\* Without a launch no server comes to be lost, and one that is killed or asked to close is not.
LEMMA Fewer ==
  ASSUME ServerTypes, NEW xs, Excuse(xs),
         \/ proc' = proc
         \/ \E y : proc' = Killed(y)
         \/ \E ys \in SUBSET Pid : proc' = Closing(ys)
  PROVE  \A x \in Pid : Lost(x)' => /\ Lost(x) /\ proc'[x] = proc[x] /\ x \notin xs
                                    /\ \A y : proc' = Killed(y) => x # y
                                    /\ \A ys \in SUBSET Pid : proc' = Closing(ys) => x \notin ys
<1>1. SUFFICES ASSUME NEW x \in Pid, Lost(x)'
      PROVE  /\ Lost(x) /\ proc'[x] = proc[x] /\ x \notin xs
             /\ \A y : proc' = Killed(y) => x # y
             /\ \A ys \in SUBSET Pid : proc' = Closing(ys) => x \notin ys
  OBVIOUS
<1>2. Server(x)' /\ proc'[x].status # "closing" /\ x \notin excused /\ x \notin xs
  BY <1>1, Excused DEF Lost
<1>3. \A y : proc' = Killed(y) => x # y /\ proc'[x] = proc[x]
  BY <1>2 DEF Killed, Server, Alive
<1>4. ASSUME NEW ys \in SUBSET Pid, proc' = Closing(ys)
      PROVE  x \notin ys /\ proc'[x] = proc[x]
  <2>1. ASSUME x \in ys
        PROVE  FALSE
    <3>1. proc'[x] = [proc[x] EXCEPT !.status = "closing"] /\ proc[x] \in Process \cup {Nobody}
      BY <1>4, <2>1 DEF Closing, ServerTypes
    <3>2. CASE proc[x] = Nobody
      <4>1. proc'[x] = [proc[x] EXCEPT !.status = "closing"]
        BY <3>1
      <4> QED
        BY <1>2, <3>1, <3>2 DEF Server, Alive
    <3> QED
      BY <1>2, <3>1, <3>2 DEF Process, Server, Alive
  <2> QED
    BY <1>4, <2>1 DEF Closing
<1> QED
  BY <1>2, <1>3, <1>4 DEF Lost, Server, Alive

\* What is on record and waits is live for the command that looks.
LEMMA LiveIfKept ==
  ASSUME ServerTypes, NEW x \in Pid, Lost(x), Kept(x)
  PROVE  IsLive(file) /\ Answers(file.settings.port) /\ file.at = "recorded" /\ file.pid = x
<1>1. Alive(x) /\ proc[x].status = "up" /\ Awaited(file.settings) \subseteq proc[x].ports
  BY DEF Lost, Server, Kept, Waits
<1>2. \A p \in Awaited(file.settings) : Answers(p)
  BY <1>1 DEF Answers
<1>3. file.settings.port \in Awaited(file.settings)
  BY DEF Awaited, Listens
<1>4. kind = "mailpit" => file.settings.second \in Awaited(file.settings)
  BY DEF Awaited, Listens, Fields
<1> QED
  BY <1>1, <1>2, <1>3, <1>4
  DEF Kept, Named, IsLive, RedisIsLive, MeilisearchIsLive, TraefikIsLive, MailpitIsLive,
      RabbitMQIsLive, DatabaseIsLive

\* What is known after a step of c when no other command runs.
HandsAfter(c) == IF Running(c)' THEN Hands(c)' ELSE \A x \in Pid : Lost(x)' => Kept(x)'

\* When no server is lost, what a command has to know is true.
LEMMA NoneLost ==
  ASSUME NEW c \in Command, \A x \in Pid : ~Lost(x)'
  PROVE  HandsAfter(c)
BY DEF HandsAfter, Hands

\* A server on record stays so while file, fields and processes do.
LEMMA KeptSame ==
  ASSUME ServerTypes, UNCHANGED <<kind, file>>, NEW x \in Pid, proc'[x] = proc[x]
  PROVE  Kept(x)' <=> Kept(x)
BY DEF Kept, Named, Waits, Awaited, Listens, Fields

\* What a start knows after it has looked at the state file,
LEMMA EnsureHands ==
  ASSUME ServerTypes, NEW c \in Command, Hands(c), Ensure(c)
  PROVE  HandsAfter(c)
<1>1. \A x \in Pid : Lost(x) => Kept(x) 
  BY DEF Ensure, Hands
<1>2. \A x \in Pid : Lost(x)' => Lost(x) /\ proc'[x] = proc[x]
  BY Fewer DEF Ensure
<1>3. UNCHANGED <<kind, file>>
  BY DEF Ensure, Step
<1>4. CASE at'[c] \in {"idle", "done"}
  BY <1>1, <1>2, <1>3, <1>4, KeptSame DEF HandsAfter, Running
<1>5. CASE at'[c] \notin {"idle", "done"}
  <2>1. Judgement(job[c].settings) \in {"none", "stale"}
    BY <1>5, StepFrame, Constants DEF Ensure, Label
  <2>2. \A x \in Pid : ~Lost(x)
    BY <1>1, <2>1, LiveIfKept DEF Judgement
  <2> QED
    BY <1>2, <2>2, NoneLost
<1> QED
  BY <1>4, <1>5

\* after it has removed a stale one,
LEMMA ClearHands ==
  ASSUME ServerTypes, NEW c \in Command, Hands(c),
         ClearStale(c, "clear", "launch") \/ ClearStale(c, "discard", "done") \/ RemoveState(c)
  PROVE  HandsAfter(c)
<1>1. at[c] \in {"clear", "discard", "remove"} /\ Excuse({}) /\ UNCHANGED proc
  BY DEF ClearStale, RemoveState, Step
<1> QED
  BY <1>1, Fewer, NoneLost DEF Hands

\* after a spawn, which is what every launch comes down to,
LEMMA SpawnHands ==
  ASSUME ServerTypes, NEW c \in Command, Hands(c), Spawn(c)
  PROVE  HandsAfter(c)
<1>1. PICK x \in Pid :
        /\ proc' = [proc EXCEPT ![x] = [owner |-> "polka", status |-> "starting",
                                        ports |-> Listens(job[c].settings),
                                        settings |-> job[c].settings]]
        /\ Step(c, "launch", "wait", Recorded(x, job[c].settings)) /\ Excuse({})
  BY DEF Spawn
<1>2. Recorded(x, job[c].settings) \in FileType
  BY DEF Recorded, FileType, ServerTypes
<1>3. /\ at[c] = "launch" /\ at'[c] = "wait" /\ UNCHANGED kind
      /\ job'[c].settings = job[c].settings /\ job'[c].state.pid = x
  <2>1. "launch" \in Label /\ "wait" \in Label
    BY DEF Label
  <2>2. /\ at[c] = "launch" /\ at'[c] = "wait" /\ UNCHANGED kind
        /\ job'[c].settings = job[c].settings /\ job'[c].state = Recorded(x, job[c].settings)
    <3>1. Step(c, "launch", "wait", Recorded(x, job[c].settings))
      BY <1>1
    <3> QED
      BY <1>2, <2>1, <3>1, StepFrame
  <2> QED
    BY <2>2 DEF Recorded
<1>4. \A y \in Pid : Lost(y)' => y = x
  <2>1. SUFFICES ASSUME NEW y \in Pid, Lost(y)', y # x
                 PROVE  FALSE
    OBVIOUS
  <2>2. proc'[y] = proc[y]
    BY <1>1, <2>1 DEF ServerTypes
  <2>3. Lost(y)
    BY <1>1, <2>1, <2>2, Excused DEF Lost, Server, Alive
  <2> QED
    BY <1>3, <2>3 DEF Hands
<1>5. proc'[x].ports = Listens(job[c].settings)
  BY <1>1 DEF ServerTypes
<1>6. Listens(job[c].settings)' = Listens(job[c].settings)
  BY <1>3 DEF Listens, Fields
<1> QED
  BY <1>3, <1>4, <1>5, <1>6 DEF HandsAfter, Running, Hands, Starting, Stopping

\* after a launch of any service,
LEMMA LaunchHands ==
  ASSUME ServerTypes, NEW c \in Command, Hands(c), Launch(c)
  PROVE  HandsAfter(c)
<1>1. CASE NotLaunched(c)
  BY <1>1, Fewer, NoneLost DEF NotLaunched, Hands, Step
<1> QED
  BY <1>1, SpawnHands
  DEF Launch, LaunchRedis, LaunchMeilisearch, LaunchTraefik, LaunchMailpit, LaunchRabbitMQ,
      LaunchDatabase

\* after waiting for the server,
LEMMA WaitHands ==
  ASSUME ServerTypes, OneBroker, NEW c \in Command, Hands(c), Wait(c)
  PROVE  HandsAfter(c)
<1> DEFINE child == job[c].state.pid
<1>1. /\ Step(c, "wait", "write", Recorded(StartedPid(c), job[c].settings))
      /\ UNCHANGED <<file, proc, defaults>>
      /\ Excuse({x \in {child} : ~(Server(x) /\ proc[x].status = "up")})
  BY DEF Wait
<1>2. child \in Pid /\ at[c] = "wait"
  BY <1>1 DEF ServerTypes, Starting, Step
<1>3. StartedPid(c) \in Pid
  BY <1>2 DEF StartedPid, BrokerPid, Brokers
<1>4. Recorded(StartedPid(c), job[c].settings) \in FileType
  BY <1>3 DEF Recorded, FileType, ServerTypes
<1>5. /\ at'[c] = "write" /\ UNCHANGED kind
      /\ job'[c].settings = job[c].settings /\ job'[c].state.pid = StartedPid(c)
  <2>1. "wait" \in Label /\ "write" \in Label
    BY DEF Label
  <2>2. /\ at'[c] = "write" /\ UNCHANGED kind /\ job'[c].settings = job[c].settings
        /\ job'[c].state = Recorded(StartedPid(c), job[c].settings)
    BY <1>1, <1>4, <2>1, StepFrame
  <2> QED
    BY <2>2 DEF Recorded
<1>6. \A x \in Pid : Lost(x)' =>
        /\ x = child /\ proc'[x] = proc[x] /\ proc[x].status = "up" /\ Server(x)
        /\ proc[x].ports = Listens(job[c].settings)
  <2>1. SUFFICES ASSUME NEW x \in Pid, Lost(x)'
                 PROVE  /\ x = child /\ proc'[x] = proc[x] /\ proc[x].status = "up" /\ Server(x)
                        /\ proc[x].ports = Listens(job[c].settings)
    OBVIOUS
  <2>2. Lost(x) /\ proc'[x] = proc[x] /\ x \notin {y \in {child} : ~(Server(y) /\ proc[y].status = "up")}
    BY <1>1, <2>1, Fewer
  <2>3. x = child /\ proc[x].ports = Listens(job[c].settings)
    BY <1>2, <2>2 DEF Hands, Starting
  <2> QED
    BY <2>2, <2>3
<1>7. \A x \in Pid : Lost(x)' => x = StartedPid(c)
  <2>1. SUFFICES ASSUME NEW x \in Pid, Lost(x)', kind = "rabbitmq"
                 PROVE  x = BrokerPid(child)
    BY <1>6 DEF StartedPid
  <2>2. x \in Brokers
    BY <1>6, <2>1 DEF Brokers
  <2>3. BrokerPid(child) \in Brokers
    BY <2>2 DEF BrokerPid
  <2> QED
    BY <2>1, <2>2, <2>3 DEF OneBroker
<1>8. Awaited(job[c].settings)' = Awaited(job[c].settings)
  BY <1>5 DEF Awaited, Listens, Fields
<1>9. Awaited(job[c].settings) \subseteq Listens(job[c].settings)
  BY DEF Awaited, Listens
<1>10. \A x \in Pid : Lost(x)' => Waits(x, job[c].settings)'
  BY <1>5, <1>6, <1>8, <1>9 DEF Waits
<1> QED
  BY <1>5, <1>7, <1>10 DEF HandsAfter, Running, Hands, Starting, Stopping

\* after giving up on it,
LEMMA GiveUpHands ==
  ASSUME ServerTypes, NEW c \in Command, Hands(c), GiveUp(c)
  PROVE  HandsAfter(c)
<1>1. at[c] = "wait" /\ proc' = Killed(job[c].state.pid) /\ Excuse({})
  BY DEF GiveUp
<1>2. \A x \in Pid : Lost(x)' => Lost(x) /\ x # job[c].state.pid
  BY <1>1, Fewer
<1> QED
  BY <1>1, <1>2, NoneLost DEF Hands, Starting

\* A step of c to another label of its command that keeps its settings and its record.
LEMMA RecordKept ==
  ASSUME ServerTypes, NEW c \in Command, NEW from \in Label \ {"idle", "done"},
         NEW to \in Label \ {"idle", "done"}, Step(c, from, to, job[c].state)
  PROVE  /\ at[c] = from /\ at'[c] = to /\ UNCHANGED kind /\ job'[c] = job[c]
<1>1. job[c] \in [settings : Settings, state : FileType]
  BY DEF ServerTypes
<1>2. /\ at[c] = from /\ at'[c] = to /\ UNCHANGED kind
      /\ job'[c].settings = job[c].settings /\ job'[c].state = job[c].state
      /\ job'[c] \in [settings : Settings, state : FileType]
  BY <1>1, StepFrame
<1> QED
  BY <1>1, <1>2

\* The labels, by name.
LEMMA Labels ==
  /\ {"ensure", "clear", "launch", "wait", "write", "fill", "undo", "load", "discard",
      "signal", "drain", "remove"} \subseteq Label \ {"idle", "done"}
  /\ "idle" \in Label /\ "done" \in Label
BY DEF Label

\* after opening and after filling the state file,
LEMMA WriteHands ==
  ASSUME ServerTypes, NEW c \in Command, Hands(c), WriteState(c) \/ FillState(c)
  PROVE  HandsAfter(c)
<1>1. /\ \A x \in Pid : Lost(x)' => Lost(x) /\ proc'[x] = proc[x]
      /\ at[c] \in {"write", "fill"} /\ UNCHANGED kind
  BY Fewer DEF WriteState, FillState, Step
<1>2. \A x \in Pid : Lost(x)' => x = job[c].state.pid /\ Waits(x, job[c].settings)
  BY <1>1 DEF Hands, Starting
<1>3. \A x \in Pid : Lost(x)' => Waits(x, job[c].settings)'
                                  \/ job'[c].settings # job[c].settings
  BY <1>1, <1>2 DEF Waits, Awaited, Listens, Fields
<1>4. CASE at'[c] \in {"fill", "undo"}
  <2>1. job'[c] = job[c]
    <3>1. PICK from \in {"write", "fill"}, to \in {"fill", "undo"} :
            Step(c, from, to, job[c].state)
      BY <1>4 DEF WriteState, FillState, Step, ServerTypes, ServerTypeOK
    <3> QED
      BY <3>1, RecordKept, Labels
  <2> QED
    BY <1>2, <1>3, <1>4, <2>1 DEF HandsAfter, Running, Hands, Starting, Stopping
<1>5. CASE at'[c] \notin {"fill", "undo"}
  <2>1. at'[c] = "done" /\ file' = job[c].state /\ at[c] = "fill"
    BY <1>5, RecordKept, Labels DEF WriteState, FillState, Step, ServerTypes, ServerTypeOK
  <2>2. job[c].state.at = "recorded" /\ job[c].state.settings = job[c].settings
    BY <2>1 DEF ServerTypes, Starting
  <2>3. \A x \in Pid : Lost(x)' => Kept(x)'
    BY <1>1, <1>2, <2>1, <2>2 DEF Kept, Named, Waits, Awaited, Listens, Fields
  <2> QED
    BY <2>1, <2>3 DEF HandsAfter, Running
<1> QED
  BY <1>4, <1>5

\* and after stopping what it could not record.
LEMMA UndoHands ==
  ASSUME ServerTypes, NEW c \in Command, Hands(c), Undo(c)
  PROVE  HandsAfter(c)
<1>1. at[c] = "undo" /\ \A x \in Pid : Lost(x)' => Lost(x) /\ x # job[c].state.pid
  <2>1. CASE proc' = Killed(job[c].state.pid) /\ Excuse({})
    BY <2>1, Fewer DEF Undo, Step
  <2>2. CASE proc' = proc /\ Excuse({job[c].state.pid})
    BY <2>2, Fewer DEF Undo, Step
  <2> QED
    BY <2>1, <2>2 DEF Undo
<1> QED
  BY <1>1, NoneLost DEF Hands, Starting

\* What a stop knows after it has read the state file,
LEMMA LoadHands ==
  ASSUME ServerTypes, NEW c \in Command, Hands(c), LoadLive(c)
  PROVE  HandsAfter(c)
<1>1. /\ \A x \in Pid : Lost(x)' => Lost(x) /\ proc'[x] = proc[x]
      /\ at[c] = "load" /\ UNCHANGED <<kind, file>>
  BY Fewer DEF LoadLive, Step
<1>2. \A x \in Pid : Lost(x) => Kept(x)
  BY <1>1 DEF Hands
<1>3. CASE file.at # "recorded" \/ ~IsLive(file)
  BY <1>1, <1>2, <1>3, LiveIfKept, NoneLost
<1>4. CASE file.at = "recorded" /\ IsLive(file)
  <2>1. Step(c, "load", "signal", file) /\ file \in FileType
    BY <1>4 DEF LoadLive, ServerTypes, ServerTypeOK, FileType
  <2>2. at'[c] = "signal" /\ job'[c].state = file
    BY <2>1, StepFrame, Labels
  <2>3. \A x \in Pid : Lost(x)' => Kept(x)'
    BY <1>1, <1>2, KeptSame
  <2> QED
    BY <1>1, <2>2, <2>3 DEF HandsAfter, Running, Hands, Starting, Stopping
<1> QED
  BY <1>3, <1>4

\* A step of a stop that leaves the file, and what is lost is still on record.
LEMMA StopHands ==
  ASSUME ServerTypes, NEW c \in Command, Hands(c), at[c] \in Stopping,
         UNCHANGED <<kind, file>>,
         \A x \in Pid : Lost(x)' => Lost(x) /\ proc'[x] = proc[x],
         \/ at'[c] \in {"idle", "done"}
         \/ at'[c] = "drain" /\ job'[c] = job[c]
         \/ at'[c] = "remove" /\ job'[c] = job[c] /\ \A x \in Pid : ~Lost(x)'
  PROVE  HandsAfter(c)
<1>1. \A x \in Pid : Lost(x)' => Kept(x)' /\ job[c].state = file
  BY KeptSame DEF Hands
<1> QED
  BY <1>1 DEF HandsAfter, Running, Hands, Starting, Stopping

\* after it has signalled the server on record,
LEMMA SignalHands ==
  ASSUME ServerTypes, NEW c \in Command, Hands(c),
         \/ Status(c) \/ StopRedis(c) \/ StopMeilisearch(c) \/ StopTraefik(c) \/ StopMailpit(c)
         \/ StopRabbitMQ(c) \/ StopDatabase(c)
  PROVE  HandsAfter(c)
<1>1. CASE Status(c)
  BY <1>1, Fewer, StopHands DEF Status, Step, Stopping, ServerTypes, ServerTypeOK
<1>2. CASE StopRedis(c) \/ StopMeilisearch(c) \/ StopTraefik(c) \/ StopMailpit(c)
  <2>1. KillRecorded(c)
    BY <1>2 DEF StopRedis, StopMeilisearch, StopTraefik, StopMailpit
  <2>2. /\ at[c] \in Stopping /\ UNCHANGED <<kind, file>>
        /\ \A x \in Pid : Lost(x)' => Lost(x) /\ proc'[x] = proc[x]
    BY <2>1, Fewer DEF KillRecorded, Step, Stopping
  <2>3. at'[c] = "idle" \/ (at'[c] = "drain" /\ job'[c] = job[c])
    BY <2>1, RecordKept, Labels DEF KillRecorded, Step, ServerTypes, ServerTypeOK
  <2> QED
    BY <2>2, <2>3, StopHands
<1>3. CASE StopRabbitMQ(c)
  <2>1. /\ at[c] \in Stopping /\ UNCHANGED <<kind, file>>
        /\ \A x \in Pid : Lost(x)' => Lost(x) /\ proc'[x] = proc[x]
    <3>1. Brokers \in SUBSET Pid
      BY DEF Brokers
    <3> QED
      BY <1>3, <3>1, Fewer DEF StopRabbitMQ, Step, Stopping
  <2>2. at'[c] = "drain" /\ job'[c] = job[c]
    BY <1>3, RecordKept, Labels DEF StopRabbitMQ
  <2> QED
    BY <2>1, <2>2, StopHands
<1>4. CASE StopDatabase(c)
  <2>1. /\ at[c] \in Stopping /\ UNCHANGED <<kind, file>>
        /\ \A x \in Pid : Lost(x)' => Lost(x) /\ proc'[x] = proc[x]
    <3>1. Administered \in SUBSET Pid
      BY DEF Administered
    <3> QED
      BY <1>4, <3>1, Fewer DEF StopDatabase, Step, Stopping
  <2>2. CASE Step(c, "signal", "remove", job[c].state) /\ ~Answers(job[c].state.settings.port)
    <3>1. \A x \in Pid : ~Lost(x)
      BY <2>1, <2>2, LiveIfKept DEF Hands
    <3>2. at'[c] = "remove" /\ job'[c] = job[c]
      BY <2>2, RecordKept, Labels
    <3> QED
      BY <2>1, <3>1, NoneLost
  <2>3. CASE Step(c, "signal", "drain", job[c].state)
    <3>1. at'[c] = "drain" /\ job'[c] = job[c]
      BY <2>3, RecordKept, Labels
    <3> QED
      BY <2>1, <3>1, StopHands
  <2>4. CASE Step(c, "signal", "idle", Absent)
    <3>1. at'[c] = "idle"
      BY <2>4 DEF Step, ServerTypes, ServerTypeOK
    <3> QED
      BY <2>1, <3>1, StopHands
  <2> QED
    BY <1>4, <2>2, <2>3, <2>4 DEF StopDatabase
<1> QED
  BY <1>1, <1>2, <1>3, <1>4

\* and after it has waited for the server to end.
LEMMA DrainHands ==
  ASSUME ServerTypes, NEW c \in Command, Hands(c), Drain(c)
  PROVE  HandsAfter(c)
<1> DEFINE listening == IF kind \in {"rabbitmq", "mysql", "postgresql"}
                        THEN Answers(job[c].state.settings.port)
                        ELSE IsLive(job[c].state)
<1>1. /\ at[c] = "drain" /\ UNCHANGED <<kind, file>>
      /\ \A x \in Pid : Lost(x)' => Lost(x) /\ proc'[x] = proc[x]
  BY Fewer DEF Drain, Step
<1>2. \A x \in Pid : Lost(x) => Kept(x) /\ job[c].state = file
  BY <1>1 DEF Hands, Stopping
<1>3. CASE ~listening
  BY <1>1, <1>2, <1>3, LiveIfKept, NoneLost
<1>4. CASE proc' = Killed(job[c].state.pid)
  <2>1. \A x \in Pid : Lost(x)' => x # job[c].state.pid
    BY <1>4, Fewer DEF Drain
  <2> QED
    BY <1>1, <1>2, <2>1, LiveIfKept, NoneLost
<1>5. CASE Step(c, "drain", "idle", Absent)
  <2>1. at'[c] = "idle"
    BY <1>5 DEF Step, ServerTypes, ServerTypeOK
  <2> QED
    BY <1>1, <2>1, StopHands DEF Stopping
<1> QED
  BY <1>3, <1>4, <1>5 DEF Drain

\* What a command knows after any of its steps.
LEMMA RunsHands ==
  ASSUME ServerTypes, OneBroker, NEW c \in Command, Hands(c), Running(c), CommandStep(c)
  PROVE  HandsAfter(c)
<1>1. ~(Start(c) \/ Stop(c))
  BY DEF Start, Stop, Begin
<1>2. ClearStale(c, "clear", "launch") \/ ClearStale(c, "discard", "done") \/ RemoveState(c)
      => HandsAfter(c)
  BY ClearHands
<1>3. WriteState(c) \/ FillState(c) => HandsAfter(c)
  BY WriteHands
<1>4. \/ Status(c) \/ StopRedis(c) \/ StopMeilisearch(c) \/ StopTraefik(c) \/ StopMailpit(c)
      \/ StopRabbitMQ(c) \/ StopDatabase(c)
      => HandsAfter(c)
  BY SignalHands
<1> QED
  BY <1>1, <1>2, <1>3, <1>4, EnsureHands, LaunchHands, WaitHands, GiveUpHands, UndoHands,
     LoadHands, DrainHands
  DEF CommandStep

\* After a kill nobody knows of the command's child, which is excused.
LEMMA KillHands ==
  ASSUME ServerTypes, NEW c \in Command, Hands(c), KillCommand(c)
  PROVE  HandsAfter(c)
<1>1. /\ \A x \in Pid : Lost(x)' => /\ Lost(x) /\ proc'[x] = proc[x]
                                    /\ x # job[c].state.pid
      /\ at'[c] = "idle" /\ Running(c) /\ at[c] \in Label /\ UNCHANGED <<kind, file>>
  <2>1. Excuse({job[c].state.pid}) /\ proc' = proc
    BY KillFrame
  <2> QED
    BY <2>1, Fewer, KillFrame DEF ServerTypes, ServerTypeOK
<1>2. \A x \in Pid : Lost(x)' => Kept(x)
  BY <1>1 DEF Hands, Label, Starting, Stopping, Running
<1>3. \A x \in Pid : Lost(x)' => Kept(x)'
  BY <1>1, <1>2, KeptSame
<1> QED
  BY <1>1, <1>3 DEF HandsAfter, Running

\* Two commands: everything is excused.
LEMMA CrowdKnown ==
  ASSUME \A x \in Pid : ~Lost(x)'
  PROVE  Known' /\ NoServerLost'
BY DEF Known, NoServerLost, Hands, Lost

\* When a lone command has moved, what it knows is all there is to know.
LEMMA AloneKnown ==
  ASSUME ServerTypes, ServerTypes', Known, Lone, NEW c \in Command, Running(c),
         \A d \in Command \ {c} : at'[d] = at[d], HandsAfter(c)
  PROVE  Known' /\ NoServerLost'
<1>1. \A d \in Command \ {c} : at'[d] \in {"idle", "done"}
  BY DEF Lone, Running
<1>2. CASE Running(c)'
  <2>1. Hands(c)'
    BY <1>2 DEF HandsAfter
  <2>2. \A d \in Command : Hands(d)'
    BY <1>1, <2>1 DEF Hands, Starting, Stopping
  <2>3. at'[c] \in Label \ {"idle", "done"}
    BY <1>2 DEF Running, ServerTypes, ServerTypeOK
  <2>4. \A x \in Pid : Lost(x)' => Named(x)' \/ x = job'[c].state.pid
    BY <2>1, <2>3 DEF Hands, Label, Starting, Stopping, Kept
  <2>5. NoServerLost'
    BY <1>2, <2>4 DEF NoServerLost, Lost, Named
  <2> QED
    BY <1>2, <2>2, <2>5 DEF Known
<1>3. CASE ~Running(c)'
  <2>1. \A x \in Pid : Lost(x)' => Kept(x)'
    BY <1>3 DEF HandsAfter
  <2>2. \A d \in Command : ~Running(d)'
    BY <1>1, <1>3 DEF Running
  <2>3. \A d \in Command : Hands(d)'
    BY <2>2 DEF Hands, Running, Starting, Stopping
  <2>4. NoServerLost'
    BY <2>1 DEF NoServerLost, Lost, Kept, Named
  <2> QED
    BY <2>1, <2>3, <2>4 DEF Known
<1> QED
  BY <1>2, <1>3

\* A command that begins alone knows what was known; else there are two.
LEMMA BeginKnown ==
  ASSUME ServerTypes, ServerTypes', Known, NoServerLost, NEW c \in Command, Begun(c)
  PROVE  Known' /\ NoServerLost'
<1>1. /\ ~Running(c) /\ at'[c] \in {"ensure", "load"}
      /\ \A d \in Command \ {c} : at'[d] = at[d] /\ job'[d] = job[d]
      /\ UNCHANGED <<kind, file, proc>> /\ Excuse({})
  BY BeginFrame
<1>2. \A x \in Pid : Lost(x)' => Lost(x) /\ proc'[x] = proc[x]
  BY <1>1, Fewer
<1>3. Running(c)'
  BY <1>1 DEF Running
<1>4. NoServerLost'
  <2>1. SUFFICES ASSUME NEW x \in Pid, Lost(x)'
                 PROVE  Named(x)' \/ \E d \in Command : Running(d)' /\ job'[d].state.pid = x
    BY DEF NoServerLost, Lost, Named
  <2>2. Named(x) \/ \E d \in Command : Running(d) /\ job[d].state.pid = x
    BY <1>2, <2>1 DEF NoServerLost, Lost, Named
  <2> QED
    BY <1>1, <2>2 DEF Named, Running
<1>5. CASE \A d \in Command : ~Running(d)
  <2>1. \A x \in Pid : Lost(x)' => Kept(x)'
    BY <1>1, <1>2, <1>5, KeptSame DEF Known
  <2>2. \A d \in Command : Hands(d)'
    BY <1>1, <1>5, <2>1 DEF Hands, Running, Starting, Stopping
  <2> QED
    BY <1>3, <1>4, <2>2 DEF Known
<1>6. CASE \E d \in Command : Running(d)
  <2>1. ~Lone'
    BY <1>1, <1>3, <1>6 DEF Lone, Running
  <2> QED
    BY <1>3, <1>4, <2>1 DEF Known
<1> QED
  BY <1>5, <1>6

\* No step of a command that runs, and no kill, makes another one run.
LEMMA OthersStay ==
  ASSUME ServerTypes, NEW c \in Command, Stepped(c) \/ KillCommand(c)
  PROVE  /\ Running(c)
         /\ \A d \in Command \ {c} : at'[d] = at[d] /\ alone'[d] = alone[d]
         /\ alone'[c] => alone[c] /\ Running(c)'
<1>1. CASE KillCommand(c)
  BY <1>1, KillFrame
<1>2. CASE Stepped(c)
  <2>1. PICK from \in Label \ {"idle", "done"}, to \in Label, st \in FileType :
          Step(c, from, to, st)
    BY <1>2 DEF Stepped
  <2> QED
    BY <2>1, StepFrame DEF Running
<1> QED
  BY <1>1, <1>2

\* A node name is bound by one broker, whatever a command does.
LEMMA CommandBroker ==
  ASSUME ServerTypes, OneBroker, NEW c \in Command, CommandStep(c) \/ KillCommand(c)
  PROVE  OneBroker'
<1>1. UNCHANGED kind
  <2>1. CASE Begun(c)
    BY <2>1, BeginFrame
  <2>2. CASE Stepped(c)
    <3>1. PICK from \in Label \ {"idle", "done"}, to \in Label, st \in FileType :
            Step(c, from, to, st)
      BY <2>2 DEF Stepped
    <3> QED
      BY <3>1 DEF Step
  <2>3. CASE KillCommand(c)
    BY <2>3, KillFrame
  <2> QED
    BY <2>1, <2>2, <2>3, StepShape
<1>2. SUFFICES \A x \in Brokers' : x \in Brokers
  BY <1>1 DEF OneBroker
<1>3. proc' = proc \/ (\E y : proc' = Killed(y)) => \A x \in Brokers' : x \in Brokers
  BY DEF Brokers, Server, Alive, Killed
<1>4. ASSUME NEW xs \in {Brokers, Administered}, proc' = Closing(xs)
      PROVE  \A x \in Brokers' : x \in Brokers
  <2>1. SUFFICES ASSUME NEW x \in Brokers'
                 PROVE  x \in Brokers
    OBVIOUS
  <2>2. xs \in SUBSET Pid /\ \A y \in xs : Server(y) /\ proc[y] \in Process
    BY <1>4 DEF Brokers, Administered, ServerTypes, Server, Alive
  <2>3. x \in Pid /\ Server(x)' /\ proc'[x].status = "up"
    BY <2>1 DEF Brokers
  <2>4. x \notin xs
    <3>1. SUFFICES ASSUME x \in xs
                   PROVE  FALSE
      OBVIOUS
    <3>2. proc'[x] = [proc[x] EXCEPT !.status = "closing"] /\ proc[x] \in Process
      BY <1>4, <2>2, <3>1 DEF Closing
    <3> QED
      BY <2>3, <3>2 DEF Process
  <2>5. proc'[x] = proc[x]
    BY <1>4, <2>3, <2>4 DEF Closing
  <2> QED
    BY <2>3, <2>5 DEF Brokers, Server, Alive
<1>5. ASSUME Spawn(c)
      PROVE  \A x \in Brokers' : x \in Brokers
  <2>1. PICK y \in Pid :
          proc' = [proc EXCEPT ![y] = [owner |-> "polka", status |-> "starting",
                                       ports |-> Listens(job[c].settings),
                                       settings |-> job[c].settings]]
    BY <1>5 DEF Spawn
  <2> QED
    BY <2>1 DEF Brokers, Server, Alive, ServerTypes
<1>6. \/ proc' = proc \/ (\E y : proc' = Killed(y)) \/ Spawn(c)
      \/ \E xs \in {Brokers, Administered} : proc' = Closing(xs)
  BY DEF CommandStep, KillCommand, Start, Stop, Begin, Ensure, ClearStale, Launch, NotLaunched,
         LaunchRedis, LaunchMeilisearch, LaunchTraefik, LaunchMailpit, LaunchRabbitMQ,
         LaunchDatabase, Wait, GiveUp, WriteState, FillState, Undo, LoadLive, Status,
         StopRedis, StopMeilisearch, StopTraefik, StopMailpit, KillRecorded, StopRabbitMQ,
         StopDatabase, Drain, RemoveState
<1> QED
  BY <1>3, <1>4, <1>5, <1>6

\* A server that binds its ports or ends, another's process, an edit, a look.
LEMMA OutsideInv ==
  ASSUME ServerInv,
         \/ \E x \in Pid : Bind(x) \/ End(x) \/ OtherStarts(x)
         \/ EditConfig \/ RefreshDefaults
  PROVE  ServerInv'
<1>1. ServerTypes' /\ Elsewhere /\ Excuse({})
  BY OutsideTypes DEF ServerInv
<1>2. ASSUME NEW x \in Pid, Server(x)'
      PROVE  \/ Server(x) /\ proc'[x] = proc[x]
             \/ /\ Server(x) /\ proc[x].status = "starting" /\ ~NodeTaken
                /\ proc'[x].ports = proc[x].ports /\ proc'[x].status = "up"
                /\ \A y \in Pid \ {x} : proc'[y] = proc[y]
  <2>1. CASE EditConfig \/ RefreshDefaults
    BY <1>2, <2>1 DEF EditConfig, RefreshDefaults, Server, Alive
  <2>2. ASSUME NEW y \in Pid, proc' = Killed(y)
        PROVE  Server(x) /\ proc'[x] = proc[x]
    BY <1>2, <2>2 DEF Killed, Server, Alive
  <2>3. ASSUME NEW y \in Pid, OtherStarts(y)
        PROVE  Server(x) /\ proc'[x] = proc[x]
    BY <1>2, <2>3 DEF OtherStarts, Server, Alive, ServerInv, ServerTypes
  <2>4. ASSUME NEW y \in Pid, Bind(y), proc' # Killed(y)
        PROVE  \/ Server(x) /\ proc'[x] = proc[x]
               \/ /\ Server(x) /\ proc[x].status = "starting" /\ ~NodeTaken
                  /\ proc'[x].ports = proc[x].ports /\ proc'[x].status = "up"
                  /\ \A z \in Pid \ {x} : proc'[z] = proc[z]
    <3>1. /\ proc' = [proc EXCEPT ![y].status = "up"] /\ ~NodeTaken
          /\ Server(y) /\ proc[y].status = "starting"
      BY <2>4 DEF Bind
    <3>2. proc[y] \in Process
      BY <3>1 DEF Server, Alive, ServerInv, ServerTypes
    <3>3. CASE x = y
      <4>1. proc'[x] = [proc[x] EXCEPT !.status = "up"] /\ \A z \in Pid \ {x} : proc'[z] = proc[z]
        BY <3>1, <3>3 DEF ServerInv, ServerTypes
      <4> QED
        BY <3>1, <3>2, <3>3, <4>1 DEF Process
    <3>4. CASE x # y
      <4>1. proc'[x] = proc[x]
        BY <3>1, <3>4 DEF ServerInv, ServerTypes
      <4> QED
        BY <1>2, <4>1 DEF Server, Alive
    <3> QED
      BY <3>3, <3>4
  <2> QED
    BY <2>1, <2>2, <2>3, <2>4 DEF End
<1>3. OneBroker'
  <2>1. SUFFICES ASSUME kind = "rabbitmq", NEW x \in Brokers', NEW y \in Brokers', x # y
                 PROVE  FALSE
    BY <1>1 DEF OneBroker, Elsewhere
  <2>2. /\ x \in Pid /\ Server(x)' /\ proc'[x].status = "up"
        /\ y \in Pid /\ Server(y)' /\ proc'[y].status = "up"
    BY <2>1 DEF Brokers
  <2>3. ASSUME NEW u \in {x, y}, NEW v \in {x, y}, u # v, proc[u].status = "starting", ~NodeTaken,
               \A z \in Pid \ {u} : proc'[z] = proc[z]
        PROVE  FALSE
    <3>1. Server(v) /\ proc[v].status = "up"
      BY <2>2, <2>3 DEF Server, Alive
    <3> QED
      BY <2>1, <2>2, <2>3, <3>1 DEF NodeTaken
  <2>4. proc'[x] = proc[x] /\ proc'[y] = proc[y]
    BY <1>2, <2>1, <2>2, <2>3
  <2> QED
    BY <2>1, <2>2, <2>4 DEF Brokers, Server, Alive, ServerInv, OneBroker
<1>4. \A x \in Pid : Lost(x)' =>
        /\ Lost(x) /\ proc'[x].ports = proc[x].ports
        /\ proc[x].status = "up" => proc'[x].status = "up"
  BY <1>1, <1>2, Excused DEF Lost
<1>5. \A s : \A x \in Pid : Lost(x)' /\ Waits(x, s) => Waits(x, s)'
  BY <1>1, <1>4 DEF Waits, Awaited, Listens, Fields, Elsewhere
<1>6. \A x \in Pid : Lost(x)' /\ Kept(x) => Kept(x)'
  BY <1>1, <1>5 DEF Kept, Named, Elsewhere, Waits, Awaited, Listens, Fields
<1>7. ASSUME NEW c \in Command, Hands(c)
      PROVE  Hands(c)'
  <2>1. UNCHANGED <<at, job, file, kind>>
    BY <1>1 DEF Elsewhere
  <2>2. Listens(job[c].settings)' = Listens(job[c].settings)
    BY <2>1 DEF Listens, Fields
  <2>3. \A x \in Pid : Lost(x)' /\ Waits(x, job[c].settings) => Waits(x, job[c].settings)'
    BY <1>4, <2>1 DEF Waits, Awaited, Listens, Fields
  <2> QED
    BY <1>4, <1>6, <1>7, <2>1, <2>2, <2>3 DEF Hands
<1>8. Lone' = Lone /\ \A c \in Command : Running(c)' = Running(c)
  BY <1>1 DEF Lone, Running, Elsewhere
<1>9. Known'
  BY <1>4, <1>6, <1>7, <1>8 DEF Known, ServerInv
<1>10. NoServerLost'
  <2>1. SUFFICES ASSUME NEW x \in Pid, Lost(x)'
                 PROVE  Named(x)' \/ \E d \in Command : Running(d)' /\ job'[d].state.pid = x
    BY DEF NoServerLost, Lost, Named
  <2>2. Named(x) \/ \E d \in Command : Running(d) /\ job[d].state.pid = x
    BY <1>4, <2>1 DEF NoServerLost, Lost, Named, ServerInv
  <2> QED
    BY <1>1, <1>8, <2>2 DEF Named, Elsewhere
<1>11. AloneInv'
  BY <1>1, <1>8 DEF AloneInv, Elsewhere, ServerInv
<1> QED
  BY <1>1, <1>3, <1>9, <1>10, <1>11 DEF ServerInv

\* A step of a command keeps the invariant.
LEMMA CommandInv ==
  ASSUME ServerInv, NEW c \in Command, CommandStep(c) \/ KillCommand(c)
  PROVE  ServerInv'
<1>1. ServerTypes' /\ OneBroker'
  BY CommandTypes, CommandBroker DEF ServerInv
<1>2. CASE Begun(c)
  <2>1. Known' /\ NoServerLost'
    BY <1>1, <1>2, BeginKnown DEF ServerInv
  <2>2. /\ at'[c] \in {"ensure", "load"} /\ \A d \in Command \ {c} : at'[d] = at[d]
        /\ \A d \in Command : alone'[d] = IF d = c THEN \A e \in Command \ {c} : ~Running(e)
                                          ELSE alone[d] /\ ~Running(d)
    BY <1>2, BeginFrame DEF ServerInv
  <2>3. AloneInv'
    BY <2>2 DEF AloneInv, ServerInv, Running, Lone
  <2> QED
    BY <1>1, <2>1, <2>3 DEF ServerInv
<1>3. CASE Stepped(c) \/ KillCommand(c)
  <2>1. /\ Running(c) /\ \A d \in Command \ {c} : at'[d] = at[d] /\ alone'[d] = alone[d]
        /\ alone'[c] => alone[c] /\ Running(c)'
    BY <1>3, OthersStay DEF ServerInv
  <2>2. AloneInv'
    BY <2>1 DEF AloneInv, ServerInv, Running, Lone
  <2>3. CASE Lone
    <3>1. HandsAfter(c)
      BY <2>1, <2>3, RunsHands, KillHands DEF ServerInv, Known
    <3> QED
      BY <1>1, <2>1, <2>2, <2>3, <3>1, AloneKnown DEF ServerInv
  <2>4. CASE ~Lone
    <3>1. \E xs : Excuse(xs)
      BY DEF CommandStep, KillCommand, Start, Stop, Begin, Ensure, ClearStale, Launch, NotLaunched,
         LaunchRedis, LaunchMeilisearch, LaunchTraefik, LaunchMailpit, LaunchRabbitMQ,
         LaunchDatabase, Spawn, Wait, GiveUp, WriteState, FillState, Undo, LoadLive, Status,
         StopRedis, StopMeilisearch, StopTraefik, StopMailpit, KillRecorded, StopRabbitMQ,
         StopDatabase, Drain, RemoveState
    <3>2. \A x \in Pid : ~Lost(x)'
      BY <2>4, <3>1, Excused DEF Lost
    <3> QED
      BY <1>1, <2>2, <3>2, CrowdKnown DEF ServerInv
  <2> QED
    BY <2>3, <2>4
<1> QED
  BY <1>2, <1>3, StepShape DEF ServerInv

\* The invariant is inductive.
LEMMA ServerStep == ServerInv /\ ServerNext => ServerInv'
<1> SUFFICES ASSUME ServerInv, ServerNext
             PROVE  ServerInv'
  OBVIOUS
<1>1. CASE \E c \in Command : CommandStep(c) \/ KillCommand(c)
  BY <1>1, CommandInv
<1>2. CASE \/ \E x \in Pid : Bind(x) \/ End(x) \/ OtherStarts(x)
           \/ EditConfig \/ RefreshDefaults
  BY <1>2, OutsideInv
<1> QED
  BY <1>1, <1>2 DEF ServerNext

\* It holds at the start.
LEMMA ServerStart == ServerInit => ServerInv
<1> SUFFICES ASSUME ServerInit
             PROVE  ServerInv
  OBVIOUS
<1>1. ServerTypes
  <2>1. /\ file \in FileType /\ file.pid = NoPid /\ file.at # "recorded"
        /\ job \in [Command -> [settings : Settings, state : FileType]]
        /\ \A c \in Command : job[c].settings \in Settings
    BY Constants DEF ServerInit
  <2>2. /\ kind \in Kind /\ config \in Settings /\ edits \in 0 .. MaxEdits
        /\ defaults \in Port /\ excused \subseteq Pid
    BY ServerAssumption, Constants DEF ServerInit, Blank
  <2>3. at \in [Command -> Label] /\ \A c \in Command : at[c] \notin Starting
    BY DEF ServerInit, Label, Starting
  <2>4. proc \in [Pid -> Process \cup {Nobody}] /\ alone \in [Command -> BOOLEAN]
    BY DEF ServerInit
  <2> QED
    BY <2>1, <2>2, <2>3, <2>4 DEF ServerTypes, ServerTypeOK, FileType
<1>2. \A c \in Command : ~Running(c) /\ ~alone[c]
  BY DEF ServerInit, Running
<1>3. \A x \in Pid : ~Lost(x) /\ x \notin Brokers
  BY DEF ServerInit, Lost, Server, Alive, Brokers
<1>4. Known /\ NoServerLost
  BY <1>3 DEF Known, Hands, NoServerLost, Lost
<1>5. OneBroker /\ AloneInv
  BY <1>2, <1>3 DEF OneBroker, AloneInv, Brokers
<1> QED
  BY <1>1, <1>4, <1>5 DEF ServerInv

\* Which action a command at some of the labels takes.
LEMMA ActionAt ==
  ASSUME NEW c \in Command, CommandStep(c), Running(c)
  PROVE  /\ at[c] = "load" => LoadLive(c)
         /\ at[c] \in {"discard", "remove"} => ClearStale(c, "discard", "done") \/ RemoveState(c)
         /\ at[c] = "ensure" => Ensure(c)
         /\ at[c] = "fill" => FillState(c)
BY DEF CommandStep, Start, Stop, Begin, Ensure, ClearStale, Launch, NotLaunched, LaunchRedis,
       LaunchMeilisearch, LaunchTraefik, LaunchMailpit, LaunchRabbitMQ, LaunchDatabase, Spawn,
       Wait, GiveUp, WriteState, FillState, Undo, LoadLive, Status, StopRedis, StopMeilisearch,
       StopTraefik, StopMailpit, KillRecorded, StopRabbitMQ, StopDatabase, Drain, RemoveState,
       Step

\* A success tells the truth, by what its command knows at its last label.
LEMMA SuccessHolds == ServerInv /\ ServerNext => SuccessStep
<1> SUFFICES ASSUME ServerInv, ServerNext, NEW c \in Command, alone[c], at'[c] = "done"
             PROVE  /\ at[c] \in {"load", "discard", "remove"} => \A x \in Pid : ~Lost(x)'
                    /\ at[c] \in {"ensure", "fill"} =>
                         /\ file'.at = "recorded"
                         /\ \A f \in Fields \ (IF kind \in {"mysql", "postgresql"}
                                               THEN {"port"} ELSE {}) :
                              file'.settings[f] = job[c].settings[f]
  BY DEF SuccessStep, Lost
<1>1. Running(c) /\ Lone /\ Hands(c) /\ ServerTypes
  BY DEF ServerInv, AloneInv, Known
<1>2. CommandStep(c) /\ ~Begun(c)
  <2>1. ASSUME NEW d \in Command, d # c, CommandStep(d) \/ KillCommand(d)
        PROVE  FALSE
    <3>1. at'[c] = at[c]
      BY <1>1, <2>1, BeginFrame, OthersStay, StepShape
    <3> QED
      BY <1>1, <3>1 DEF Running
  <2>2. ~KillCommand(c) /\ ~Begun(c)
    BY <1>1, KillFrame, BeginFrame
  <2>3. CASE \/ \E x \in Pid : Bind(x) \/ End(x) \/ OtherStarts(x)
             \/ EditConfig \/ RefreshDefaults
    BY <1>1, <2>3, OutsideTypes DEF Elsewhere, Running
  <2> QED
    BY <2>1, <2>2, <2>3 DEF ServerNext
<1>3. CASE at[c] = "load"
  <2>1. LoadLive(c)
    BY <1>1, <1>2, <1>3, ActionAt
  <2>2. file.at = "absent" /\ \A x \in Pid : Lost(x)' => Lost(x)
    <3>1. UNCHANGED proc /\ Excuse({})
      BY <2>1 DEF LoadLive
    <3>2. file.at = "absent"
      BY <1>1, <2>1 DEF LoadLive, Step, ServerTypes, ServerTypeOK
    <3> QED
      BY <1>1, <3>1, <3>2, Fewer
  <2> QED
    BY <1>1, <1>3, <2>2 DEF Hands, Kept, Named
<1>4. CASE at[c] \in {"discard", "remove"}
  <2>1. ClearStale(c, "discard", "done") \/ RemoveState(c)
    BY <1>1, <1>2, <1>4, ActionAt
  <2>2. UNCHANGED proc /\ Excuse({})
    BY <2>1 DEF ClearStale, RemoveState
  <2> QED
    BY <1>1, <1>4, <2>2, Fewer DEF Hands
<1>5. CASE at[c] = "ensure"
  <2>1. Ensure(c)
    BY <1>1, <1>2, <1>5, ActionAt
  <2>2. Judgement(job[c].settings) = "started" /\ UNCHANGED file
    BY <1>1, <2>1 DEF Ensure, Step, ServerTypes, ServerTypeOK
  <2>3. file.at = "recorded" /\ Matches(file.settings, job[c].settings)
    BY <1>1, <2>2 DEF Judgement, ServerTypes, ServerTypeOK
  <2>4. file.settings \in Settings /\ job[c].settings \in Settings /\ kind \in Kind
    BY <1>1 DEF ServerTypes, ServerTypeOK
  <2>5. \A f \in Fields \ (IF kind \in {"mysql", "postgresql"} THEN {"port"} ELSE {}) :
          file.settings[f] = job[c].settings[f]
    <3>1. CASE kind \in {"mailpit", "rabbitmq"}
      BY <2>3, <3>1 DEF Matches, MailpitMatches, RabbitMQMatches
    <3>2. CASE kind \in {"redis", "meilisearch"}
      BY <2>3, <2>4, <3>2 DEF Matches, Fields, RedisMatches, MeilisearchMatches, Settings
    <3>3. CASE kind = "traefik"
      BY <2>3, <2>4, <3>3 DEF Matches, Fields, TraefikMatches, Settings
    <3>4. CASE kind \in {"mysql", "postgresql"}
      BY <2>3, <2>4, <3>4 DEF Matches, Fields, DatabaseMatches, Settings
    <3> QED
      BY <2>4, <3>1, <3>2, <3>3, <3>4 DEF Kind
  <2> QED
    BY <1>5, <2>2, <2>3, <2>5
<1>6. CASE at[c] = "fill"
  <2>1. FillState(c)
    BY <1>1, <1>2, <1>6, ActionAt
  <2>2. file' = job[c].state
    BY <1>1, <2>1 DEF FillState, Step, ServerTypes, ServerTypeOK
  <2>3. job[c].state.at = "recorded" /\ job[c].state.settings = job[c].settings
    BY <1>1, <1>6 DEF ServerTypes, Starting
  <2> QED
    BY <1>6, <2>2, <2>3
<1> QED
  BY <1>3, <1>4, <1>5, <1>6

-----------------------------------------------------------------------------
(* Workers. *)

Plain(x) == Work!Ours(x) /\ x \notin forgiven
Starts == {"start", "fill", "undo"}
Reads == {"match", "replace", "stop"}
WorkerLabel == {"idle", "done", "ensure", "load", "forget", "build", "remove"} \cup Starts \cup Reads

LoneRunner == \A r, q \in Runner : Work!Active(r) /\ Work!Active(q) => r = q

\* What a state file, or a command, may say of processes.
Places == UNION {[S -> Work!Replica] : S \in SUBSET WorkerPid}
OneEach(f) ==
  \A x, y \in DOMAIN f : x # y => f[x].name # f[y].name \/ f[x].replica # f[y].replica

\* What is started: different replicas of the config, and others than are left to start.
Underway(known, todo, asks) ==
  /\ OneEach(known)
  /\ todo \subseteq Work!Replicas(asks)
  /\ \A x \in DOMAIN known : known[x] \in Work!Replicas(asks) \ todo

OnFile(x) == x \in DOMAIN named /\ process[x] = named[x]

\* What a command that runs alone, or none, knows of the workers.
WorkerHands(r) ==
  /\ step[r] \in {"ensure", "load"} \cup Reads => \A x \in WorkerPid : Plain(x) => OnFile(x)
  /\ step[r] \in Reads => \A x \in WorkerPid : Plain(x) => x \in DOMAIN work[r].known
  /\ step[r] \in {"forget", "build", "remove"} => \A x \in WorkerPid : ~Plain(x)
  /\ step[r] \in Starts => \A x \in WorkerPid : Plain(x) =>
        x \in DOMAIN work[r].known /\ process[x] = work[r].known[x]

WorkerTypes ==
  /\ Work!WorkersTypeOK
  /\ process \in [WorkerPid -> Work!Replica \cup {Stranger, NoProcess}]
  /\ named \in Places /\ OneEach(named)
  /\ step \in [Runner -> WorkerLabel]
  /\ work \in [Runner -> [config : Work!Configured, known : Places, todo : SUBSET Work!Replica]]
  /\ \A r \in Runner : step[r] \in Starts => Underway(work[r].known, work[r].todo, work[r].config)
  /\ \A r \in Runner : step[r] = "fill" => work[r].known # Work!Nothing

WorkerKnown ==
  /\ LoneRunner => \A r \in Runner : WorkerHands(r)
  /\ (\A r \in Runner : ~Work!Active(r)) => \A x \in WorkerPid : Plain(x) => OnFile(x)

WorkerInv == WorkerTypes /\ WorkerKnown

RunnerStep(r) ==
  \/ Work!StartWorkers(r)
  \/ Work!EnsureLoad(r)
  \/ Work!EnsureMatch(r)
  \/ Work!Replace(r)
  \/ Work!Forget(r)
  \/ Work!BuildWorkerSpecs(r)
  \/ Work!StartReplica(r)
  \/ Work!NoneStarted(r)
  \/ Work!WriteWorkersState(r)
  \/ Work!FillWorkersState(r)
  \/ Work!Undo(r)
  \/ Work!StopWorkers(r)
  \/ Work!StopLoad(r)
  \/ Work!StopAll(r)
  \/ Work!CountWorkers(r)
  \/ Work!StopRemove(r)
  \/ Work!KillRunner(r)

\* What is forgiven stays so, and all are when two runners are active.
LEMMA Forgiven ==
  ASSUME NEW xs, Work!Forgive(xs)
  PROVE  /\ forgiven' \subseteq WorkerPid
         /\ \A x \in WorkerPid :
              Work!Ours(x)' /\ (x \in xs \/ x \in forgiven \/ ~LoneRunner) => x \in forgiven'
BY DEF Work!Forgive, Work!Ours, LoneRunner

\* The empty record names nobody.
LEMMA NothingThere ==
  /\ Work!Nothing \in Places /\ DOMAIN Work!Nothing = {} /\ OneEach(Work!Nothing)
  /\ \A f \in Places : f # Work!Nothing => DOMAIN f # {}
<1>1. Work!Nothing \in [{} -> Work!Replica] /\ DOMAIN Work!Nothing = {}
  BY DEF Work!Nothing
<1>2. \A f \in Places : DOMAIN f = {} => f = Work!Nothing
  BY DEF Places, Work!Nothing
<1> QED
  BY <1>1, <1>2 DEF Places, OneEach

\* The empty work is of its type.
LEMMA NoWorkType ==
  Work!NoWork \in [config : Work!Configured, known : Places, todo : SUBSET Work!Replica]
<1>1. 0 \in 0 .. MaxReplicas
  BY ServicesAssumption DEF Work!WorkersAssumption
<1> QED
  BY <1>1, NothingThere DEF Work!NoWork, Work!Configured

\* A step of one runner changes no other's position and work.
LEMMA MoveFrame ==
  ASSUME WorkerTypes, NEW r \in Runner, NEW from \in WorkerLabel, NEW to \in WorkerLabel,
         NEW known \in Places, NEW todo \in SUBSET Work!Replica,
         Work!Move(r, from, to, known, todo)
  PROVE  /\ step[r] = from /\ step'[r] = to /\ step' \in [Runner -> WorkerLabel]
         /\ work' \in [Runner -> [config : Work!Configured, known : Places,
                                  todo : SUBSET Work!Replica]]
         /\ to \notin {"idle", "done"} =>
              /\ work'[r].config = work[r].config /\ work'[r].known = known
              /\ work'[r].todo = todo
         /\ \A q \in Runner \ {r} : step'[q] = step[q] /\ work'[q] = work[q]
         /\ single' \in [Runner -> BOOLEAN]
         /\ UNCHANGED <<workers, workerEdits>>
<1> USE DEF WorkerTypes, Work!Move
<1>2. single' \in [Runner -> BOOLEAN]
  BY DEF Work!WorkersTypeOK
<1>3. work' \in [Runner -> [config : Work!Configured, known : Places,
                            todo : SUBSET Work!Replica]]
  BY NoWorkType
<1>4. to \notin {"idle", "done"} =>
        /\ work'[r].config = work[r].config /\ work'[r].known = known /\ work'[r].todo = todo
  OBVIOUS
<1> QED
  BY <1>2, <1>3, <1>4

\* The records of a runner are the functions from sets of PIDs to replicas.
LEMMA InPlaces ==
  /\ \A f \in Places : f \in [DOMAIN f -> Work!Replica] /\ DOMAIN f \subseteq WorkerPid
  /\ \A S \in SUBSET WorkerPid : \A f \in [S -> Work!Replica] : f \in Places
BY DEF Places

\* What a command's own record may become.
WorkerFits(r, to, known, todo) ==
  /\ to \in Starts => Underway(known, todo, work[r].config)
  /\ to = "fill" => known # Work!Nothing

Moved(r) ==
  \E from \in WorkerLabel \ {"idle", "done"}, to \in WorkerLabel, known \in Places,
     todo \in SUBSET Work!Replica :
        Work!Move(r, from, to, known, todo) /\ WorkerFits(r, to, known, todo)

\* A step that ends a runner is a move,
LEMMA ToEnd ==
  ASSUME NEW r \in Runner, NEW from \in WorkerLabel \ {"idle", "done"},
         NEW to \in WorkerLabel \ Starts, Work!Move(r, from, to, Work!Nothing, {})
  PROVE  Moved(r)
BY NothingThere DEF Moved, WorkerFits, Starts

\* reading the state file is one,
LEMMA LoadMoves ==
  ASSUME WorkerTypes, NEW r \in Runner, NEW from \in {"ensure", "load"},
         NEW none \in {"build", "done"}, NEW some \in {"match", "stop"},
         Work!LoadState(r, from, none, some)
  PROVE  Moved(r)
<1>1. /\ from \in WorkerLabel \ {"idle", "done"} /\ none \in WorkerLabel \ Starts
      /\ some \in WorkerLabel \ Starts /\ "idle" \in WorkerLabel \ Starts
  BY DEF WorkerLabel, Starts, Reads
<1>2. ASSUME Work!Move(r, from, some, Work!Restrict(named, Work!LiveEntries), {})
      PROVE  Moved(r)
  <2>1. Work!LiveEntries \subseteq DOMAIN named /\ named \in Places
    BY DEF Work!LiveEntries, WorkerTypes
  <2>2. Work!Restrict(named, Work!LiveEntries) \in Places
    BY <2>1, InPlaces DEF Work!Restrict
  <2>3. {} \in SUBSET Work!Replica
    OBVIOUS
  <2>4. WorkerFits(r, some, Work!Restrict(named, Work!LiveEntries), {})
    BY <1>1 DEF WorkerFits, Starts
  <2> QED
    BY <1>1, <1>2, <2>2, <2>3, <2>4 DEF Moved
<1> QED
  BY <1>1, <1>2, ToEnd DEF Work!LoadState

\* comparing it with the config,
LEMMA MatchMoves ==
  ASSUME WorkerTypes, NEW r \in Runner, Work!EnsureMatch(r)
  PROVE  Moved(r)
<1>1. ASSUME Work!Move(r, "match", "replace", work[r].known, {})
      PROVE  Moved(r)
  <2>1. work[r].known \in Places /\ {} \in SUBSET Work!Replica
    BY DEF WorkerTypes
  <2>2. WorkerFits(r, "replace", work[r].known, {})
    BY DEF WorkerFits, Starts
  <2> QED
    BY <1>1, <2>1, <2>2 DEF Moved, WorkerLabel, Reads
<1> QED
  BY <1>1, ToEnd DEF Work!EnsureMatch, WorkerLabel, Reads, Starts

\* working out the replicas to start,
LEMMA BuildMoves ==
  ASSUME WorkerTypes, NEW r \in Runner, Work!BuildWorkerSpecs(r)
  PROVE  Moved(r)
<1>1. ASSUME NEW skipped \in SUBSET Worker,
             Work!Move(r, "build", "start", Work!Nothing,
                       {p \in Work!Replicas(work[r].config) : p.name \notin skipped})
      PROVE  Moved(r)
  <2> DEFINE todo == {p \in Work!Replicas(work[r].config) : p.name \notin skipped}
  <2>1. todo \in SUBSET Work!Replica
    BY DEF Work!Replicas
  <2>2. Underway(Work!Nothing, todo, work[r].config)
    BY NothingThere DEF Underway
  <2>3. WorkerFits(r, "start", Work!Nothing, todo)
    BY <2>2 DEF WorkerFits
  <2> HIDE DEF todo
  <2>4. Work!Move(r, "build", "start", Work!Nothing, todo)
    BY <1>1 DEF todo
  <2> QED
    BY <2>1, <2>3, <2>4, NothingThere DEF Moved, WorkerLabel, Starts
<1> QED
  BY <1>1, ToEnd DEF Work!BuildWorkerSpecs, WorkerLabel, Starts

\* and starting one of them.
LEMMA StartMoves ==
  ASSUME WorkerTypes, NEW r \in Runner, Work!StartReplica(r)
  PROVE  Moved(r)
<1>1. PICK p \in work[r].todo :
        \/ Work!Move(r, "start", "start", work[r].known, work[r].todo \ {p})
        \/ \E x \in WorkerPid \ DOMAIN work[r].known :
             Work!Move(r, "start", "start",
                       [y \in DOMAIN work[r].known \cup {x} |->
                          IF y = x THEN p ELSE work[r].known[y]],
                       work[r].todo \ {p})
  BY DEF Work!StartReplica
<1> DEFINE rest == work[r].todo \ {p}
<1>2. /\ step[r] = "start" /\ work[r].known \in Places /\ work[r].todo \subseteq Work!Replica
      /\ rest \in SUBSET Work!Replica
  BY <1>1 DEF Work!Move, WorkerTypes
<1>3. Underway(work[r].known, work[r].todo, work[r].config)
  BY <1>2 DEF WorkerTypes, Starts
<1>4. CASE Work!Move(r, "start", "start", work[r].known, rest)
  <2>1. WorkerFits(r, "start", work[r].known, rest)
    BY <1>3 DEF WorkerFits, Underway
  <2> QED
    BY <1>2, <1>4, <2>1 DEF Moved, WorkerLabel, Starts
<1>5. ASSUME NEW x \in WorkerPid \ DOMAIN work[r].known, NEW known,
             known = [y \in DOMAIN work[r].known \cup {x} |->
                        IF y = x THEN p ELSE work[r].known[y]],
             Work!Move(r, "start", "start", known, rest)
      PROVE  Moved(r)
  <2>1. /\ DOMAIN known = DOMAIN work[r].known \cup {x} /\ known[x] = p
        /\ \A y \in DOMAIN work[r].known : known[y] = work[r].known[y]
    BY <1>5
  <2>2. known \in Places
    <3>1. DOMAIN known \subseteq WorkerPid /\ \A y \in DOMAIN known : known[y] \in Work!Replica
      BY <1>1, <1>2, <2>1, InPlaces
    <3>2. known \in [DOMAIN known -> Work!Replica]
      BY <1>5, <2>1, <3>1
    <3> QED
      BY <3>1, <3>2, InPlaces
  <2>3. OneEach(known)
    <3>1. ASSUME NEW y \in DOMAIN work[r].known
          PROVE  work[r].known[y].name # p.name \/ work[r].known[y].replica # p.replica
      <4>1. /\ p \in Work!Replica /\ p.command = work[r].config[p.name].command
            /\ work[r].known[y] \in Work!Replica /\ work[r].known[y] # p
            /\ work[r].known[y].command = work[r].config[work[r].known[y].name].command
        BY <1>1, <1>3, <3>1 DEF Underway, Work!Replicas
      <4> QED
        BY <4>1 DEF Work!Replica
    <3> QED
      BY <1>3, <2>1, <3>1 DEF OneEach, Underway
  <2>4. Underway(known, rest, work[r].config)
    BY <1>1, <1>3, <2>1, <2>3 DEF Underway
  <2>5. WorkerFits(r, "start", known, rest)
    BY <2>4 DEF WorkerFits
  <2> QED
    BY <1>2, <1>5, <2>2, <2>5 DEF Moved, WorkerLabel, Starts
<1> QED
  BY <1>1, <1>4, <1>5

WorkersBegun(r) == Work!Begin(r, "ensure") \/ Work!Begin(r, "load")

\* Every step of a runner begins it or moves it along.
LEMMA RunnerShape ==
  ASSUME WorkerTypes, NEW r \in Runner, RunnerStep(r)
  PROVE  WorkersBegun(r) \/ Moved(r) \/ Work!KillRunner(r)
<1>0. /\ {"ensure", "load", "forget", "build", "remove", "start", "fill", "undo", "match",
          "replace", "stop"} \subseteq WorkerLabel \ {"idle", "done"}
      /\ {"idle", "done", "build", "forget", "remove"} \subseteq WorkerLabel \ Starts
      /\ {} \in SUBSET Work!Replica
  BY DEF WorkerLabel, Starts, Reads
<1>1. CASE Work!StartWorkers(r) \/ Work!StopWorkers(r) \/ Work!KillRunner(r)
  BY <1>1 DEF WorkersBegun, Work!StartWorkers, Work!StopWorkers
<1>2. CASE Work!EnsureLoad(r) \/ Work!StopLoad(r)
  BY <1>2, LoadMoves DEF Work!EnsureLoad, Work!StopLoad
<1>3. CASE Work!EnsureMatch(r) \/ Work!BuildWorkerSpecs(r) \/ Work!StartReplica(r)
  BY <1>3, MatchMoves, BuildMoves, StartMoves
<1>4. CASE Work!Replace(r) \/ Work!Forget(r) \/ Work!NoneStarted(r) \/ Work!Undo(r)
           \/ Work!StopAll(r) \/ Work!CountWorkers(r) \/ Work!StopRemove(r)
  BY <1>0, <1>4, ToEnd
  DEF Work!Replace, Work!Forget, Work!NoneStarted, Work!Undo, Work!StopAll, Work!CountWorkers,
      Work!StopRemove, Work!RemoveState
<1>5. CASE Work!WriteWorkersState(r) \/ Work!FillWorkersState(r)
  <2>1. \/ Moved(r)
        \/ \E from \in {"start", "fill"}, to \in {"fill", "undo"} :
             /\ Work!Move(r, from, to, work[r].known, {})
             /\ from = "start" => work[r].todo = {} /\ work[r].known # Work!Nothing
             /\ to = "fill" => from = "start"
    BY <1>0, <1>5, ToEnd DEF Work!WriteWorkersState, Work!FillWorkersState
  <2>2. ASSUME NEW from \in {"start", "fill"}, NEW to \in {"fill", "undo"},
               Work!Move(r, from, to, work[r].known, {}),
               from = "start" => work[r].todo = {} /\ work[r].known # Work!Nothing,
               to = "fill" => from = "start"
        PROVE  Moved(r)
    <3>1. step[r] = from /\ work[r].known \in Places
      BY <2>2 DEF Work!Move, WorkerTypes
    <3>2. Underway(work[r].known, work[r].todo, work[r].config)
      BY <3>1 DEF WorkerTypes, Starts
    <3>3. Underway(work[r].known, {}, work[r].config)
      BY <3>2 DEF Underway
    <3>4. WorkerFits(r, to, work[r].known, {})
      BY <2>2, <3>3 DEF WorkerFits
    <3> QED
      BY <1>0, <2>2, <3>1, <3>4 DEF Moved
  <2> QED
    BY <2>1, <2>2
<1> QED
  BY <1>1, <1>2, <1>3, <1>4, <1>5 DEF RunnerStep

\* The state file and the processes after a step.
WorkersWorld ==
  /\ state \in {"absent", "garbled", "names"}
  /\ (named = Work!Nothing) <=> (state # "names")
  /\ process \in [WorkerPid -> Work!Replica \cup {Stranger, NoProcess}]
  /\ named \in Places /\ OneEach(named)
  /\ forgiven \subseteq WorkerPid

\* The types say what the processes and the state file may be.
LEMMA WorldOfTypes == WorkerTypes => WorkersWorld
BY DEF WorkerTypes, WorkersWorld, Work!WorkersTypeOK

\* What a step does to the processes: those that end, and those that begin.
Ended(xs) ==
  /\ \A x \in WorkerPid \ xs : process'[x] = process[x]
  /\ \A x \in WorkerPid \cap xs : process'[x] \in {process[x], NoProcess, Stranger}
  /\ process' \in [WorkerPid -> Work!Replica \cup {Stranger, NoProcess}]

\* A stop ends all it names, but for those that are stuck, which are forgiven.
LEMMA StopEnds ==
  ASSUME WorkerTypes, NEW known, Work!StopProcesses(known)
  PROVE  /\ Ended(DOMAIN known)
         /\ \E stuck \in SUBSET DOMAIN known :
              /\ Work!Forgive(stuck)
              /\ \A x \in WorkerPid \cap (DOMAIN known \ stuck) : process'[x] = NoProcess
BY DEF Work!StopProcesses, Ended, WorkerTypes

\* Without a start no replica comes to be lost.
LEMMA WorkersFewer ==
  ASSUME WorkerTypes, NEW xs, Work!Forgive(xs), NEW ys, Ended(ys)
  PROVE  \A x \in WorkerPid : Plain(x)' =>
           Plain(x) /\ process'[x] = process[x] /\ x \notin xs /\ LoneRunner
<1>1. SUFFICES ASSUME NEW x \in WorkerPid, Plain(x)'
               PROVE  Plain(x) /\ process'[x] = process[x] /\ x \notin xs /\ LoneRunner
  OBVIOUS
<1>2. process'[x] = process[x]
  BY <1>1 DEF Ended, Plain, Work!Ours
<1> QED
  BY <1>1, <1>2, Forgiven DEF Plain, Work!Ours

\* A step of a runner keeps the types of the processes and of the state file.
LEMMA RunnerWorld ==
  ASSUME WorkerTypes, NEW r \in Runner, RunnerStep(r)
  PROVE  WorkersWorld'
<1>0. WorkersWorld /\ process \in [WorkerPid -> Work!Replica \cup {Stranger, NoProcess}]
  BY WorldOfTypes DEF WorkersWorld
<1>1. ASSUME NEW xs, Work!Forgive(xs)
      PROVE  forgiven' \subseteq WorkerPid
  BY <1>1, Forgiven
<1>2. CASE Work!StartWorkers(r) \/ Work!StopWorkers(r) \/ Work!KillRunner(r) \/ Work!EnsureMatch(r)
           \/ Work!BuildWorkerSpecs(r) \/ Work!NoneStarted(r) \/ Work!CountWorkers(r)
  <2>1. UNCHANGED <<state, named, process>> /\ \E xs : Work!Forgive(xs)
    BY <1>2 DEF Work!StartWorkers, Work!StopWorkers, Work!KillRunner, Work!EnsureMatch, Work!Begin,
                Work!BuildWorkerSpecs, Work!NoneStarted, Work!CountWorkers
  <2> QED
    BY <1>0, <1>1, <2>1 DEF WorkersWorld
<1>3. CASE Work!EnsureLoad(r) \/ Work!StopLoad(r) \/ Work!Forget(r) \/ Work!StopRemove(r)
           \/ Work!WriteWorkersState(r)
  <2>1. /\ \/ UNCHANGED <<state, named>>
           \/ state' \in {"absent", "garbled"} /\ named' = Work!Nothing
        /\ UNCHANGED process /\ Work!Forgive({})
    BY <1>3 DEF Work!EnsureLoad, Work!StopLoad, Work!Forget, Work!StopRemove, Work!LoadState,
                Work!RemoveState, Work!WriteWorkersState
  <2> QED
    BY <1>0, <1>1, <2>1, NothingThere DEF WorkersWorld
<1>4. CASE Work!Replace(r) \/ Work!Undo(r) \/ Work!StopAll(r)
  <2>1. UNCHANGED <<state, named>> /\ Work!StopProcesses(work[r].known)
    BY <1>4 DEF Work!Replace, Work!Undo, Work!StopAll
  <2> QED
    BY <1>0, <1>1, <2>1, StopEnds DEF WorkersWorld, Ended
<1>5. CASE Work!StartReplica(r)
  <2>1. UNCHANGED <<state, named>> /\ Work!Forgive({})
    BY <1>5 DEF Work!StartReplica
  <2>2. \/ UNCHANGED process
        \/ \E p \in work[r].todo, x \in WorkerPid : process' = [process EXCEPT ![x] = p]
    BY <1>5 DEF Work!StartReplica
  <2>3. work[r].todo \subseteq Work!Replica
    BY DEF WorkerTypes
  <2> QED
    BY <1>0, <1>1, <2>1, <2>2, <2>3 DEF WorkersWorld
<1>6. CASE Work!FillWorkersState(r)
  <2>1. step[r] = "fill" /\ UNCHANGED process /\ Work!Forgive({})
    BY <1>6 DEF Work!FillWorkersState, Work!Move
  <2>2. work[r].known \in Places /\ work[r].known # Work!Nothing /\ OneEach(work[r].known)
    BY <2>1 DEF WorkerTypes, Starts, Underway
  <2>3. \/ UNCHANGED <<state, named>>
        \/ state' = "names" /\ named' = work[r].known
    BY <1>6 DEF Work!FillWorkersState
  <2> QED
    BY <1>0, <1>1, <2>1, <2>2, <2>3 DEF WorkersWorld
<1> QED
  BY <1>2, <1>3, <1>4, <1>5, <1>6 DEF RunnerStep

\* What changes when a runner begins.
LEMMA WorkersBeginFrame ==
  ASSUME WorkerTypes, NEW r \in Runner, WorkersBegun(r)
  PROVE  /\ ~Work!Active(r) /\ step'[r] \in {"ensure", "load"} /\ step' \in [Runner -> WorkerLabel]
         /\ work' \in [Runner -> [config : Work!Configured, known : Places,
                                  todo : SUBSET Work!Replica]]
         /\ \A q \in Runner \ {r} : step'[q] = step[q] /\ work'[q] = work[q]
         /\ single' \in [Runner -> BOOLEAN]
         /\ UNCHANGED <<workers, workerEdits, state, named, process>> /\ Work!Forgive({})
<1>1. workers \in Work!Configured /\ single \in [Runner -> BOOLEAN]
  BY DEF WorkerTypes, Work!WorkersTypeOK
<1>2. work' = [work EXCEPT ![r] = [Work!NoWork EXCEPT !.config = workers]]
  BY DEF WorkersBegun, Work!Begin
<1>3. [Work!NoWork EXCEPT !.config = workers] \in
        [config : Work!Configured, known : Places, todo : SUBSET Work!Replica]
  BY <1>1, NothingThere DEF Work!NoWork
<1>4. single' \in [Runner -> BOOLEAN]
  <2> DEFINE others == {q \in Runner \ {r} : Work!Active(q)}
  <2>1. single' = [q \in Runner |-> IF q = r THEN others = {} ELSE single[q] /\ q \notin others]
    BY DEF WorkersBegun, Work!Begin
  <2> HIDE DEF others
  <2> QED
    BY <1>1, <2>1
<1>5. /\ step'[r] \in {"ensure", "load"} /\ step' \in [Runner -> WorkerLabel]
      /\ \A q \in Runner \ {r} : step'[q] = step[q]
  BY DEF WorkersBegun, Work!Begin, WorkerTypes, WorkerLabel
<1>6. /\ ~Work!Active(r) /\ Work!Forgive({})
      /\ UNCHANGED <<workers, workerEdits, state, named, process>>
  BY DEF WorkersBegun, Work!Begin
<1>7. /\ work' \in [Runner -> [config : Work!Configured, known : Places,
                               todo : SUBSET Work!Replica]]
      /\ \A q \in Runner \ {r} : work'[q] = work[q]
  BY <1>2, <1>3 DEF WorkerTypes
<1> QED
  BY <1>4, <1>5, <1>6, <1>7

\* What changes when a runner is killed.
LEMMA RunnerKillFrame ==
  ASSUME WorkerTypes, NEW r \in Runner, Work!KillRunner(r)
  PROVE  /\ Work!Active(r) /\ step'[r] = "idle" /\ step' \in [Runner -> WorkerLabel]
         /\ work' \in [Runner -> [config : Work!Configured, known : Places,
                                  todo : SUBSET Work!Replica]]
         /\ \A q \in Runner \ {r} : step'[q] = step[q] /\ work'[q] = work[q]
         /\ single' \in [Runner -> BOOLEAN]
         /\ UNCHANGED <<workers, workerEdits, state, named, process>>
         /\ Work!Forgive(DOMAIN work[r].known)
BY NoWorkType DEF Work!KillRunner, WorkerTypes, Work!WorkersTypeOK, WorkerLabel

\* Whatever a step does to its own runner's record, the types hold afterwards.
LEMMA RunnerTypes ==
  ASSUME WorkerTypes, NEW r \in Runner, RunnerStep(r)
  PROVE  WorkerTypes'
<1>0. WorkersWorld'
  BY RunnerWorld
<1>1. ASSUME /\ step' \in [Runner -> WorkerLabel] /\ single' \in [Runner -> BOOLEAN]
             /\ work' \in [Runner -> [config : Work!Configured, known : Places,
                                      todo : SUBSET Work!Replica]]
             /\ UNCHANGED <<workers, workerEdits>>,
             \A q \in Runner \ {r} : step'[q] = step[q] /\ work'[q] = work[q],
             /\ step'[r] \in Starts => Underway(work'[r].known, work'[r].todo, work'[r].config)
             /\ step'[r] = "fill" => work'[r].known # Work!Nothing
      PROVE  WorkerTypes'
  <2>1. Work!WorkersTypeOK'
    <3>1. DOMAIN named' \subseteq WorkerPid /\ \A x \in DOMAIN named' : named'[x] \in Work!Replica
      BY <1>0, InPlaces DEF WorkersWorld
    <3>2. /\ state' \in {"absent", "garbled", "names"}
          /\ (named' = Work!Nothing) <=> (state' # "names")
          /\ \A x \in WorkerPid : process'[x] \in Work!Replica \cup {Stranger, NoProcess}
          /\ forgiven' \subseteq WorkerPid
      BY <1>0 DEF WorkersWorld, Work!Nothing
    <3>3. \A q \in Runner : work'[q].config \in Work!Configured /\ work'[q].todo \subseteq Work!Replica
      BY <1>1
    <3>4. workers' \in Work!Configured /\ workerEdits' \in 0 .. MaxWorkerEdits
      BY <1>1 DEF WorkerTypes, Work!WorkersTypeOK
    <3> QED
      BY <1>1, <3>1, <3>2, <3>3, <3>4 DEF Work!WorkersTypeOK, Work!Nothing
  <2>2. \A q \in Runner : step'[q] \in Starts =>
          Underway(work'[q].known, work'[q].todo, work'[q].config)
    BY <1>1 DEF WorkerTypes
  <2>3. \A q \in Runner : step'[q] = "fill" => work'[q].known # Work!Nothing
    BY <1>1 DEF WorkerTypes
  <2> QED
    BY <1>0, <1>1, <2>1, <2>2, <2>3 DEF WorkerTypes, WorkersWorld, Work!Nothing
<1>2. CASE WorkersBegun(r)
  BY <1>1, <1>2, WorkersBeginFrame DEF Starts
<1>3. CASE Moved(r)
  <2>1. PICK from \in WorkerLabel \ {"idle", "done"}, to \in WorkerLabel, known \in Places,
             todo \in SUBSET Work!Replica :
                Work!Move(r, from, to, known, todo) /\ WorkerFits(r, to, known, todo)
    BY <1>3 DEF Moved
  <2>2. /\ step'[r] = to /\ step' \in [Runner -> WorkerLabel]
        /\ work' \in [Runner -> [config : Work!Configured, known : Places,
                                 todo : SUBSET Work!Replica]]
        /\ to \notin {"idle", "done"} =>
             /\ work'[r].config = work[r].config /\ work'[r].known = known
             /\ work'[r].todo = todo
        /\ \A q \in Runner \ {r} : step'[q] = step[q] /\ work'[q] = work[q]
        /\ single' \in [Runner -> BOOLEAN]
        /\ UNCHANGED <<workers, workerEdits>>
    <3>1. Work!Move(r, from, to, known, todo)
      BY <2>1
    <3> QED
      BY <3>1, MoveFrame
  <2> QED
    BY <1>1, <2>1, <2>2 DEF WorkerFits, Starts
<1>4. CASE Work!KillRunner(r)
  BY <1>1, <1>4, RunnerKillFrame DEF Starts
<1> QED
  BY <1>2, <1>3, <1>4, RunnerShape

\* A step that leaves the processes alone ends none.
LEMMA Unmoved ==
  ASSUME WorkerTypes, UNCHANGED process
  PROVE  Ended({})
BY DEF Ended, WorkerTypes

\* What is known after a step of r when no other command runs.
WorkerAfter(r) ==
  IF Work!Active(r)' THEN WorkerHands(r)' ELSE \A x \in WorkerPid : Plain(x)' => OnFile(x)'

\* When no replica of ours is unforgiven, what a runner has to know is true.
LEMMA NonePlain ==
  ASSUME NEW r \in Runner, \A x \in WorkerPid : ~Plain(x)'
  PROVE  WorkerAfter(r)
BY DEF WorkerAfter, WorkerHands

\* What a runner knows after it has read the state file,
LEMMA LoadKnows ==
  ASSUME WorkerTypes, NEW r \in Runner, WorkerHands(r), Work!EnsureLoad(r) \/ Work!StopLoad(r)
  PROVE  WorkerAfter(r)
<1>1. \A x \in WorkerPid : Plain(x) => OnFile(x)
  BY DEF Work!EnsureLoad, Work!StopLoad, Work!LoadState, Work!Move, WorkerHands
<1>2. UNCHANGED process /\ \A x \in WorkerPid : Plain(x)' => Plain(x)
  BY WorkersFewer, Unmoved DEF Work!EnsureLoad, Work!StopLoad
<1>3. \A x \in WorkerPid : Plain(x) => x \in Work!LiveEntries
  BY <1>1 DEF Plain, Work!Ours, OnFile, Work!LiveEntries, Work!Alive
<1>4. CASE UNCHANGED <<state, named>> /\ Work!LiveEntries # {} /\ state = "names"
  <2>1. PICK from \in {"ensure", "load"}, to \in {"match", "stop", "idle"} :
          Work!Move(r, from, to,
                    IF to = "idle" THEN Work!Nothing ELSE Work!Restrict(named, Work!LiveEntries), {})
    BY <1>4 DEF Work!EnsureLoad, Work!StopLoad, Work!LoadState
  <2>2. /\ step'[r] = to
        /\ to # "idle" => work'[r].known = Work!Restrict(named, Work!LiveEntries)
    BY <2>1 DEF Work!Move, WorkerTypes
  <2>3. to # "idle" => DOMAIN work'[r].known = Work!LiveEntries
    BY <2>2 DEF Work!Restrict
  <2>4. CASE to = "idle"
    BY <1>1, <1>2, <1>4, <2>2, <2>4 DEF WorkerAfter, Work!Active, OnFile
  <2>5. CASE to # "idle"
    BY <1>1, <1>2, <1>3, <1>4, <2>2, <2>3, <2>5
    DEF WorkerAfter, Work!Active, OnFile, WorkerHands, Reads, Starts
  <2> QED
    BY <2>4, <2>5
<1>5. CASE ~(Work!LiveEntries # {} /\ state = "names")
  <2>1. \A x \in WorkerPid : ~Plain(x)
    <3>1. state # "names" => DOMAIN named = {}
      BY NothingThere DEF WorkerTypes, Work!WorkersTypeOK, Work!Nothing
    <3> QED
      BY <1>1, <1>3, <1>5, <3>1 DEF OnFile
  <2> QED
    BY <1>2, <2>1, NonePlain
<1> QED
  BY <1>4, <1>5 DEF Work!EnsureLoad, Work!StopLoad, Work!LoadState

\* after it has compared it with the config,
LEMMA MatchHands ==
  ASSUME WorkerTypes, NEW r \in Runner, WorkerHands(r), Work!EnsureMatch(r) \/ Work!CountWorkers(r)
  PROVE  WorkerAfter(r)
<1>1. PICK from \in {"match", "stop"}, to \in {"done", "replace"} :
        Work!Move(r, from, to, IF to = "done" THEN Work!Nothing ELSE work[r].known, {})
  BY DEF Work!EnsureMatch, Work!CountWorkers
<1>2. /\ step[r] \in Reads /\ step'[r] = to
      /\ to = "replace" => work'[r].known = work[r].known
      /\ UNCHANGED <<state, named, process>>
  BY <1>1 DEF Work!Move, WorkerTypes, Reads, Work!EnsureMatch, Work!CountWorkers
<1>3. \A x \in WorkerPid : Plain(x) => OnFile(x) /\ x \in DOMAIN work[r].known
  BY <1>2 DEF WorkerHands
<1>4. \A x \in WorkerPid : Plain(x)' => Plain(x)
  BY WorkersFewer, Unmoved DEF Work!EnsureMatch, Work!CountWorkers
<1>5. \A x \in WorkerPid : Plain(x)' => OnFile(x)'
  BY <1>2, <1>3, <1>4 DEF OnFile
<1> QED
  <2>1. CASE to = "done"
    BY <1>2, <1>5, <2>1 DEF WorkerAfter, Work!Active
  <2>2. CASE to = "replace"
    <3>1. \A x \in WorkerPid : Plain(x)' => x \in DOMAIN work'[r].known
      BY <1>2, <1>3, <1>4, <2>2
    <3> QED
      BY <1>2, <1>5, <2>2, <3>1 DEF WorkerAfter, WorkerHands, Work!Active, Starts
  <2> QED
    BY <1>1, <2>1, <2>2

\* after it has stopped what it knew,
LEMMA StopKnows ==
  ASSUME WorkerTypes, NEW r \in Runner, WorkerHands(r),
         Work!Replace(r) \/ Work!Undo(r) \/ Work!StopAll(r)
  PROVE  WorkerAfter(r)
<1>1. step[r] \in Reads \cup {"undo"} /\ Work!StopProcesses(work[r].known)
  BY DEF Work!Replace, Work!Undo, Work!StopAll, Work!Move, Reads
<1>2. \A x \in WorkerPid : Plain(x) => x \in DOMAIN work[r].known
  BY <1>1 DEF WorkerHands, Starts, Reads
<1>3. Ended(DOMAIN work[r].known)
  BY <1>1, StopEnds
<1>4. PICK stuck \in SUBSET DOMAIN work[r].known :
        /\ Work!Forgive(stuck)
        /\ \A x \in WorkerPid \cap (DOMAIN work[r].known \ stuck) : process'[x] = NoProcess
  BY <1>1, StopEnds
<1>5. \A x \in WorkerPid : ~Plain(x)'
  <2>1. SUFFICES ASSUME NEW x \in WorkerPid, Plain(x)'
                 PROVE  FALSE
    OBVIOUS
  <2>2. Plain(x) /\ x \notin stuck
    BY <1>3, <1>4, <2>1, WorkersFewer
  <2> QED
    BY <1>2, <1>4, <2>1, <2>2 DEF Plain, Work!Ours
<1> QED
  BY <1>5, NonePlain

\* after it has removed the file or worked out what to start,
LEMMA RemoveHands ==
  ASSUME WorkerTypes, NEW r \in Runner, WorkerHands(r),
         Work!Forget(r) \/ Work!StopRemove(r) \/ Work!BuildWorkerSpecs(r)
  PROVE  WorkerAfter(r)
<1>1. step[r] \in {"forget", "build", "remove"}
  BY DEF Work!Forget, Work!StopRemove, Work!BuildWorkerSpecs, Work!RemoveState, Work!Move
<1>2. \A x \in WorkerPid : ~Plain(x)
  BY <1>1 DEF WorkerHands
<1>3. UNCHANGED process /\ Work!Forgive({})
  BY DEF Work!Forget, Work!StopRemove, Work!BuildWorkerSpecs, Work!RemoveState
<1> QED
  BY <1>2, <1>3, WorkersFewer, Unmoved, NonePlain

\* after it has started a replica,
LEMMA StartHands ==
  ASSUME WorkerTypes, NEW r \in Runner, WorkerHands(r), Work!StartReplica(r)
  PROVE  WorkerAfter(r)
<1>1. PICK p \in work[r].todo :
        /\ \/ /\ Work!Move(r, "start", "start", work[r].known, work[r].todo \ {p})
              /\ UNCHANGED process
           \/ \E x \in WorkerPid \ DOMAIN work[r].known :
                /\ process[x] = NoProcess
                /\ Work!Move(r, "start", "start",
                             [y \in DOMAIN work[r].known \cup {x} |->
                                IF y = x THEN p ELSE work[r].known[y]],
                             work[r].todo \ {p})
                /\ \/ process' = [process EXCEPT ![x] = p]
                   \/ UNCHANGED process
        /\ Work!Forgive({})
  BY DEF Work!StartReplica
<1>2. step[r] = "start" /\ step'[r] = "start"
  BY <1>1 DEF Work!Move, WorkerTypes
<1>3. \A x \in WorkerPid : Plain(x) => x \in DOMAIN work[r].known /\ process[x] = work[r].known[x]
  BY <1>2 DEF WorkerHands, Starts
<1>4. SUFFICES \A x \in WorkerPid : Plain(x)' =>
                 x \in DOMAIN work'[r].known /\ process'[x] = work'[r].known[x]
  BY <1>2 DEF WorkerAfter, Work!Active, WorkerHands, Reads, Starts
<1>5. CASE Work!Move(r, "start", "start", work[r].known, work[r].todo \ {p}) /\ UNCHANGED process
  <2>1. work'[r].known = work[r].known
    BY <1>5 DEF Work!Move, WorkerTypes
  <2> QED
    BY <1>1, <1>3, <1>5, <2>1, WorkersFewer, Unmoved
<1>6. ASSUME NEW x \in WorkerPid \ DOMAIN work[r].known, process[x] = NoProcess, NEW known,
             known = [y \in DOMAIN work[r].known \cup {x} |->
                        IF y = x THEN p ELSE work[r].known[y]],
             Work!Move(r, "start", "start", known, work[r].todo \ {p}),
             process' = [process EXCEPT ![x] = p] \/ UNCHANGED process
      PROVE  \A y \in WorkerPid : Plain(y)' =>
               y \in DOMAIN work'[r].known /\ process'[y] = work'[r].known[y]
  <2>1. work'[r].known = known
    BY <1>6 DEF Work!Move, WorkerTypes
  <2>2. /\ DOMAIN known = DOMAIN work[r].known \cup {x} /\ known[x] = p
        /\ \A y \in DOMAIN work[r].known : known[y] = work[r].known[y]
    BY <1>6
  <2>3. process'[x] \in {p, NoProcess} /\ \A y \in WorkerPid \ {x} : process'[y] = process[y]
    BY <1>6 DEF WorkerTypes
  <2>4. ASSUME NEW y \in WorkerPid, Plain(y)'
        PROVE  \/ y = x /\ process'[x] = p
               \/ Plain(y) /\ process'[y] = process[y]
    BY <1>1, <2>3, <2>4, Forgiven DEF Plain, Work!Ours
  <2> QED
    BY <1>3, <2>1, <2>2, <2>4
<1> QED
  BY <1>1, <1>5, <1>6

\* and after it has opened or filled the state file.
LEMMA RecordHands ==
  ASSUME WorkerTypes, NEW r \in Runner, WorkerHands(r),
         Work!NoneStarted(r) \/ Work!WriteWorkersState(r) \/ Work!FillWorkersState(r)
  PROVE  WorkerAfter(r)
<1>1. step[r] \in Starts /\ UNCHANGED process /\ Work!Forgive({})
  BY DEF Work!NoneStarted, Work!WriteWorkersState, Work!FillWorkersState, Work!Move, Starts
<1>2. \A x \in WorkerPid : Plain(x) => x \in DOMAIN work[r].known /\ process[x] = work[r].known[x]
  BY <1>1 DEF WorkerHands
<1>3. \A x \in WorkerPid : Plain(x)' => Plain(x)
  BY <1>1, WorkersFewer, Unmoved
<1>4. CASE Work!NoneStarted(r)
  <2>1. \A x \in WorkerPid : ~Plain(x)
    BY <1>2, <1>4, NothingThere DEF Work!NoneStarted
  <2> QED
    BY <1>3, <2>1, NonePlain
<1>5. ASSUME NEW from, NEW to \in {"fill", "undo"}, Work!Move(r, from, to, work[r].known, {})
      PROVE  WorkerAfter(r)
  <2>1. step'[r] = to /\ work'[r].known = work[r].known
    BY <1>5 DEF Work!Move, WorkerTypes
  <2> QED
    BY <1>1, <1>2, <1>3, <2>1 DEF WorkerAfter, WorkerHands, Work!Active, Starts, Reads
<1>6. CASE step'[r] = "done" /\ named' = work[r].known
  BY <1>1, <1>2, <1>3, <1>6 DEF WorkerAfter, Work!Active, OnFile
<1>7. CASE Work!WriteWorkersState(r)
  BY <1>5, <1>7 DEF Work!WriteWorkersState
<1>8. CASE Work!FillWorkersState(r)
  <2>1. \/ Work!Move(r, "fill", "undo", work[r].known, {})
        \/ Work!Move(r, "fill", "done", Work!Nothing, {}) /\ named' = work[r].known
    BY <1>8 DEF Work!FillWorkersState
  <2>2. Work!Move(r, "fill", "done", Work!Nothing, {}) => step'[r] = "done"
    BY DEF Work!Move, WorkerTypes
  <2> QED
    BY <1>5, <1>6, <2>1, <2>2
<1> QED
  BY <1>4, <1>7, <1>8

\* After a kill nobody knows of the runner's replicas, which are forgiven.
LEMMA RunnerKillHands ==
  ASSUME WorkerTypes, NEW r \in Runner, WorkerHands(r), Work!KillRunner(r)
  PROVE  WorkerAfter(r)
<1>1. /\ Work!Active(r) /\ step'[r] = "idle" /\ UNCHANGED <<state, named, process>>
      /\ Work!Forgive(DOMAIN work[r].known)
  BY RunnerKillFrame
<1>2. \A x \in WorkerPid : Plain(x)' => Plain(x) /\ x \notin DOMAIN work[r].known
  BY <1>1, WorkersFewer, Unmoved
<1>3. step[r] \in {"ensure", "load"} \cup Reads \cup {"forget", "build", "remove"} \cup Starts
  BY <1>1 DEF WorkerTypes, WorkerLabel, Work!Active
<1>4. \A x \in WorkerPid : Plain(x)' => OnFile(x)
  BY <1>2, <1>3 DEF WorkerHands
<1> QED
  BY <1>1, <1>4 DEF WorkerAfter, Work!Active, OnFile

\* What a runner knows after any of its steps.
LEMMA RunnerHands ==
  ASSUME WorkerTypes, NEW r \in Runner, WorkerHands(r), RunnerStep(r), ~WorkersBegun(r)
  PROVE  WorkerAfter(r)
BY LoadKnows, MatchHands, StopKnows, RemoveHands, StartHands, RecordHands, RunnerKillHands
DEF RunnerStep, WorkersBegun, Work!StartWorkers, Work!StopWorkers

\* A step of a runner moves no other.
LEMMA OtherRunnersStay ==
  ASSUME WorkerTypes, NEW r \in Runner, RunnerStep(r)
  PROVE  /\ \A q \in Runner \ {r} : step'[q] = step[q]
         /\ WorkersBegun(r) \/ Work!Active(r)
<1>1. CASE WorkersBegun(r)
  BY <1>1, WorkersBeginFrame
<1>2. CASE Moved(r)
  <2>1. PICK from \in WorkerLabel \ {"idle", "done"}, to \in WorkerLabel, known \in Places,
             todo \in SUBSET Work!Replica : Work!Move(r, from, to, known, todo)
    BY <1>2 DEF Moved
  <2>2. step[r] = from /\ \A q \in Runner \ {r} : step'[q] = step[q]
    BY <2>1 DEF Work!Move, WorkerTypes
  <2> QED
    BY <2>2 DEF Work!Active
<1>3. CASE Work!KillRunner(r)
  BY <1>3, RunnerKillFrame
<1> QED
  BY <1>1, <1>2, <1>3, RunnerShape

\* A step of a runner keeps the invariant.
LEMMA RunnerInv ==
  ASSUME WorkerInv, NEW r \in Runner, RunnerStep(r)
  PROVE  WorkerInv'
<1>1. WorkerTypes'
  BY RunnerTypes DEF WorkerInv
<1>2. /\ \A q \in Runner \ {r} : step'[q] = step[q]
      /\ WorkersBegun(r) \/ Work!Active(r)
  BY OtherRunnersStay DEF WorkerInv
<1>3. CASE WorkersBegun(r)
  <2>1. /\ ~Work!Active(r) /\ step'[r] \in {"ensure", "load"}
        /\ UNCHANGED <<state, named, process>> /\ Work!Forgive({})
    BY <1>3, WorkersBeginFrame DEF WorkerInv
  <2>2. \A x \in WorkerPid : Plain(x)' => Plain(x)
    BY <2>1, WorkersFewer, Unmoved DEF WorkerInv
  <2>3. CASE \E q \in Runner \ {r} : Work!Active(q)
    <3>1. ~LoneRunner' /\ ~(\A q \in Runner : ~Work!Active(q)')
      BY <1>2, <2>1, <2>3 DEF LoneRunner, Work!Active
    <3> QED
      BY <1>1, <3>1 DEF WorkerInv, WorkerKnown
  <2>4. CASE ~\E q \in Runner \ {r} : Work!Active(q)
    <3>1. \A x \in WorkerPid : Plain(x) => OnFile(x)
      BY <2>1, <2>4 DEF WorkerInv, WorkerKnown
    <3>2. \A x \in WorkerPid : Plain(x)' => OnFile(x)'
      BY <2>1, <2>2, <3>1 DEF OnFile
    <3>3. \A q \in Runner : step'[q] \in {"ensure", "load", "idle", "done"}
      BY <1>2, <2>1, <2>4 DEF Work!Active
    <3>4. \A q \in Runner : WorkerHands(q)'
      BY <3>2, <3>3 DEF WorkerHands, Reads, Starts
    <3> QED
      BY <1>1, <3>2, <3>4 DEF WorkerInv, WorkerKnown
  <2> QED
    BY <2>3, <2>4
<1>4. CASE ~WorkersBegun(r) /\ LoneRunner
  <2>1. WorkerAfter(r)
    BY <1>2, <1>4, RunnerHands DEF WorkerInv, WorkerKnown
  <2>2. \A q \in Runner \ {r} : step'[q] \in {"idle", "done"}
    BY <1>2, <1>4 DEF LoneRunner, Work!Active
  <2>3. \A q \in Runner \ {r} : WorkerHands(q)'
    BY <2>2 DEF WorkerHands, Reads, Starts
  <2>4. CASE Work!Active(r)'
    <3>1. WorkerHands(r)'
      BY <2>1, <2>4 DEF WorkerAfter
    <3> QED
      BY <1>1, <2>3, <2>4, <3>1 DEF WorkerInv, WorkerKnown
  <2>5. CASE ~Work!Active(r)'
    <3>1. \A x \in WorkerPid : Plain(x)' => OnFile(x)'
      BY <2>1, <2>5 DEF WorkerAfter
    <3>2. WorkerHands(r)'
      BY <2>5 DEF WorkerHands, Work!Active, Reads, Starts
    <3> QED
      BY <1>1, <2>3, <3>1, <3>2 DEF WorkerInv, WorkerKnown
  <2> QED
    BY <2>4, <2>5
<1>5. CASE ~LoneRunner
  <2>1. \E xs : Work!Forgive(xs)
    <3>1. ASSUME NEW known, Work!StopProcesses(known)
          PROVE  \E xs : Work!Forgive(xs)
      BY <3>1 DEF Work!StopProcesses
    <3> QED
      BY <3>1
      DEF RunnerStep, Work!StartWorkers, Work!StopWorkers, Work!Begin, Work!EnsureLoad,
          Work!StopLoad, Work!EnsureMatch, Work!Replace, Work!Forget, Work!RemoveState,
          Work!BuildWorkerSpecs, Work!StartReplica, Work!NoneStarted, Work!WriteWorkersState,
          Work!FillWorkersState, Work!Undo, Work!StopAll, Work!CountWorkers, Work!StopRemove,
          Work!KillRunner
  <2>2. \A x \in WorkerPid : ~Plain(x)'
    BY <1>5, <2>1, Forgiven DEF Plain
  <2> QED
    BY <1>1, <2>2 DEF WorkerInv, WorkerKnown, WorkerHands
<1> QED
  BY <1>3, <1>4, <1>5

\* A replica that ends, another's process, an edit.
LEMMA WorkersOutside ==
  ASSUME WorkerInv,
         \/ \E x \in WorkerPid : Work!WorkerEnds(x) \/ Work!PidReused(x)
         \/ Work!EditWorkers
  PROVE  WorkerInv'
<1>1. /\ UNCHANGED <<state, named, step, work, single>> /\ Work!Forgive({})
      /\ workers' \in Work!Configured /\ workerEdits' \in 0 .. MaxWorkerEdits
  <2>1. workers \in Work!Configured /\ workerEdits \in 0 .. MaxWorkerEdits
    BY DEF WorkerInv, WorkerTypes, Work!WorkersTypeOK
  <2>2. CASE \E x \in WorkerPid : Work!WorkerEnds(x) \/ Work!PidReused(x)
    BY <2>1, <2>2 DEF Work!WorkerEnds, Work!PidReused, Work!Elsewhere
  <2>3. CASE Work!EditWorkers
    BY <2>1, <2>3, ServicesAssumption DEF Work!EditWorkers, Work!Configured, Work!WorkersAssumption
  <2> QED
    BY <2>2, <2>3
<1>2. Ended(WorkerPid)
  BY DEF Ended, Work!WorkerEnds, Work!PidReused, Work!EditWorkers, WorkerInv, WorkerTypes
<1>3. \A x \in WorkerPid : Plain(x)' => Plain(x) /\ process'[x] = process[x]
  BY <1>1, <1>2, WorkersFewer DEF WorkerInv
<1>4. WorkerTypes'
  <2>1. forgiven' \subseteq WorkerPid
    BY <1>1, Forgiven
  <2> QED
    BY <1>1, <1>2, <2>1 DEF WorkerInv, WorkerTypes, Work!WorkersTypeOK, Ended, Work!Nothing
<1>5. WorkerKnown'
  <2>1. LoneRunner' = LoneRunner /\ \A r \in Runner : Work!Active(r)' = Work!Active(r)
    BY <1>1 DEF LoneRunner, Work!Active
  <2>2. \A r \in Runner : WorkerHands(r) => WorkerHands(r)'
    BY <1>1, <1>3 DEF WorkerHands, OnFile
  <2>3. \A x \in WorkerPid : Plain(x)' /\ OnFile(x) => OnFile(x)'
    BY <1>1, <1>3 DEF OnFile
  <2> QED
    BY <1>3, <2>1, <2>2, <2>3 DEF WorkerInv, WorkerKnown
<1> QED
  BY <1>4, <1>5 DEF WorkerInv

\* Every step of the workers' commands, and of the workers, keeps the invariant.
LEMMA WorkersStep == WorkerInv /\ Work!WorkersNext => WorkerInv'
<1> SUFFICES ASSUME WorkerInv, Work!WorkersNext
             PROVE  WorkerInv'
  OBVIOUS
<1>1. CASE \E r \in Runner : RunnerStep(r)
  BY <1>1, RunnerInv
<1>2. CASE \/ \E x \in WorkerPid : Work!WorkerEnds(x) \/ Work!PidReused(x)
           \/ Work!EditWorkers
  BY <1>2, WorkersOutside
<1> QED
  BY <1>1, <1>2 DEF Work!WorkersNext, RunnerStep

\* It holds at the start.
LEMMA WorkersStart == Work!WorkersInit => WorkerInv
<1> SUFFICES ASSUME Work!WorkersInit
             PROVE  WorkerInv
  OBVIOUS
<1>1. workers \in Work!Configured /\ workerEdits \in 0 .. MaxWorkerEdits
  BY ServicesAssumption DEF Work!WorkersInit, Work!Configured, Work!WorkersAssumption
<1>2. /\ \A r \in Runner : step[r] = "idle"
      /\ \A x \in WorkerPid : ~Plain(x)
  BY DEF Work!WorkersInit, Plain, Work!Ours
<1>3. /\ process \in [WorkerPid -> Work!Replica \cup {Stranger, NoProcess}]
      /\ step \in [Runner -> WorkerLabel] /\ single \in [Runner -> BOOLEAN]
      /\ work \in [Runner -> [config : Work!Configured, known : Places,
                              todo : SUBSET Work!Replica]]
  BY NoWorkType DEF Work!WorkersInit, WorkerLabel
<1>4. /\ named = Work!Nothing /\ state = "absent" /\ forgiven = {}
      /\ named \in Places /\ OneEach(named) /\ DOMAIN named = {}
  BY NothingThere DEF Work!WorkersInit
<1>5. Work!WorkersTypeOK
  BY <1>1, <1>3, <1>4 DEF Work!WorkersTypeOK, Work!Nothing
<1> QED
  BY <1>2, <1>3, <1>4, <1>5 DEF WorkerInv, WorkerTypes, WorkerKnown, WorkerHands, Starts, Reads

\* What the state file names, each replica once, is every worker that runs.
LEMMA WorkersAreKept == WorkerInv => Work!NoWorkerLost
<1> SUFFICES ASSUME WorkerInv, \A r \in Runner : ~Work!Active(r)
             PROVE  /\ \A x \in WorkerPid : Plain(x) => x \in DOMAIN named
                    /\ \A x, y \in WorkerPid : Plain(x) /\ Plain(y) /\ x # y =>
                         \/ process[x].name # process[y].name
                         \/ process[x].replica # process[y].replica
  BY DEF Work!NoWorkerLost, Plain
<1>1. \A x \in WorkerPid : Plain(x) => x \in DOMAIN named /\ process[x] = named[x]
  BY DEF WorkerInv, WorkerKnown, OnFile
<1> QED
  BY <1>1 DEF WorkerInv, WorkerTypes, OneEach

-----------------------------------------------------------------------------
(* The webserver. *)

Launching == {"listen", "write", "fill", "undo"}
Finding == {"look", "find", "first", "second"}
StageLabel == {"idle", "done", "route", "launch", "upstream", "front", "close", "forget"}
                \cup Launching \cup Finding

\* A process that somebody has to know of.
Missed(x) == Web!Mine(x) /\ x \notin pardoned
LoneServe == \A c, d \in ServeCommand : Web!Busy(c) /\ Web!Busy(d) => c = d
\* Where a file or a hand names a process: a php-cgi only as such.
Placed(x, h) == x \in {h.web, h.cgi} /\ (task[x] = "cgi" => x = h.cgi)
Filed(x) == stateFile.at = "names" /\ Placed(x, stateFile)
\* A web process that answers at the address of the request.
Reaches(x, q) == task[x] = "web" => x \in open /\ aim[x] = q.address

\* What is in the hands of a command.
Pair(webs, cgis, requests) == [at : {"names"}, web : webs, cgi : cgis, request : requests]
SomePid == ServePid \cup {Web!None}
HandFile == {Web!NoFile, Web!Damaged} \cup Pair(SomePid, SomePid, Web!Request)

\* What a command that runs alone, or none, knows of the processes.
ServeHands(c) ==
  /\ stage[c] \in Finding => \A x \in ServePid : Missed(x) => Filed(x) /\ Reaches(x, stateFile.request)
  /\ stage[c] \in {"route", "launch", "close", "forget"} => \A x \in ServePid : ~Missed(x)
  /\ stage[c] \in {"upstream", "front"} => \A x \in ServePid : Missed(x) => x = hand[c].cgi /\ task[x] = "cgi"
  /\ stage[c] \in Launching => \A x \in ServePid : Missed(x) => Placed(x, hand[c])
  /\ stage[c] = "listen" => \A x \in ServePid : Missed(x) /\ task[x] = "web" =>
        x = hand[c].web /\ aim[x] = wish[c].address
  /\ stage[c] \in {"write", "fill"} => \A x \in ServePid : Missed(x) => Reaches(x, wish[c])
  /\ stage[c] \in {"first", "second"} => \A x \in ServePid : Missed(x) => hand[c] = stateFile
  /\ stage[c] = "second" => \A x \in ServePid : Missed(x) => x = stateFile.cgi

\* Only what has an address is open, or will be.
Addressed ==
  \A x \in ServePid : /\ task[x] = "web" \/ x \in open => aim[x] \in Address
                      /\ task[x] = "free" => x \notin open

ServeTypes ==
  /\ Web!ServeTypeOK /\ Addressed
  /\ stage \in [ServeCommand -> StageLabel]
  /\ wish \in [ServeCommand -> Web!Request]
  /\ hand \in [ServeCommand -> HandFile]
  /\ \A c \in ServeCommand : stage[c] \in Launching =>
       hand[c] \in Pair(ServePid, SomePid, {wish[c]})

ServeKnown ==
  /\ LoneServe => \A c \in ServeCommand : ServeHands(c)
  /\ (\A c \in ServeCommand : ~Web!Busy(c)) =>
       \A x \in ServePid : Missed(x) => Filed(x) /\ Reaches(x, stateFile.request)

ServeInv == ServeTypes /\ ServeKnown /\ Web!NoServeProcessLost

\* What is pardoned stays so, and all are when two commands run.
LEMMA Pardoned ==
  ASSUME NEW xs, Web!Pardon(xs)
  PROVE  /\ pardoned' \subseteq ServePid
         /\ \A x \in ServePid :
              Web!Mine(x)' /\ (x \in xs \/ x \in pardoned \/ ~LoneServe) => x \in pardoned'
BY DEF Web!Pardon, Web!Mine, LoneServe

\* The records a command may hold, by type.
LEMMA HandFacts ==
  /\ Web!NoFile \in HandFile /\ Web!Damaged \in HandFile
  /\ Web!NoFile.at = "absent" /\ Web!Damaged.at = "garbled"
  /\ Web!NoFile.web = Web!None /\ Web!NoFile.cgi = Web!None
  /\ Web!Damaged.web = Web!None /\ Web!Damaged.cgi = Web!None
  /\ \A h \in HandFile : h.web \in SomePid /\ h.cgi \in SomePid
  /\ \A webs \in SUBSET SomePid, cgis \in SUBSET SomePid, qs \in SUBSET Web!Request :
       Pair(webs, cgis, qs) \subseteq HandFile
<1>1. /\ Web!NoFile.at = "absent" /\ Web!Damaged.at = "garbled"
      /\ Web!NoFile.web = Web!None /\ Web!NoFile.cgi = Web!None
      /\ Web!Damaged.web = Web!None /\ Web!Damaged.cgi = Web!None
  BY DEF Web!NoFile, Web!Damaged
<1>2. \A h \in Pair(SomePid, SomePid, Web!Request) : h.web \in SomePid /\ h.cgi \in SomePid
  BY DEF Pair
<1>3. \A h \in HandFile : h.web \in SomePid /\ h.cgi \in SomePid
  BY <1>1, <1>2 DEF HandFile, SomePid
<1>4. \A webs \in SUBSET SomePid, cgis \in SUBSET SomePid, qs \in SUBSET Web!Request :
        Pair(webs, cgis, qs) \subseteq HandFile
  BY DEF HandFile, Pair
<1> QED
  BY <1>1, <1>3, <1>4 DEF HandFile

\* What a command's own record may become.
ServeFits(c, to, h) == to \in Launching => h \in Pair(ServePid, SomePid, {wish[c]})

Went(c) ==
  \E from \in StageLabel \ {"idle", "done"}, to \in StageLabel, h \in HandFile :
     Web!Go(c, from, to, h) /\ ServeFits(c, to, h)

Entered(c) == Web!Enter(c, "look") \/ Web!Enter(c, "find")

\* A step of one command changes no other's stage and record.
LEMMA GoFrame ==
  ASSUME ServeTypes, NEW c \in ServeCommand, NEW from \in StageLabel, NEW to \in StageLabel,
         NEW h \in HandFile, Web!Go(c, from, to, h)
  PROVE  /\ stage[c] = from /\ stage'[c] = to /\ stage' \in [ServeCommand -> StageLabel]
         /\ hand' \in [ServeCommand -> HandFile]
         /\ hand'[c] = IF to \in {"idle", "done"} THEN Web!NoFile ELSE h
         /\ \A d \in ServeCommand \ {c} : stage'[d] = stage[d] /\ hand'[d] = hand[d]
         /\ UNCHANGED <<wish, request, serveEdits, traefik>>
BY HandFacts DEF Web!Go, Web!World, ServeTypes

\* A step that drops the record is a step of a command,
LEMMA ServeEnd ==
  ASSUME NEW c \in ServeCommand, NEW from \in StageLabel \ {"idle", "done"},
         NEW to \in StageLabel \ Launching, Web!Go(c, from, to, Web!NoFile)
  PROVE  Went(c)
BY HandFacts DEF Went, ServeFits

\* one that carries the record along is,
LEMMA KeepHand ==
  ASSUME ServeTypes, NEW c \in ServeCommand, NEW from \in StageLabel \ {"idle", "done"},
         NEW to \in StageLabel, to \in Launching => from \in Launching,
         Web!Go(c, from, to, hand[c])
  PROVE  Went(c)
<1>1. hand[c] \in HandFile /\ stage[c] = from
  BY DEF Web!Go, ServeTypes
<1>2. ServeFits(c, to, hand[c])
  BY <1>1 DEF ServeFits, ServeTypes
<1> QED
  BY <1>1, <1>2 DEF Went

ServeStep(c) ==
  \/ Web!BeginServe(c)
  \/ Web!LookServe(c)
  \/ Web!PrepareProxy(c)
  \/ Web!LaunchCGI(c)
  \/ Web!UpstreamAnswers(c)
  \/ Web!LaunchFront(c)
  \/ Web!LaunchFrankenPHP(c)
  \/ Web!LaunchPHP(c)
  \/ \E from \in {"launch", "upstream", "front"} : Web!Quit(c, from)
  \/ Web!AddressAnswers(c)
  \/ Web!ListenTimeout(c)
  \/ Web!WriteServeState(c)
  \/ Web!FillServeState(c)
  \/ Web!UndoServe(c)
  \/ Web!BeginStop(c)
  \/ Web!FindServe(c)
  \/ Web!PrintAddress(c)
  \/ Web!StopPrimary(c)
  \/ Web!StopSecondary(c)
  \/ Web!AwaitClosed(c)
  \/ Web!RemoveServeState(c)
  \/ Web!KillServeCommand(c)

\* and so is one that starts a child.
LEMMA ChildMoves ==
  ASSUME ServeTypes, NEW c \in ServeCommand,
         NEW from \in {"launch", "front"}, NEW to \in {"upstream", "listen"},
         NEW role \in {"web", "cgi"}, (role = "web") <=> (to = "listen"),
         Web!Child(c, from, to, role)
  PROVE  Went(c)
<1>1. PICK x \in ServePid :
        Web!Go(c, from, to, IF role = "web" THEN Web!Names(x, hand[c].cgi, wish[c])
                                            ELSE Web!Names(Web!None, x, wish[c]))
  BY DEF Web!Child
<1>2. hand[c].cgi \in SomePid /\ wish[c] \in Web!Request
  BY HandFacts DEF ServeTypes
<1>3. /\ Web!Names(x, hand[c].cgi, wish[c]) \in Pair(ServePid, SomePid, {wish[c]}) \cap HandFile
      /\ Web!Names(Web!None, x, wish[c]) \in HandFile
  BY <1>2 DEF Web!Names, Pair, HandFile, SomePid
<1>4. /\ from \in StageLabel \ {"idle", "done"} /\ to \in StageLabel
      /\ to = "upstream" => to \notin Launching
  BY DEF StageLabel, Launching
<1> QED
  BY <1>1, <1>3, <1>4 DEF Went, ServeFits

\* Every step of a command begins it or moves it along.
LEMMA ServeShape ==
  ASSUME ServeTypes, NEW c \in ServeCommand, ServeStep(c)
  PROVE  Entered(c) \/ Went(c) \/ Web!KillServeCommand(c)
<1>0. /\ {"look", "find", "first", "second", "route", "launch", "upstream", "front", "close",
          "forget", "listen", "write", "fill", "undo"} \subseteq StageLabel \ {"idle", "done"}
      /\ {"idle", "done", "route", "launch", "forget", "first", "second", "close", "front"}
           \subseteq StageLabel \ Launching
      /\ {"listen", "write", "fill", "undo"} = Launching
  BY DEF StageLabel, Launching, Finding
<1>1. CASE Web!BeginServe(c) \/ Web!BeginStop(c) \/ Web!KillServeCommand(c)
  BY <1>1 DEF Web!BeginServe, Web!BeginStop, Entered
<1>2. CASE Web!LookServe(c)
  <2>1. \E to \in {"idle", "done", "route"} : Web!Go(c, "look", to, Web!NoFile)
    BY <1>2 DEF Web!LookServe, Web!LoadServe
  <2> QED
    BY <1>0, <2>1, ServeEnd
<1>3. CASE Web!FindServe(c)
  <2>1. \/ \E to \in {"idle", "done"} : Web!Go(c, "find", to, Web!NoFile)
        \/ stateFile.at = "names" /\ Web!Go(c, "find", "first", stateFile)
    BY <1>3 DEF Web!FindServe, Web!LoadServe
  <2>2. stateFile.at = "names" => stateFile \in HandFile
    BY DEF ServeTypes, Web!ServeTypeOK, HandFile, Pair, SomePid
  <2>3. ServeFits(c, "first", stateFile)
    BY <1>0 DEF ServeFits
  <2> QED
    BY <1>0, <2>1, <2>2, <2>3, ServeEnd DEF Went
<1>4. CASE Web!PrepareProxy(c) \/ Web!UndoServe(c) \/ Web!ListenTimeout(c) \/ Web!PrintAddress(c)
           \/ Web!RemoveServeState(c) \/ \E from \in {"launch", "upstream", "front"} : Web!Quit(c, from)
  <2>1. \E from \in {"route", "undo", "listen", "first", "forget", "launch", "upstream", "front"},
           to \in {"idle", "done", "launch"} : Web!Go(c, from, to, Web!NoFile)
    BY <1>4 DEF Web!PrepareProxy, Web!UndoServe, Web!ListenTimeout, Web!PrintAddress,
                Web!RemoveServeState, Web!Quit
  <2> QED
    BY <1>0, <2>1, ServeEnd
<1>5. CASE Web!LaunchCGI(c) \/ Web!LaunchFront(c) \/ Web!LaunchFrankenPHP(c) \/ Web!LaunchPHP(c)
  BY <1>5, ChildMoves
  DEF Web!LaunchCGI, Web!LaunchFront, Web!LaunchFrankenPHP, Web!LaunchPHP
<1>6. CASE Web!UpstreamAnswers(c)
  BY <1>0, <1>6, KeepHand DEF Web!UpstreamAnswers
<1>7. CASE Web!AddressAnswers(c) \/ Web!WriteServeState(c) \/ Web!FillServeState(c)
  BY <1>0, <1>7, KeepHand, ServeEnd
  DEF Web!AddressAnswers, Web!WriteServeState, Web!FillServeState
<1>8. CASE Web!StopPrimary(c) \/ Web!StopSecondary(c)
  BY <1>0, <1>8, KeepHand, ServeEnd DEF Web!StopPrimary, Web!StopSecondary, Web!StopPID
<1>9. CASE Web!AwaitClosed(c)
  BY <1>0, <1>9, ServeEnd DEF Web!AwaitClosed
<1> QED
  BY <1>1, <1>2, <1>3, <1>4, <1>5, <1>6, <1>7, <1>8, <1>9 DEF ServeStep

FileOK(f) ==
  IF f.at = "names" THEN f \in Pair(ServePid, SomePid, Web!Request)
                    ELSE f \in {Web!NoFile, Web!Damaged}

ProcessesOK ==
  /\ task \in [ServePid -> {"web", "cgi", "other", "free"}]
  /\ aim \in [ServePid -> Address \cup {NoRoute}] /\ open \subseteq ServePid
  /\ worked \subseteq Address
  /\ Addressed

\* What ServeTypes says of everything but the commands.
ServeWorld ==
  /\ request \in Web!Request /\ serveEdits \in 0 .. MaxServeEdits
  /\ FileOK(stateFile) /\ ProcessesOK
  /\ traefik \in BOOLEAN /\ route \in Address \cup {NoRoute}
  /\ pardoned \subseteq ServePid

\* The types, split into those of the world and those of the commands.
LEMMA ServeWorldTypes ==
  ServeTypes <=>
    /\ ServeWorld
    /\ stage \in [ServeCommand -> StageLabel]
    /\ wish \in [ServeCommand -> Web!Request]
    /\ hand \in [ServeCommand -> HandFile]
    /\ \A c \in ServeCommand : stage[c] \in Launching =>
         hand[c] \in Pair(ServePid, SomePid, {wish[c]})
<1>1. hand \in [ServeCommand -> HandFile] => \A c \in ServeCommand : Web!Held(c) \subseteq SomePid
  BY HandFacts DEF Web!Held
<1> QED
  BY <1>1 DEF ServeTypes, ServeWorld, Web!ServeTypeOK, ProcessesOK, FileOK, Pair, SomePid

\* Its prime, for use after a step.
LEMMA ServeTypesAfter ==
  ASSUME ServeWorld', (stage \in [ServeCommand -> StageLabel])',
         (wish \in [ServeCommand -> Web!Request])', (hand \in [ServeCommand -> HandFile])',
         (\A c \in ServeCommand : stage[c] \in Launching =>
            hand[c] \in Pair(ServePid, SomePid, {wish[c]}))'
  PROVE  ServeTypes'
<1>1. \A c \in ServeCommand : Web!Held(c)' \subseteq SomePid
  BY HandFacts DEF Web!Held
<1> QED
  BY <1>1 DEF ServeTypes, ServeWorld, Web!ServeTypeOK, ProcessesOK, FileOK, Pair, SomePid

\* Processes that go away keep the types of the processes,
LEMMA GoneKeeps ==
  ASSUME ProcessesOK, NEW xs, Web!Gone(xs), worked' \subseteq Address
  PROVE  ProcessesOK'
BY DEF ProcessesOK, Web!Gone, Addressed

\* and so does a child that is started,
LEMMA ChildKeeps ==
  ASSUME ServeTypes, NEW c \in ServeCommand, NEW from, NEW to, NEW role \in {"web", "cgi"},
         Web!Child(c, from, to, role)
  PROVE  ProcessesOK'
<1>1. PICK x \in ServePid :
        /\ task[x] = "free"
        /\ task' = [task EXCEPT ![x] = role]
        /\ aim' = [aim EXCEPT ![x] = IF role = "web" THEN wish[c].address ELSE NoRoute]
  BY DEF Web!Child
<1>2. UNCHANGED <<open, worked>>
  BY DEF Web!Child
<1>3. wish[c].address \in Address
  BY DEF ServeTypes, Web!Request
<1>4. ProcessesOK
  BY ServeWorldTypes DEF ServeWorld
<1>5. /\ task' \in [ServePid -> {"web", "cgi", "other", "free"}]
      /\ aim' \in [ServePid -> Address \cup {NoRoute}]
  BY <1>1, <1>3, <1>4 DEF ProcessesOK
<1>6. Addressed'
  <2>1. SUFFICES ASSUME NEW y \in ServePid
                 PROVE  /\ task'[y] = "web" \/ y \in open' => aim'[y] \in Address
                        /\ task'[y] = "free" => y \notin open'
    BY DEF Addressed
  <2>2. CASE y = x
    BY <1>1, <1>2, <1>3, <1>4, <2>2 DEF ProcessesOK, Addressed
  <2>3. CASE y # x
    BY <1>1, <1>2, <1>4, <2>3 DEF ProcessesOK, Addressed
  <2> QED
    BY <2>2, <2>3
<1> QED
  BY <1>2, <1>4, <1>5, <1>6 DEF ProcessesOK

\* a command that takes its children back,
LEMMA QuitKeeps ==
  ASSUME ServeTypes, NEW c \in ServeCommand, NEW from, Web!Quit(c, from)
  PROVE  ProcessesOK'
<1>1. ProcessesOK
  BY ServeWorldTypes DEF ServeWorld
<1>2. Web!Gone(Web!Held(c))
  BY DEF Web!Quit
<1>3. \/ UNCHANGED worked
      \/ worked' = worked \cup {aim[x] : x \in Web!Held(c) \cap open}
  BY DEF Web!Quit
<1>4. worked' \subseteq Address
  BY <1>1, <1>3 DEF ProcessesOK, Addressed
<1> QED
  BY <1>1, <1>2, <1>4, GoneKeeps

\* one that stops a PID,
LEMMA StopKeeps ==
  ASSUME ServeTypes, NEW c \in ServeCommand, NEW from, NEW to, NEW x, Web!StopPID(c, from, to, x)
  PROVE  ProcessesOK'
<1>1. ProcessesOK
  BY ServeWorldTypes DEF ServeWorld
<1>2. CASE Web!Processes
  BY <1>1, <1>2 DEF Web!Processes, ProcessesOK, Addressed
<1>3. CASE /\ Web!Gone({x})
           /\ UNCHANGED worked \/ (x \in open /\ worked' = worked \cup {aim[x]})
  <2>1. worked' \subseteq Address
    BY <1>1, <1>3 DEF ProcessesOK, Addressed
  <2> QED
    BY <1>1, <1>3, <2>1, GoneKeeps
<1> QED
  BY <1>2, <1>3 DEF Web!StopPID

\* and every other step of a command.
LEMMA ServeProcesses ==
  ASSUME ServeTypes, NEW c \in ServeCommand, ServeStep(c)
  PROVE  ProcessesOK'
<1>1. CASE Web!Processes
  BY <1>1, ServeWorldTypes DEF Web!Processes, ServeWorld, ProcessesOK, Addressed
<1>2. CASE \/ Web!UndoServe(c) \/ Web!ListenTimeout(c)
           \/ \E from \in {"launch", "upstream", "front"} : Web!Quit(c, from)
  BY <1>2, QuitKeeps DEF Web!UndoServe, Web!ListenTimeout
<1>3. CASE Web!LaunchCGI(c) \/ Web!LaunchFront(c) \/ Web!LaunchFrankenPHP(c) \/ Web!LaunchPHP(c)
  BY <1>3, ChildKeeps
  DEF Web!LaunchCGI, Web!LaunchFront, Web!LaunchFrankenPHP, Web!LaunchPHP
<1>4. CASE Web!StopPrimary(c) \/ Web!StopSecondary(c)
  BY <1>4, StopKeeps DEF Web!StopPrimary, Web!StopSecondary
<1> QED
  BY <1>1, <1>2, <1>3, <1>4
  DEF ServeStep, Web!BeginServe, Web!BeginStop, Web!Enter, Web!LookServe, Web!FindServe,
      Web!LoadServe, Web!PrepareProxy, Web!UpstreamAnswers, Web!AddressAnswers,
      Web!WriteServeState, Web!FillServeState, Web!PrintAddress, Web!AwaitClosed,
      Web!RemoveServeState, Web!KillServeCommand

\* What a step does to the state file and to the route.
LEMMA ServeFiles ==
  ASSUME ServeTypes, NEW c \in ServeCommand, ServeStep(c)
  PROVE  /\ \/ UNCHANGED stateFile
            \/ stateFile' \in {Web!NoFile, Web!Damaged}
            \/ stage[c] = "fill" /\ stateFile' = hand[c]
         /\ UNCHANGED route \/ route' = wish[c].address
         /\ \E xs : Web!Pardon(xs)
BY DEF ServeStep, Web!BeginServe, Web!BeginStop, Web!Enter, Web!LookServe, Web!FindServe,
       Web!LoadServe, Web!PrepareProxy, Web!UpstreamAnswers, Web!AddressAnswers,
       Web!WriteServeState, Web!FillServeState, Web!PrintAddress, Web!AwaitClosed,
       Web!RemoveServeState, Web!KillServeCommand, Web!LaunchCGI, Web!LaunchFront,
       Web!LaunchFrankenPHP, Web!LaunchPHP, Web!Child, Web!Quit, Web!UndoServe,
       Web!ListenTimeout, Web!StopPrimary, Web!StopSecondary, Web!Go

\* What changes when a command begins.
LEMMA EnterFrame ==
  ASSUME ServeTypes, NEW c \in ServeCommand, Entered(c)
  PROVE  /\ ~Web!Busy(c) /\ stage'[c] \in {"look", "find"}
         /\ stage' \in [ServeCommand -> StageLabel]
         /\ wish' \in [ServeCommand -> Web!Request]
         /\ \A d \in ServeCommand \ {c} : stage'[d] = stage[d] /\ wish'[d] = wish[d]
         /\ UNCHANGED <<stateFile, route, hand, request, serveEdits, traefik>>
         /\ Web!Processes /\ Web!Pardon({})
<1>1. request \in Web!Request
  BY ServeWorldTypes DEF ServeWorld
<1> QED
  BY <1>1 DEF Entered, Web!Enter, Web!World, ServeTypes, StageLabel, Finding

\* What changes when a command is killed.
LEMMA KillServeFrame ==
  ASSUME ServeTypes, NEW c \in ServeCommand, Web!KillServeCommand(c)
  PROVE  /\ Web!Busy(c) /\ stage'[c] = "idle" /\ stage' \in [ServeCommand -> StageLabel]
         /\ hand' \in [ServeCommand -> HandFile]
         /\ \A d \in ServeCommand \ {c} : stage'[d] = stage[d] /\ hand'[d] = hand[d]
         /\ UNCHANGED <<stateFile, route, wish, request, serveEdits, traefik>>
         /\ Web!Processes /\ Web!Pardon(Web!Held(c))
BY HandFacts DEF Web!KillServeCommand, Web!World, ServeTypes, StageLabel

\* A step of a command keeps the types.
LEMMA ServeStepTypes ==
  ASSUME ServeTypes, NEW c \in ServeCommand, ServeStep(c)
  PROVE  ServeTypes'
<1>0. /\ ServeWorld /\ stage \in [ServeCommand -> StageLabel]
      /\ wish \in [ServeCommand -> Web!Request] /\ hand \in [ServeCommand -> HandFile]
      /\ \A d \in ServeCommand : stage[d] \in Launching =>
           hand[d] \in Pair(ServePid, SomePid, {wish[d]})
  BY ServeWorldTypes
<1>1. FileOK(stateFile')
  <2>1. CASE UNCHANGED stateFile
    BY <1>0, <2>1 DEF ServeWorld
  <2>2. CASE stateFile' \in {Web!NoFile, Web!Damaged}
    BY <2>2, HandFacts DEF FileOK
  <2>3. CASE stage[c] = "fill" /\ stateFile' = hand[c]
    <3>1. stateFile' \in Pair(ServePid, SomePid, {wish[c]}) /\ wish[c] \in Web!Request
      BY <1>0, <2>3 DEF Launching
    <3> QED
      BY <3>1 DEF FileOK, Pair, SomePid
  <2> QED
    BY <2>1, <2>2, <2>3, ServeFiles
<1>2. route' \in Address \cup {NoRoute} /\ pardoned' \subseteq ServePid
  <2>1. wish[c].address \in Address
    BY <1>0 DEF Web!Request
  <2> QED
    BY <1>0, <2>1, ServeFiles, Pardoned DEF ServeWorld
<1>3. ASSUME UNCHANGED <<request, serveEdits, traefik>>
      PROVE  ServeWorld'
  BY <1>0, <1>1, <1>2, <1>3, ServeProcesses DEF ServeWorld, FileOK
<1>4. CASE Entered(c)
  <2>1. /\ stage'[c] \in {"look", "find"} /\ stage' \in [ServeCommand -> StageLabel]
        /\ wish' \in [ServeCommand -> Web!Request] /\ UNCHANGED hand
        /\ \A d \in ServeCommand \ {c} : stage'[d] = stage[d] /\ wish'[d] = wish[d]
        /\ UNCHANGED <<request, serveEdits, traefik>>
    BY <1>4, EnterFrame
  <2>2. \A d \in ServeCommand : stage'[d] \in Launching =>
          hand'[d] \in Pair(ServePid, SomePid, {wish'[d]})
    BY <1>0, <2>1 DEF Launching
  <2> QED
    BY <1>0, <1>3, <2>1, <2>2, ServeTypesAfter
<1>5. CASE Went(c)
  <2>1. PICK from \in StageLabel \ {"idle", "done"}, to \in StageLabel, h \in HandFile :
          Web!Go(c, from, to, h) /\ ServeFits(c, to, h)
    BY <1>5 DEF Went
  <2>2. /\ stage'[c] = to /\ stage' \in [ServeCommand -> StageLabel]
        /\ hand' \in [ServeCommand -> HandFile]
        /\ hand'[c] = IF to \in {"idle", "done"} THEN Web!NoFile ELSE h
        /\ \A d \in ServeCommand \ {c} : stage'[d] = stage[d] /\ hand'[d] = hand[d]
        /\ UNCHANGED <<wish, request, serveEdits, traefik>>
    BY <2>1, GoFrame
  <2>3. \A d \in ServeCommand : stage'[d] \in Launching =>
          hand'[d] \in Pair(ServePid, SomePid, {wish'[d]})
    BY <1>0, <2>1, <2>2 DEF ServeFits, Launching
  <2> QED
    BY <1>0, <1>3, <2>2, <2>3, ServeTypesAfter
<1>6. CASE Web!KillServeCommand(c)
  <2>1. /\ stage'[c] = "idle" /\ stage' \in [ServeCommand -> StageLabel]
        /\ hand' \in [ServeCommand -> HandFile]
        /\ \A d \in ServeCommand \ {c} : stage'[d] = stage[d] /\ hand'[d] = hand[d]
        /\ UNCHANGED <<wish, request, serveEdits, traefik>>
    BY <1>6, KillServeFrame
  <2>2. \A d \in ServeCommand : stage'[d] \in Launching =>
          hand'[d] \in Pair(ServePid, SomePid, {wish'[d]})
    BY <1>0, <2>1 DEF Launching
  <2> QED
    BY <1>0, <1>3, <2>1, <2>2, ServeTypesAfter
<1> QED
  BY <1>4, <1>5, <1>6, ServeShape

-----------------------------------------------------------------------------
\* A step that starts no process: what lives after it lived before, as it was.
Fades ==
  \A x \in ServePid : Web!Mine(x)' =>
    task'[x] = task[x] /\ aim'[x] = aim[x] /\ (x \in open => x \in open')

\* Where processes only go away, nothing else changes about those that stay.
LEMMA Fading ==
  ASSUME ServeTypes
  PROVE  /\ Web!Processes => Fades
         /\ \A xs : Web!Gone(xs) => Fades /\ \A x \in ServePid : Web!Mine(x)' => x \notin xs
<1>1. Web!Processes => Fades
  BY DEF Web!Processes, Fades
<1>2. ASSUME NEW xs, Web!Gone(xs)
      PROVE  Fades /\ \A x \in ServePid : Web!Mine(x)' => x \notin xs
  BY <1>2 DEF Web!Gone, Fades, Web!Mine
<1> QED
  BY <1>1, <1>2

\* Without a start none comes to be missed.
LEMMA FewerMissed ==
  ASSUME ServeTypes, NEW xs, Web!Pardon(xs), Fades
  PROVE  \A x \in ServePid : Missed(x)' =>
           /\ Missed(x) /\ x \notin xs /\ LoneServe /\ task'[x] = task[x] /\ aim'[x] = aim[x]
           /\ x \in open => x \in open'
<1>1. SUFFICES ASSUME NEW x \in ServePid, Missed(x)'
               PROVE  /\ Missed(x) /\ x \notin xs /\ LoneServe
                      /\ task'[x] = task[x] /\ aim'[x] = aim[x]
                      /\ x \in open => x \in open'
  OBVIOUS
<1>2. task'[x] = task[x] /\ aim'[x] = aim[x] /\ (x \in open => x \in open')
  BY <1>1 DEF Fades, Missed
<1> QED
  BY <1>1, <1>2, Pardoned DEF Missed, Web!Mine

\* What is known after a step of c when no other command runs.
ServeAfter(c) ==
  IF Web!Busy(c)' THEN ServeHands(c)'
  ELSE \A x \in ServePid : Missed(x)' => Filed(x)' /\ Reaches(x, stateFile.request)'

\* When none is missed, what a command has to know is true.
LEMMA NoneMissed ==
  ASSUME NEW c \in ServeCommand, \A x \in ServePid : ~Missed(x)'
  PROVE  ServeAfter(c)
BY DEF ServeAfter, ServeHands

\* A state file that is not touched names what it has named.
LEMMA StillFiled ==
  ASSUME ServeTypes, UNCHANGED stateFile, NEW xs, Web!Pardon(xs), Fades,
         NEW x \in ServePid, Missed(x)', Filed(x), Reaches(x, stateFile.request)
  PROVE  Filed(x)' /\ Reaches(x, stateFile.request)'
BY FewerMissed DEF Filed, Placed, Reaches

\* What a command knows after it has looked at the state file.
LEMMA LoadServeHands ==
  ASSUME ServeTypes, NEW c \in ServeCommand, ServeHands(c),
         Web!LookServe(c) \/ Web!FindServe(c)
  PROVE  ServeAfter(c)
<1>1. /\ stage[c] \in Finding
      /\ Web!Processes
      /\ Web!Pardon(IF stateFile'.at # stateFile.at THEN Web!Orphans ELSE {})
  BY DEF Web!LookServe, Web!FindServe, Web!LoadServe, Web!Go, Finding
<1>2. \A x \in ServePid : Missed(x) => Filed(x) /\ Reaches(x, stateFile.request)
  BY <1>1 DEF ServeHands
<1>3. \A x \in ServePid : Missed(x)' =>
        /\ Missed(x) /\ task'[x] = task[x]
        /\ stateFile'.at # stateFile.at => x # stateFile.cgi
  BY <1>1, Fading, FewerMissed DEF Web!Orphans
<1>4. PICK from \in {"look", "find"}, to \in {"idle", "done", "route", "first"},
           h \in {Web!NoFile, stateFile} :
        /\ Web!Go(c, from, to, h)
        /\ to = "first" => h = stateFile /\ UNCHANGED stateFile /\ stateFile.at = "names"
        /\ \/ stateFile.at # "names"
           \/ UNCHANGED stateFile /\ to # "route"
           \/ ~Web!Pings(stateFile.request.address) /\ stateFile' = Web!NoFile /\ to # "first"
  BY DEF Web!LookServe, Web!FindServe, Web!LoadServe
<1>5. /\ stage'[c] = to
      /\ to = "first" => hand'[c] = stateFile
  BY <1>4 DEF Web!Go, ServeTypes
<1>6. CASE stateFile.at # "names"
  BY <1>2, <1>3, <1>4, <1>5, <1>6, NoneMissed DEF Filed
<1>7. CASE UNCHANGED stateFile /\ to # "route"
  <2>1. \A x \in ServePid : Missed(x)' => Filed(x)' /\ Reaches(x, stateFile.request)'
    BY <1>1, <1>2, <1>3, <1>7, Fading, StillFiled
  <2>2. CASE to = "first"
    <3>1. hand'[c] = stateFile' /\ stage'[c] = "first"
      BY <1>4, <1>5, <2>2
    <3> QED
      BY <2>1, <3>1 DEF ServeAfter, ServeHands, Finding, Launching
  <2>3. CASE to \in {"idle", "done"}
    BY <1>5, <2>1, <2>3 DEF ServeAfter, Web!Busy
  <2> QED
    BY <1>7, <2>2, <2>3
<1>8. CASE /\ stateFile.at = "names" /\ to # "first"
           /\ ~Web!Pings(stateFile.request.address) /\ stateFile' = Web!NoFile
  <2>1. \A x \in ServePid : ~Missed(x)'
    <3>1. SUFFICES ASSUME NEW x \in ServePid, Missed(x)'
                   PROVE  FALSE
      OBVIOUS
    <3>2. Missed(x) /\ x # stateFile.cgi
      BY <1>3, <1>8, <3>1, HandFacts
    <3>3. task[x] = "web"
      BY <1>2, <3>2 DEF Filed, Placed, Missed, Web!Mine
    <3>4. x \in open /\ aim[x] = stateFile.request.address
      BY <1>2, <3>2, <3>3 DEF Reaches
    <3> QED
      BY <1>8, <3>4 DEF Web!Pings
  <2> QED
    BY <1>5, <1>8, <2>1, NoneMissed
<1> QED
  BY <1>4, <1>6, <1>7, <1>8

\* When none is missed, none is after a step that starts nothing.
LEMMA StillNone ==
  ASSUME ServeTypes, \A x \in ServePid : ~Missed(x), NEW xs, Web!Pardon(xs), Fades
  PROVE  \A x \in ServePid : ~Missed(x)'
BY FewerMissed

\* What a command knows after a step that starts and ends nothing,
LEMMA QuietHands ==
  ASSUME ServeTypes, NEW c \in ServeCommand, ServeHands(c),
         Web!PrepareProxy(c) \/ Web!AwaitClosed(c) \/ Web!RemoveServeState(c)
  PROVE  ServeAfter(c)
<1>1. stage[c] \in {"route", "close", "forget"} /\ Web!Processes /\ Web!Pardon({})
  BY DEF Web!PrepareProxy, Web!AwaitClosed, Web!RemoveServeState, Web!Go
<1>2. \A x \in ServePid : ~Missed(x)'
  BY <1>1, Fading, StillNone DEF ServeHands
<1> QED
  BY <1>2, NoneMissed

\* after taking its children back,
LEMMA QuitHands ==
  ASSUME ServeTypes, NEW c \in ServeCommand, ServeHands(c),
         NEW from \in {"launch", "upstream", "front", "listen", "undo"}, Web!Quit(c, from)
  PROVE  ServeAfter(c)
<1>1. /\ stage[c] = from /\ stage'[c] = "idle"
      /\ Web!Gone(Web!Held(c)) /\ Web!Pardon({})
  BY DEF Web!Quit, Web!Go, ServeTypes
<1>2. \A x \in ServePid : Missed(x) => x \in Web!Held(c)
  BY <1>1 DEF ServeHands, Placed, Web!Held, Launching
<1>3. \A x \in ServePid : ~Missed(x)'
  <2>1. SUFFICES ASSUME NEW x \in ServePid, Missed(x)'
                 PROVE  FALSE
    OBVIOUS
  <2>2. Fades /\ x \notin Web!Held(c)
    BY <1>1, <2>1, Fading DEF Missed
  <2> QED
    BY <1>1, <1>2, <2>1, <2>2, FewerMissed
<1> QED
  BY <1>1, <1>3, NoneMissed

\* after starting a child,
LEMMA ChildHands ==
  ASSUME ServeTypes, NEW c \in ServeCommand, ServeHands(c),
         Web!LaunchCGI(c) \/ Web!LaunchFront(c) \/ Web!LaunchFrankenPHP(c) \/ Web!LaunchPHP(c)
  PROVE  ServeAfter(c)
<1>1. PICK from \in {"launch", "front"}, role \in {"web", "cgi"}, to \in {"upstream", "listen"},
           x \in ServePid :
        /\ task[x] = "free"
        /\ task' = [task EXCEPT ![x] = role]
        /\ aim' = [aim EXCEPT ![x] = IF role = "web" THEN wish[c].address ELSE NoRoute]
        /\ Web!Go(c, from, to, IF role = "web" THEN Web!Names(x, hand[c].cgi, wish[c])
                                               ELSE Web!Names(Web!None, x, wish[c]))
        /\ UNCHANGED <<stateFile, open, worked, route>>
        /\ Web!Pardon({})
        /\ (role = "web") <=> (to = "listen")
        /\ (role = "cgi") => (from = "launch")
  BY DEF Web!LaunchCGI, Web!LaunchFront, Web!LaunchFrankenPHP, Web!LaunchPHP, Web!Child
<1>2. /\ stage[c] = from /\ stage'[c] = to
      /\ role = "web" => hand'[c] = Web!Names(x, hand[c].cgi, wish[c])
      /\ role = "cgi" => hand'[c] = Web!Names(Web!None, x, wish[c])
      /\ UNCHANGED wish
  BY <1>1 DEF Web!Go, ServeTypes
<1>3. /\ task'[x] = role /\ \A y \in ServePid \ {x} : task'[y] = task[y]
      /\ aim'[x] = IF role = "web" THEN wish[c].address ELSE NoRoute
  BY <1>1 DEF ServeTypes, Web!ServeTypeOK
<1>4. \A y \in ServePid \ {x} : Missed(y)' => Missed(y)
  BY <1>1, <1>3, Pardoned DEF Missed, Web!Mine
<1>5. CASE role = "cgi"
  <2>1. \A y \in ServePid : Missed(y)' => y = x
    BY <1>1, <1>2, <1>4, <1>5 DEF ServeHands
  <2>2. stage'[c] = "upstream" /\ hand'[c].cgi = x
    BY <1>1, <1>2, <1>5 DEF Web!Names
  <2> QED
    BY <1>3, <1>5, <2>1, <2>2 DEF ServeAfter, Web!Busy, ServeHands, Finding, Launching
<1>6. CASE role = "web"
  <2>1. \A y \in ServePid : Missed(y)' => y = x \/ (y = hand[c].cgi /\ task'[y] = "cgi")
    <3>1. SUFFICES ASSUME NEW y \in ServePid \ {x}, Missed(y)'
                   PROVE  y = hand[c].cgi /\ task'[y] = "cgi"
      OBVIOUS
    <3>2. Missed(y) /\ task'[y] = task[y]
      BY <1>3, <1>4, <3>1
    <3>3. from = "front"
      BY <1>1, <1>2, <3>2 DEF ServeHands
    <3> QED
      BY <1>2, <3>2, <3>3 DEF ServeHands
  <2>2. stage'[c] = "listen" /\ hand'[c].web = x /\ hand'[c].cgi = hand[c].cgi
    BY <1>1, <1>2, <1>6 DEF Web!Names
  <2>3. task'[x] = "web" /\ aim'[x] = wish'[c].address
    BY <1>2, <1>3, <1>6
  <2>4. \A y \in ServePid : Missed(y)' => Placed(y, hand[c])'
    BY <2>1, <2>2, <2>3 DEF Placed
  <2>5. \A y \in ServePid : Missed(y)' /\ task'[y] = "web" =>
          y = hand'[c].web /\ aim'[y] = wish'[c].address
    BY <2>1, <2>2, <2>3
  <2> QED
    BY <2>2, <2>4, <2>5 DEF ServeAfter, Web!Busy, ServeHands, Finding, Launching
<1> QED
  BY <1>5, <1>6

\* after an address has answered,
LEMMA AnswerHands ==
  ASSUME ServeTypes, NEW c \in ServeCommand, ServeHands(c),
         Web!UpstreamAnswers(c) \/ Web!AddressAnswers(c)
  PROVE  ServeAfter(c)
<1>1. CASE Web!UpstreamAnswers(c)
  <2>1. /\ stage[c] = "upstream" /\ stage'[c] = "front" /\ hand'[c] = hand[c]
        /\ Web!Processes /\ Web!Pardon({})
    BY <1>1 DEF Web!UpstreamAnswers, Web!Go, ServeTypes
  <2>2. \A x \in ServePid : Missed(x)' => Missed(x) /\ task'[x] = task[x]
    BY <2>1, Fading, FewerMissed
  <2> QED
    BY <2>1, <2>2 DEF ServeAfter, Web!Busy, ServeHands, Finding, Launching
<1>2. CASE Web!AddressAnswers(c)
  <2>1. /\ stage[c] = "listen" /\ stage'[c] = "write" /\ hand'[c] = hand[c] /\ UNCHANGED wish
        /\ Web!Processes /\ Web!Pardon({hand[c].web} \ open)
    BY <1>2 DEF Web!AddressAnswers, Web!Go, ServeTypes
  <2>2. \A x \in ServePid : Missed(x)' =>
          /\ Missed(x) /\ task'[x] = task[x] /\ aim'[x] = aim[x]
          /\ x \in open => x \in open'
          /\ x = hand[c].web => x \in open
    BY <2>1, Fading, FewerMissed
  <2>3. \A x \in ServePid : Missed(x)' => Placed(x, hand[c])'
    BY <2>1, <2>2 DEF ServeHands, Launching, Placed
  <2>4. \A x \in ServePid : Missed(x)' => Reaches(x, wish[c])'
    BY <2>1, <2>2 DEF ServeHands, Launching, Reaches
  <2> QED
    BY <2>1, <2>3, <2>4 DEF ServeAfter, Web!Busy, ServeHands, Finding, Launching
<1> QED
  BY <1>1, <1>2

\* after opening and after filling the state file,
LEMMA WriteServeHands ==
  ASSUME ServeTypes, NEW c \in ServeCommand, ServeHands(c),
         Web!WriteServeState(c) \/ Web!FillServeState(c)
  PROVE  ServeAfter(c)
<1>1. /\ stage[c] \in {"write", "fill"} /\ UNCHANGED wish
      /\ Web!Processes /\ Web!Pardon({})
      /\ \/ stage'[c] \in {"fill", "undo"} /\ hand'[c] = hand[c]
         \/ stage'[c] = "done" /\ stateFile' = hand[c] /\ stage[c] = "fill"
  BY DEF Web!WriteServeState, Web!FillServeState, Web!Go, ServeTypes
<1>2. \A x \in ServePid : Missed(x)' =>
        /\ Missed(x) /\ task'[x] = task[x] /\ aim'[x] = aim[x]
        /\ x \in open => x \in open'
  BY <1>1, Fading, FewerMissed
<1>3. \A x \in ServePid : Missed(x) => Placed(x, hand[c]) /\ Reaches(x, wish[c])
  BY <1>1 DEF ServeHands, Launching
<1>4. hand[c].at = "names" /\ hand[c].request = wish[c]
  BY <1>1 DEF ServeTypes, Launching, Pair
<1>5. CASE stage'[c] \in {"fill", "undo"} /\ hand'[c] = hand[c]
  <2>1. \A x \in ServePid : Missed(x)' => Placed(x, hand[c])' /\ Reaches(x, wish[c])'
    BY <1>1, <1>2, <1>3, <1>5 DEF Placed, Reaches
  <2> QED
    BY <1>5, <2>1 DEF ServeAfter, Web!Busy, ServeHands, Finding, Launching
<1>6. CASE stage'[c] = "done" /\ stateFile' = hand[c]
  <2>1. \A x \in ServePid : Missed(x)' => Filed(x)' /\ Reaches(x, stateFile.request)'
    BY <1>2, <1>3, <1>4, <1>6 DEF Filed, Placed, Reaches
  <2> QED
    BY <1>6, <2>1 DEF ServeAfter, Web!Busy
<1> QED
  BY <1>1, <1>5, <1>6

\* and after stopping a PID that the state names.
LEMMA StopServeHands ==
  ASSUME ServeTypes, NEW c \in ServeCommand, ServeHands(c),
         Web!StopPrimary(c) \/ Web!StopSecondary(c) \/ Web!PrintAddress(c)
  PROVE  ServeAfter(c)
<1>1. stage[c] \in {"first", "second"} /\ UNCHANGED stateFile /\ Web!Pardon({})
  BY DEF Web!StopPrimary, Web!StopSecondary, Web!StopPID, Web!PrintAddress, Web!Go
<1>2. \A x \in ServePid : Missed(x) =>
        /\ Filed(x) /\ Reaches(x, stateFile.request) /\ hand[c] = stateFile
        /\ stage[c] = "second" => x = stateFile.cgi
  BY <1>1 DEF ServeHands, Finding
<1>3. CASE Web!Processes /\ stage'[c] \in {"idle", "done"}
  <2>1. \A x \in ServePid : Missed(x)' => Filed(x)' /\ Reaches(x, stateFile.request)'
    <3>1. SUFFICES ASSUME NEW x \in ServePid, Missed(x)'
                   PROVE  Filed(x)' /\ Reaches(x, stateFile.request)'
      OBVIOUS
    <3>2. Fades
      BY <1>3, Fading
    <3>3. Missed(x)
      BY <1>1, <3>1, <3>2, FewerMissed
    <3> QED
      BY <1>1, <1>2, <3>1, <3>2, <3>3, StillFiled
  <2> QED
    BY <1>3, <2>1 DEF ServeAfter, Web!Busy
<1>4. ASSUME NEW x, stage[c] = "first", Web!Gone({x}), x = hand[c].web,
             stage'[c] = "second", hand'[c] = hand[c]
      PROVE  ServeAfter(c)
  <2>1. \A y \in ServePid : Missed(y)' => Filed(y)' /\ Reaches(y, stateFile.request)'
                                          /\ hand'[c] = stateFile' /\ y = stateFile'.cgi
    <3>1. SUFFICES ASSUME NEW y \in ServePid, Missed(y)'
                   PROVE  /\ Filed(y)' /\ Reaches(y, stateFile.request)'
                          /\ hand'[c] = stateFile' /\ y = stateFile'.cgi
      OBVIOUS
    <3>2. Fades /\ y # x
      BY <1>4, <3>1, Fading DEF Missed
    <3>3. Missed(y)
      BY <1>1, <3>1, <3>2, FewerMissed
    <3>4. Filed(y)' /\ Reaches(y, stateFile.request)'
      BY <1>1, <1>2, <3>1, <3>2, <3>3, StillFiled
    <3>5. hand[c] = stateFile /\ y \in {stateFile.web, stateFile.cgi}
      BY <1>2, <3>3 DEF Filed, Placed
    <3> QED
      BY <1>1, <1>4, <3>2, <3>4, <3>5
  <2> QED
    BY <1>4, <2>1 DEF ServeAfter, Web!Busy, ServeHands, Finding, Launching
<1>5. ASSUME NEW x, stage[c] = "second", Web!Gone({x}), x = hand[c].cgi, stage'[c] = "close"
      PROVE  ServeAfter(c)
  <2>1. \A y \in ServePid : ~Missed(y)'
    <3>1. SUFFICES ASSUME NEW y \in ServePid, Missed(y)'
                   PROVE  FALSE
      OBVIOUS
    <3>2. Fades /\ y # x
      BY <1>5, <3>1, Fading DEF Missed
    <3>3. Missed(y)
      BY <1>1, <3>1, <3>2, FewerMissed
    <3> QED
      BY <1>2, <1>5, <3>2, <3>3
  <2> QED
    BY <1>5, <2>1, NoneMissed
<1>6. CASE Web!PrintAddress(c)
  BY <1>3, <1>6 DEF Web!PrintAddress, Web!Go, ServeTypes
<1>7. CASE Web!StopPrimary(c)
  <2>1. \/ Web!Go(c, "first", "second", hand[c]) /\ Web!Gone({hand[c].web})
        \/ Web!Go(c, "first", "idle", Web!NoFile) /\ Web!Processes
    BY <1>7 DEF Web!StopPrimary, Web!StopPID
  <2>2. /\ Web!Go(c, "first", "second", hand[c]) =>
             stage[c] = "first" /\ stage'[c] = "second" /\ hand'[c] = hand[c]
        /\ Web!Go(c, "first", "idle", Web!NoFile) => stage'[c] = "idle"
    BY DEF Web!Go, ServeTypes
  <2> QED
    BY <1>3, <1>4, <2>1, <2>2
<1>8. CASE Web!StopSecondary(c)
  <2>1. \/ Web!Go(c, "second", "close", hand[c]) /\ Web!Gone({hand[c].cgi})
        \/ Web!Go(c, "second", "idle", Web!NoFile) /\ Web!Processes
    BY <1>8 DEF Web!StopSecondary, Web!StopPID
  <2>2. /\ Web!Go(c, "second", "close", hand[c]) => stage[c] = "second" /\ stage'[c] = "close"
        /\ Web!Go(c, "second", "idle", Web!NoFile) => stage'[c] = "idle"
    BY DEF Web!Go, ServeTypes
  <2> QED
    BY <1>3, <1>5, <2>1, <2>2
<1> QED
  BY <1>6, <1>7, <1>8

\* After a kill nobody knows of the command's children, which are pardoned.
LEMMA KillServeHands ==
  ASSUME ServeTypes, NEW c \in ServeCommand, ServeHands(c), Web!KillServeCommand(c)
  PROVE  ServeAfter(c)
<1>1. /\ Web!Busy(c) /\ stage'[c] = "idle" /\ UNCHANGED stateFile
      /\ Web!Processes /\ Web!Pardon(Web!Held(c))
  BY KillServeFrame
<1>2. \A x \in ServePid : Missed(x)' => Filed(x)' /\ Reaches(x, stateFile.request)'
  <2>1. SUFFICES ASSUME NEW x \in ServePid, Missed(x)'
                 PROVE  Filed(x)' /\ Reaches(x, stateFile.request)'
    OBVIOUS
  <2>2. Fades /\ Missed(x) /\ x \notin Web!Held(c)
    BY <1>1, <2>1, Fading, FewerMissed
  <2>3. stage[c] \in Finding
    <3>1. stage[c] \notin Launching \cup {"upstream", "front", "route", "launch", "close", "forget"}
      BY <2>2 DEF ServeHands, Placed, Web!Held
    <3> QED
      BY <1>1, <3>1 DEF ServeTypes, StageLabel, Web!Busy
  <2>4. Filed(x) /\ Reaches(x, stateFile.request)
    BY <2>2, <2>3 DEF ServeHands
  <2> QED
    BY <1>1, <2>1, <2>2, <2>4, StillFiled
<1> QED
  BY <1>1, <1>2 DEF ServeAfter, Web!Busy

\* What a command knows after any of its steps.
LEMMA ServeStepHands ==
  ASSUME ServeTypes, NEW c \in ServeCommand, ServeHands(c), ServeStep(c), ~Entered(c)
  PROVE  ServeAfter(c)
<1>1. \/ Web!LookServe(c) \/ Web!FindServe(c) \/ Web!PrepareProxy(c) \/ Web!AwaitClosed(c)
      \/ Web!RemoveServeState(c) \/ Web!LaunchCGI(c) \/ Web!LaunchFront(c)
      \/ Web!LaunchFrankenPHP(c) \/ Web!LaunchPHP(c) \/ Web!UpstreamAnswers(c)
      \/ Web!AddressAnswers(c) \/ Web!WriteServeState(c) \/ Web!FillServeState(c)
      \/ Web!StopPrimary(c) \/ Web!StopSecondary(c) \/ Web!PrintAddress(c)
      \/ Web!KillServeCommand(c)
      \/ \E from \in {"launch", "upstream", "front", "listen", "undo"} : Web!Quit(c, from)
  BY DEF ServeStep, Entered, Web!BeginServe, Web!BeginStop, Web!ListenTimeout, Web!UndoServe
<1> QED
  BY <1>1, LoadServeHands, QuietHands, QuitHands, ChildHands, AnswerHands, WriteServeHands,
     StopServeHands, KillServeHands

\* A step of a command moves no other.
LEMMA OtherServesStay ==
  ASSUME ServeTypes, NEW c \in ServeCommand, ServeStep(c)
  PROVE  /\ \A d \in ServeCommand \ {c} : stage'[d] = stage[d]
         /\ Entered(c) \/ Web!Busy(c)
<1>1. CASE Entered(c)
  BY <1>1, EnterFrame
<1>2. CASE Went(c)
  <2>1. PICK from \in StageLabel \ {"idle", "done"}, to \in StageLabel, h \in HandFile :
          Web!Go(c, from, to, h)
    BY <1>2 DEF Went
  <2>2. stage[c] = from /\ \A d \in ServeCommand \ {c} : stage'[d] = stage[d]
    BY <2>1 DEF Web!Go, ServeTypes
  <2> QED
    BY <2>2 DEF Web!Busy
<1>3. CASE Web!KillServeCommand(c)
  BY <1>3, KillServeFrame
<1> QED
  BY <1>1, <1>2, <1>3, ServeShape

\* A process in a command's hands, or named by the file, is not lost.
LEMMA AfterNoneLost ==
  ASSUME NEW c \in ServeCommand, ServeAfter(c), (stage \in [ServeCommand -> StageLabel])'
  PROVE  Web!NoServeProcessLost'
<1>1. SUFFICES ASSUME NEW x \in ServePid, Missed(x)'
               PROVE  (stateFile.at = "names" /\ x \in {stateFile.web, stateFile.cgi})'
                      \/ x \in Web!Held(c)'
  BY DEF Web!NoServeProcessLost, Missed
<1>2. CASE ~Web!Busy(c)'
  BY <1>1, <1>2 DEF ServeAfter, Filed, Placed
<1>3. CASE Web!Busy(c)'
  <2>1. ServeHands(c)' /\ stage'[c] \in StageLabel \ {"idle", "done"}
    BY <1>3 DEF ServeAfter, Web!Busy
  <2>2. stage'[c] \in Finding \cup Launching \cup {"upstream", "front"}
    BY <1>1, <2>1 DEF ServeHands, StageLabel
  <2>3. CASE stage'[c] \in Finding
    BY <1>1, <2>1, <2>3 DEF ServeHands, Filed, Placed
  <2>4. CASE stage'[c] \in Launching \cup {"upstream", "front"}
    BY <1>1, <2>1, <2>4 DEF ServeHands, Placed, Web!Held
  <2> QED
    BY <2>2, <2>3, <2>4
<1> QED
  BY <1>2, <1>3

\* A step of a command keeps the invariant.
LEMMA ServeCommandInv ==
  ASSUME ServeInv, NEW c \in ServeCommand, ServeStep(c)
  PROVE  ServeInv'
<1>1. ServeTypes' /\ (stage \in [ServeCommand -> StageLabel])'
  BY ServeStepTypes DEF ServeInv, ServeTypes
<1>2. /\ \A d \in ServeCommand \ {c} : stage'[d] = stage[d]
      /\ Entered(c) \/ Web!Busy(c)
  BY OtherServesStay DEF ServeInv
<1>3. CASE Entered(c)
  <2>1. /\ ~Web!Busy(c) /\ stage'[c] \in {"look", "find"}
        /\ UNCHANGED <<stateFile, hand>> /\ Web!Processes /\ Web!Pardon({})
    BY <1>3, EnterFrame DEF ServeInv
  <2>2. Fades
    BY <2>1, Fading DEF ServeInv
  <2>3. Web!NoServeProcessLost'
    <3>1. SUFFICES ASSUME NEW x \in ServePid, Missed(x)'
                   PROVE  (stateFile.at = "names" /\ x \in {stateFile.web, stateFile.cgi})'
                          \/ \E d \in ServeCommand : x \in Web!Held(d)'
      BY DEF Web!NoServeProcessLost, Missed
    <3>2. Missed(x)
      BY <2>1, <2>2, <3>1, FewerMissed DEF ServeInv
    <3>3. \/ stateFile.at = "names" /\ x \in {stateFile.web, stateFile.cgi}
          \/ \E d \in ServeCommand : x \in Web!Held(d)
      BY <3>2 DEF ServeInv, Web!NoServeProcessLost, Missed
    <3> QED
      BY <2>1, <3>3 DEF Web!Held
  <2>4. CASE \E d \in ServeCommand \ {c} : Web!Busy(d)
    <3>1. ~LoneServe' /\ ~(\A d \in ServeCommand : ~Web!Busy(d)')
      BY <1>2, <2>1, <2>4 DEF LoneServe, Web!Busy
    <3> QED
      BY <1>1, <2>3, <3>1 DEF ServeInv, ServeKnown
  <2>5. CASE ~\E d \in ServeCommand \ {c} : Web!Busy(d)
    <3>1. \A x \in ServePid : Missed(x) => Filed(x) /\ Reaches(x, stateFile.request)
      BY <2>1, <2>5 DEF ServeInv, ServeKnown
    <3>2. \A x \in ServePid : Missed(x)' => Filed(x)' /\ Reaches(x, stateFile.request)'
      <4>1. SUFFICES ASSUME NEW x \in ServePid, Missed(x)'
                     PROVE  Filed(x)' /\ Reaches(x, stateFile.request)'
        OBVIOUS
      <4>2. Missed(x)
        BY <2>1, <2>2, <4>1, FewerMissed DEF ServeInv
      <4> QED
        BY <2>1, <2>2, <3>1, <4>1, <4>2, StillFiled DEF ServeInv
    <3>3. \A d \in ServeCommand : stage'[d] \in {"look", "find", "idle", "done"}
      BY <1>2, <2>1, <2>5 DEF Web!Busy
    <3>4. \A d \in ServeCommand : ServeHands(d)'
      BY <3>2, <3>3 DEF ServeHands, Finding, Launching
    <3> QED
      BY <1>1, <2>3, <3>2, <3>4 DEF ServeInv, ServeKnown
  <2> QED
    BY <2>4, <2>5
<1>4. CASE ~Entered(c) /\ LoneServe
  <2>1. ServeAfter(c)
    BY <1>2, <1>4, ServeStepHands DEF ServeInv, ServeKnown
  <2>2. Web!NoServeProcessLost'
    BY <1>1, <2>1, AfterNoneLost
  <2>3. \A d \in ServeCommand \ {c} : stage'[d] \in {"idle", "done"}
    BY <1>2, <1>4 DEF LoneServe, Web!Busy
  <2>4. \A d \in ServeCommand \ {c} : ServeHands(d)'
    BY <2>3 DEF ServeHands, Finding, Launching
  <2>5. CASE Web!Busy(c)'
    BY <1>1, <2>1, <2>2, <2>4, <2>5 DEF ServeAfter, ServeInv, ServeKnown
  <2>6. CASE ~Web!Busy(c)'
    <3>1. ServeHands(c)'
      BY <2>6 DEF ServeHands, Web!Busy, Finding, Launching
    <3> QED
      BY <1>1, <2>1, <2>2, <2>4, <2>6, <3>1 DEF ServeAfter, ServeInv, ServeKnown
  <2> QED
    BY <2>5, <2>6
<1>5. CASE ~LoneServe
  <2>1. \A x \in ServePid : ~Missed(x)'
    BY <1>5, ServeFiles, Pardoned DEF ServeInv, Missed
  <2>2. Web!NoServeProcessLost'
    BY <2>1 DEF Missed, Web!NoServeProcessLost
  <2> QED
    BY <1>1, <2>1, <2>2 DEF ServeInv, ServeKnown, ServeHands
<1> QED
  BY <1>3, <1>4, <1>5

\* Another program that takes an address starts nothing of ours.
LEMMA OtherBeginsStep ==
  ASSUME ServeTypes, NEW x \in ServePid, Web!OtherBegins(x)
  PROVE  ProcessesOK' /\ Fades
<1>1. PICK a \in {NoRoute} \cup {b \in Address : ~Web!Pings(b)} :
        /\ aim' = [aim EXCEPT ![x] = a]
        /\ open' = IF a = NoRoute THEN open ELSE open \cup {x}
  BY DEF Web!OtherBegins
<1>2. task[x] = "free" /\ task' = [task EXCEPT ![x] = "other"] /\ UNCHANGED worked
  BY DEF Web!OtherBegins
<1>3. ProcessesOK
  BY ServeWorldTypes DEF ServeWorld
<1>4. NoRoute \notin Address
  BY ServicesAssumption DEF Web!ServeAssumption
<1>5. ProcessesOK'
  <2>1. /\ task' \in [ServePid -> {"web", "cgi", "other", "free"}]
        /\ aim' \in [ServePid -> Address \cup {NoRoute}] /\ open' \subseteq ServePid
        /\ worked' \subseteq Address
    BY <1>1, <1>2, <1>3 DEF ProcessesOK
  <2>2. SUFFICES ASSUME NEW y \in ServePid
                 PROVE  /\ task'[y] = "web" \/ y \in open' => aim'[y] \in Address
                        /\ task'[y] = "free" => y \notin open'
    BY <2>1 DEF ProcessesOK, Addressed
  <2>3. CASE y = x
    BY <1>1, <1>2, <1>3, <1>4, <2>3 DEF ProcessesOK, Addressed
  <2>4. CASE y # x
    BY <1>1, <1>2, <1>3, <2>4 DEF ProcessesOK, Addressed
  <2> QED
    BY <2>3, <2>4
<1>6. Fades
  BY <1>1, <1>2, <1>3 DEF Fades, Web!Mine, ProcessesOK
<1> QED
  BY <1>5, <1>6

\* Nor does a process that begins to listen.
LEMMA OpensStep ==
  ASSUME ServeTypes, NEW x \in ServePid, Web!Opens(x)
  PROVE  ProcessesOK' /\ Fades
<1>1. ProcessesOK
  BY ServeWorldTypes DEF ServeWorld
<1>2. CASE Web!Gone({x}) /\ UNCHANGED worked
  <2>1. worked' \subseteq Address
    BY <1>1, <1>2 DEF ProcessesOK
  <2> QED
    BY <1>1, <1>2, <2>1, GoneKeeps, Fading
<1>3. CASE open' = open \cup {x} /\ UNCHANGED <<task, aim, worked>>
  <2>1. task[x] = "web"
    BY DEF Web!Opens
  <2> QED
    BY <1>1, <1>3, <2>1 DEF ProcessesOK, Addressed, Fades
<1> QED
  BY <1>2, <1>3 DEF Web!Opens

\* What the machine and the user do keeps the invariant.
LEMMA ServeOutside ==
  ASSUME ServeInv,
         \/ \E x \in ServePid : Web!Opens(x) \/ Web!Ends(x) \/ Web!OtherBegins(x)
         \/ Web!WorkersEnd \/ Web!EditServe
  PROVE  ServeInv'
<1>0. ServeTypes /\ ServeWorld /\ ProcessesOK
  BY ServeWorldTypes DEF ServeInv, ServeWorld
<1>1. /\ UNCHANGED <<stateFile, route, stage, wish, hand, traefik>>
      /\ Web!Pardon({})
      /\ request' \in Web!Request /\ serveEdits' \in 0 .. MaxServeEdits
  <2>1. CASE \/ \E x \in ServePid : Web!Opens(x) \/ Web!Ends(x) \/ Web!OtherBegins(x)
             \/ Web!WorkersEnd
    BY <1>0, <2>1 DEF Web!Opens, Web!Ends, Web!OtherBegins, Web!WorkersEnd, Web!Outside, ServeWorld
  <2>2. CASE Web!EditServe
    <3>1. serveEdits' \in 0 .. MaxServeEdits /\ request' \in Web!Request
      BY <1>0, <2>2, ServicesAssumption DEF Web!EditServe, ServeWorld, Web!ServeAssumption
    <3> QED
      BY <2>2, <3>1 DEF Web!EditServe
  <2> QED
    BY <2>1, <2>2
<1>2. ProcessesOK' /\ Fades
  <2>1. ASSUME NEW x \in ServePid, Web!Ends(x)
        PROVE  ProcessesOK' /\ Fades
    <3>1. Web!Gone({x}) /\ worked' \subseteq Address
      BY <1>0, <2>1 DEF Web!Ends, ProcessesOK
    <3> QED
      BY <1>0, <3>1, GoneKeeps, Fading
  <2>2. CASE Web!WorkersEnd
    BY <1>0, <2>2 DEF Web!WorkersEnd, ProcessesOK, Addressed, Fades
  <2>3. CASE Web!EditServe
    BY <1>0, <2>3 DEF Web!EditServe, ProcessesOK, Addressed, Fades
  <2> QED
    BY <1>0, <2>1, <2>2, <2>3, OpensStep, OtherBeginsStep
<1>3. ServeTypes'
  <2>1. ServeWorld'
    BY <1>0, <1>1, <1>2, Pardoned DEF ServeWorld, FileOK
  <2> QED
    BY <1>0, <1>1, <2>1, ServeTypesAfter DEF ServeTypes
<1>4. \A x \in ServePid : Missed(x)' =>
        /\ Missed(x) /\ task'[x] = task[x] /\ aim'[x] = aim[x]
        /\ x \in open => x \in open'
  BY <1>0, <1>1, <1>2, FewerMissed
<1>6. \A x \in ServePid : /\ Missed(x)' /\ Filed(x) => Filed(x)'
                          /\ \A c \in ServeCommand : Missed(x)' /\ Placed(x, hand[c]) =>
                               Placed(x, hand[c])'
  BY <1>1, <1>4 DEF Filed, Placed
<1>7. \A x \in ServePid : /\ Missed(x)' /\ Reaches(x, stateFile.request) =>
                               Reaches(x, stateFile.request)'
                          /\ \A c \in ServeCommand : Missed(x)' /\ Reaches(x, wish[c]) =>
                               Reaches(x, wish[c])'
  BY <1>1, <1>4 DEF Reaches
<1>8. \A c \in ServeCommand : ServeHands(c) => ServeHands(c)'
  BY <1>1, <1>4, <1>6, <1>7 DEF ServeHands
<1>9. LoneServe' = LoneServe /\ \A c \in ServeCommand : Web!Busy(c)' = Web!Busy(c)
  BY <1>1 DEF LoneServe, Web!Busy
<1>10. ServeKnown'
  BY <1>4, <1>6, <1>7, <1>8, <1>9 DEF ServeInv, ServeKnown
<1>11. Web!NoServeProcessLost'
  <2>1. \A x \in ServePid : Missed(x) =>
          (stateFile.at = "names" /\ x \in {stateFile.web, stateFile.cgi})
          \/ \E c \in ServeCommand : x \in Web!Held(c)
    BY DEF ServeInv, Web!NoServeProcessLost, Missed
  <2>2. \A x \in ServePid : Missed(x)' =>
          ((stateFile.at = "names" /\ x \in {stateFile.web, stateFile.cgi})
           \/ \E c \in ServeCommand : x \in Web!Held(c))'
    BY <1>1, <1>4, <2>1 DEF Web!Held
  <2> QED
    BY <2>2 DEF Web!NoServeProcessLost, Missed
<1> QED
  BY <1>3, <1>10, <1>11 DEF ServeInv

\* Every step of the commands, and of the processes, keeps the invariant.
LEMMA ServeNextInv == ServeInv /\ Web!ServeNext => ServeInv'
<1> SUFFICES ASSUME ServeInv, Web!ServeNext
             PROVE  ServeInv'
  OBVIOUS
<1>1. CASE \E c \in ServeCommand : ServeStep(c)
  BY <1>1, ServeCommandInv
<1>2. CASE \/ \E x \in ServePid : Web!Opens(x) \/ Web!Ends(x) \/ Web!OtherBegins(x)
           \/ Web!WorkersEnd \/ Web!EditServe
  BY <1>2, ServeOutside
<1> QED
  BY <1>1, <1>2 DEF Web!ServeNext, ServeStep

\* It holds at the start.
LEMMA ServeStart == Web!ServeInit => ServeInv
<1> SUFFICES ASSUME Web!ServeInit
             PROVE  ServeInv
  OBVIOUS
<1>1. request \in Web!Request /\ serveEdits \in 0 .. MaxServeEdits
  <2>1. request \in [kind : Web!ServerKind, https : {FALSE}, address : Address,
                     docroot : {"public"}]
    BY DEF Web!ServeInit
  <2>2. request \in Web!Request
    BY <2>1 DEF Web!Request
  <2>3. serveEdits = 0 /\ MaxServeEdits \in Nat
    BY ServicesAssumption DEF Web!ServeInit, Web!ServeAssumption
  <2> QED
    BY <2>2, <2>3
<1>2. FileOK(stateFile) /\ ProcessesOK
  BY HandFacts DEF Web!ServeInit, FileOK, ProcessesOK, Addressed
<1>3. traefik \in BOOLEAN /\ route \in Address \cup {NoRoute} /\ pardoned = {}
  BY DEF Web!ServeInit
<1>4. /\ stage = [c \in ServeCommand |-> "idle"] /\ stage \in [ServeCommand -> StageLabel]
      /\ wish \in [ServeCommand -> Web!Request] /\ hand \in [ServeCommand -> HandFile]
  BY <1>1, HandFacts DEF Web!ServeInit, StageLabel
<1>5. ServeTypes
  BY <1>1, <1>2, <1>3, <1>4, ServeWorldTypes DEF ServeWorld, Launching
<1>6. \A x \in ServePid : ~Missed(x)
  BY DEF Web!ServeInit, Missed, Web!Mine
<1>7. Web!NoServeProcessLost
  BY <1>6 DEF Missed, Web!NoServeProcessLost
<1> QED
  BY <1>5, <1>6, <1>7 DEF ServeInv, ServeKnown, ServeHands

-----------------------------------------------------------------------------
(* The services as a whole. *)

\* What a stop has still to stop, and what it could not.
Remaining == {Whole!StopOrder[i] : i \in place .. 9} \cup (IF warned THEN {"workers"} ELSE {})

\* The type invariant with the length of the orders as a number.
ManagerTypes ==
  /\ wanted \subseteq Offered /\ present \subseteq Offered /\ asked \subseteq Offered
  /\ engine \in {"mysql", "postgresql"} /\ edited \in 0 .. MaxManagerEdits
  /\ up \subseteq Whole!Service
  /\ command \in {"none", "start", "stop"} /\ place \in 0 .. 9
  /\ (command = "none") <=> (place = 0)
  /\ ended \in {"none", "success", "failure"} /\ warned \in BOOLEAN

ManagerInv ==
  /\ ManagerTypes
  /\ command # "none" => ended = "none"
  /\ command = "stop" => up \subseteq Remaining

\* The orders in which services start and stop name each service once.
LEMMA Orders ==
  /\ Len(Whole!StartOrder) = 9
  /\ Whole!StopOrder[9] = "mailpit"
  /\ \A s \in Whole!Service : \E i \in 1 .. 9 : Whole!StopOrder[i] = s
<1>1. \A s \in Whole!Service : \E i \in 1 .. 9 : Whole!StartOrder[i] = s
  <2>1. Offered \subseteq {Whole!StartOrder[i] : i \in DOMAIN Whole!StartOrder}
    BY ServicesAssumption DEF Whole!ManagerAssumption, Whole!ToSet
  <2>2. DOMAIN Whole!StartOrder = 1 .. 9 /\ Whole!StartOrder[9] = "webserver"
    BY DEF Whole!StartOrder
  <2> QED
    BY <2>1, <2>2 DEF Whole!Service
<1>2. \A i \in 1 .. 9 : \E j \in 1 .. 9 : Whole!StopOrder[j] = Whole!StartOrder[i]
  <2>1. \A i \in 1 .. 9 : i \in {1, 2, 3, 4, 5, 6, 7, 8, 9}
    OBVIOUS
  <2> QED
    BY <2>1 DEF Whole!StartOrder, Whole!StopOrder
<1>3. Len(Whole!StartOrder) = 9 /\ Whole!StopOrder[9] = "mailpit"
  BY DEF Whole!StartOrder, Whole!StopOrder
<1> QED
  BY <1>1, <1>2, <1>3

\* The invariant's types are those that the run checks.
LEMMA TypesMeanTypes == ManagerTypes <=> Whole!ManagerTypeOK
<1>1. Len(Whole!StartOrder) = 9
  BY Orders
<1> QED
  BY <1>1 DEF ManagerTypes, Whole!ManagerTypeOK

\* The invariant of start and stop holds at the start.
LEMMA ManagerStart == Whole!ManagerInit => ManagerInv
<1> SUFFICES ASSUME Whole!ManagerInit
             PROVE  ManagerInv
  OBVIOUS
<1>1. /\ wanted \subseteq Offered /\ present \subseteq Offered /\ asked = {} /\ up = {}
      /\ engine \in {"mysql", "postgresql"}
      /\ command = "none" /\ place = 0 /\ ended = "none" /\ warned = FALSE
  BY DEF Whole!ManagerInit
<1>2. edited \in 0 .. MaxManagerEdits
  BY ServicesAssumption DEF Whole!ManagerInit, Whole!ManagerAssumption
<1>3. place \in 0 .. 9
  BY <1>1
<1>4. (command = "none") <=> (place = 0)
  BY <1>1
<1>5. warned \in BOOLEAN
  BY <1>1
<1>6. ManagerTypes
  BY <1>1, <1>2, <1>3, <1>4, <1>5 DEF ManagerTypes
<1> QED
  BY <1>1, <1>6 DEF ManagerInv

\* What is started is a service of the environment.
LEMMA StartsServices ==
  ASSUME ManagerInv, ~Whole!Skipped(Whole!Current)
  PROVE  Whole!Brings(Whole!Current) \subseteq Whole!Service
BY DEF ManagerInv, ManagerTypes, Whole!Skipped, Whole!Brings, Whole!StorageNeedsDatabase,
       Whole!Service

\* It is inductive, and a stop that succeeds leaves nothing up but what it warned about.
LEMMA ManagerStep ==
  ASSUME ManagerInv, Whole!ManagerNext
  PROVE  ManagerInv' /\ Whole!CompleteStep
<1> DEFINE Same == UNCHANGED <<wanted, present, engine, edited>>
<1>0. ManagerTypes /\ Len(Whole!StartOrder) = 9
  BY Orders DEF ManagerInv
<1>1. CASE Whole!RunStart \/ Whole!RunStop
  <2>1. /\ command = "none" /\ command' \in {"start", "stop"} /\ place' = 1 /\ asked' = wanted
        /\ ended' = "none" /\ warned' = FALSE /\ UNCHANGED up /\ Same
    BY <1>1 DEF Whole!RunStart, Whole!RunStop, Whole!RunCommand, Whole!Config
  <2>2. up \subseteq {Whole!StopOrder[i] : i \in 1 .. 9}
    BY <1>0, Orders DEF ManagerTypes, Whole!Service
  <2>3. up' \subseteq Remaining'
    BY <2>1, <2>2 DEF Remaining
  <2>4. ManagerTypes'
    <3>1. /\ wanted' \subseteq Offered /\ present' \subseteq Offered /\ asked' \subseteq Offered
          /\ engine' \in {"mysql", "postgresql"} /\ edited' \in 0 .. MaxManagerEdits
      BY <1>0, <2>1 DEF ManagerTypes
    <3>2. up' \subseteq Whole!Service
      BY <1>0, <2>1 DEF ManagerTypes, Whole!Service
    <3>3. /\ command' \in {"none", "start", "stop"} /\ place' \in 0 .. 9
          /\ (command' = "none") <=> (place' = 0)
      BY <2>1
    <3>4. ended' \in {"none", "success", "failure"} /\ warned' \in BOOLEAN
      BY <2>1
    <3> QED
      BY <3>1, <3>2, <3>3, <3>4 DEF ManagerTypes, Whole!Service
  <2> QED
    BY <2>1, <2>3, <2>4 DEF ManagerInv, Whole!CompleteStep
<1>2. ASSUME Whole!Advance, Same, up' \subseteq Whole!Service, warned' \in BOOLEAN, command # "none",
             command = "stop" =>
               up' \subseteq {Whole!StopOrder[i] : i \in (place + 1) .. 9}
                               \cup (IF warned' THEN {"workers"} ELSE {})
      PROVE  ManagerInv' /\ Whole!CompleteStep
  <2>1. place \in 1 .. 9 /\ ended = "none"
    BY <1>0, <1>2 DEF ManagerInv, ManagerTypes, Whole!Service
  <2>2. CASE place = 9
    <3>1. command' = "none" /\ place' = 0 /\ asked' = {} /\ ended' = "success"
      BY <1>0, <1>2, <2>2 DEF Whole!Advance, Whole!Finish
    <3>2. {Whole!StopOrder[i] : i \in (place + 1) .. 9} = {}
      BY <2>2
    <3> QED
      BY <1>0, <1>2, <3>1, <3>2 DEF ManagerInv, ManagerTypes, Whole!Service, Whole!CompleteStep
  <2>3. CASE place # 9
    <3>1. place' = place + 1 /\ UNCHANGED <<command, asked, ended>>
      BY <1>0, <1>2, <2>3 DEF Whole!Advance
    <3>2. command = "stop" => up' \subseteq Remaining'
      BY <1>2, <3>1 DEF Remaining
    <3>3. ManagerTypes'
      BY <1>0, <1>2, <2>1, <2>3, <3>1 DEF ManagerTypes, Whole!Service
    <3> QED
      BY <2>1, <3>1, <3>2, <3>3 DEF ManagerInv, Whole!CompleteStep
  <2> QED
    BY <2>2, <2>3
<1>3. ASSUME NEW how \in {"none", "failure"}, Whole!Finish(how), Same, up' \subseteq Whole!Service,
             warned' \in BOOLEAN
      PROVE  ManagerInv' /\ Whole!CompleteStep
  <2>1. command' = "none" /\ place' = 0 /\ asked' = {} /\ ended' = how
    BY <1>3 DEF Whole!Finish
  <2> QED
    BY <1>0, <1>3, <2>1 DEF ManagerInv, ManagerTypes, Whole!Service, Whole!CompleteStep
<1>4. CASE Whole!SkipService \/ Whole!StartService \/ Whole!StartFails
  <2>1. /\ command = "start" /\ Same /\ UNCHANGED warned
        /\ Whole!Advance \/ Whole!Finish("failure")
    BY <1>4 DEF Whole!SkipService, Whole!StartService, Whole!StartFails, Whole!Config
  <2>2. up' \subseteq Whole!Service
    BY <1>0, <1>4, StartsServices
    DEF Whole!SkipService, Whole!StartService, Whole!StartFails, ManagerTypes, Whole!Service
  <2> QED
    BY <1>0, <1>2, <1>3, <2>1, <2>2 DEF ManagerTypes, Whole!Service
<1>5. CASE Whole!StopService
  <2>1. /\ command = "stop" /\ Same /\ Whole!Advance
        /\ up' = up \ {Whole!StopOrder[place]}
        /\ warned' = (warned /\ Whole!StopOrder[place] # "workers")
    BY <1>5 DEF Whole!StopService, Whole!Config, Whole!Current
  <2>2. \A i \in place .. 9 : i = place \/ i \in (place + 1) .. 9
    BY <1>0 DEF ManagerTypes, Whole!Service
  <2>3. up' \subseteq {Whole!StopOrder[i] : i \in (place + 1) .. 9}
                         \cup (IF warned' THEN {"workers"} ELSE {})
    BY <2>1, <2>2 DEF ManagerInv, Remaining
  <2> QED
    BY <1>0, <1>2, <2>1, <2>3 DEF ManagerTypes, Whole!Service
<1>6. CASE Whole!StopFails
  <2>1. /\ command = "stop" /\ Same /\ UNCHANGED up
        /\ \/ Whole!StopOrder[place] = "workers" /\ Whole!Advance /\ warned' = TRUE
           \/ Whole!Finish("failure") /\ UNCHANGED warned
    BY <1>6 DEF Whole!StopFails, Whole!Config, Whole!Current
  <2>2. \A i \in place .. 9 : i = place \/ i \in (place + 1) .. 9
    BY <1>0 DEF ManagerTypes, Whole!Service
  <2>3. CASE Whole!StopOrder[place] = "workers" /\ Whole!Advance /\ warned' = TRUE
    <3>1. up' \subseteq {Whole!StopOrder[i] : i \in (place + 1) .. 9}
                           \cup (IF warned' THEN {"workers"} ELSE {})
      BY <2>1, <2>2, <2>3 DEF ManagerInv, Remaining
    <3> QED
      BY <1>0, <1>2, <2>1, <2>3, <3>1 DEF ManagerTypes, Whole!Service
  <2>4. CASE Whole!Finish("failure") /\ UNCHANGED warned
    BY <1>0, <1>3, <2>1, <2>4 DEF ManagerTypes, Whole!Service
  <2> QED
    BY <2>1, <2>3, <2>4
<1>7. CASE Whole!KillManager
  BY <1>0, <1>3, <1>7 DEF Whole!KillManager, Whole!Config, ManagerTypes, Whole!Service
<1>8. CASE (\E s \in Whole!Service : Whole!Crash(s)) \/ Whole!EditServices
  <2>1. /\ UNCHANGED <<engine, command, place, asked, ended, warned>> /\ up' \subseteq up
        /\ wanted' \subseteq Offered /\ present' \subseteq Offered
        /\ edited' \in 0 .. MaxManagerEdits
    <3>1. CASE \E s \in Whole!Service : Whole!Crash(s)
      BY <1>0, <3>1 DEF Whole!Crash, Whole!Config, ManagerTypes, Whole!Service
    <3>2. CASE Whole!EditServices
      BY <1>0, <3>2, ServicesAssumption
      DEF Whole!EditServices, ManagerTypes, Whole!Service, Whole!ManagerAssumption
    <3> QED
      BY <1>8, <3>1, <3>2
  <2>2. ManagerTypes'
    BY <1>0, <2>1 DEF ManagerTypes, Whole!Service
  <2> QED
    BY <2>1, <2>2 DEF ManagerInv, Remaining, Whole!CompleteStep
<1> QED
  BY <1>1, <1>4, <1>5, <1>6, <1>7, <1>8 DEF Whole!ManagerNext

-----------------------------------------------------------------------------
(* The four of them. *)

ServicesInv ==
  /\ part \in {"server", "workers", "manager", "serve"}
  /\ part = "server" => ServerInv
  /\ part = "workers" => WorkerInv
  /\ part = "manager" => ManagerInv
  /\ part = "serve" => ServeInv

\* A part that does not move keeps its invariant.
LEMMA ServerStutters == ServerInv /\ UNCHANGED serverVars => ServerInv'
<1> SUFFICES ASSUME ServerInv, UNCHANGED serverVars
             PROVE  ServerInv'
  OBVIOUS
<1>0. UNCHANGED <<kind, config, edits, file, proc, defaults, at, job, alone, excused>>
  BY DEF serverVars
<1>1. ServerTypes'
  BY <1>0 DEF ServerInv, ServerTypes, ServerTypeOK
<1>2. OneBroker'
  BY <1>0 DEF ServerInv, OneBroker, Brokers, Server, Alive
<1>3. Lone <=> Lone'
  BY <1>0 DEF Lone, Running
<1>4. AloneInv'
  BY <1>0, <1>3 DEF ServerInv, AloneInv, Running
<1>5. \A x \in Pid : (Lost(x) <=> Lost(x)') /\ (Kept(x) <=> Kept(x)')
  BY <1>0 DEF Lost, Kept, Named, Waits, Awaited, Listens, Fields, Server, Alive
<1>6. \A c \in Command : Hands(c) => Hands(c)'
  BY <1>0, <1>5 DEF Hands, Waits, Awaited, Listens, Fields
<1>7. Known'
  BY <1>0, <1>3, <1>5, <1>6 DEF ServerInv, Known, Running
<1>8. NoServerLost'
  BY <1>0 DEF ServerInv, NoServerLost, Server, Alive, Running
<1> QED
  BY <1>1, <1>2, <1>4, <1>7, <1>8 DEF ServerInv

LEMMA WorkersStutter == WorkerInv /\ UNCHANGED workVars => WorkerInv'
BY DEF workVars, WorkerInv, WorkerTypes, Work!WorkersTypeOK, WorkerKnown, WorkerHands, LoneRunner,
       Work!Active, Plain, Work!Ours, OnFile, Work!Nothing

LEMMA ManagerStutters == ManagerInv /\ UNCHANGED wholeVars => ManagerInv'
BY DEF wholeVars, ManagerInv, ManagerTypes, Remaining

LEMMA ServeStutters == ServeInv /\ UNCHANGED webVars => ServeInv'
BY DEF webVars, ServeInv, ServeTypes, Web!ServeTypeOK, Addressed, ServeKnown, ServeHands, LoneServe,
       Web!Busy, Missed, Web!Mine, Filed, Placed, Reaches, Web!NoServeProcessLost, Web!Held

allVars == <<part, serverVars, workVars, wholeVars, webVars>>

\* The invariants of the four parts hold at the start
LEMMA ServicesStart == Init => ServicesInv
BY ServerStart, WorkersStart, ManagerStart, ServeStart DEF Init, ServicesInv

\* and are kept by every step.
LEMMA ServicesStep == ServicesInv /\ [Next]_allVars => ServicesInv'
<1> SUFFICES ASSUME ServicesInv, [Next]_allVars
             PROVE  ServicesInv'
  OBVIOUS
<1>1. UNCHANGED part
  BY DEF Next, allVars
<1>2. CASE part = "server"
  <2>1. ServerNext \/ UNCHANGED serverVars
    BY <1>2 DEF Next, allVars
  <2> QED
    BY <1>1, <1>2, <2>1, ServerStep, ServerStutters DEF ServicesInv
<1>3. CASE part = "workers"
  <2>1. Work!WorkersNext \/ UNCHANGED workVars
    BY <1>3 DEF Next, allVars
  <2> QED
    BY <1>1, <1>3, <2>1, WorkersStep, WorkersStutter DEF ServicesInv
<1>4. CASE part = "manager"
  <2>1. Whole!ManagerNext \/ UNCHANGED wholeVars
    BY <1>4 DEF Next, allVars
  <2> QED
    BY <1>1, <1>4, <2>1, ManagerStep, ManagerStutters DEF ServicesInv
<1>5. CASE part = "serve"
  <2>1. Web!ServeNext \/ UNCHANGED webVars
    BY <1>5 DEF Next, allVars
  <2> QED
    BY <1>1, <1>5, <2>1, ServeNextInv, ServeStutters DEF ServicesInv
<1> QED
  BY <1>2, <1>3, <1>4, <1>5 DEF ServicesInv

\* What is known of an environment's services, whoever runs: ServerInv, WorkerInv, ManagerInv
\* and ServeInv (service/*.go, cli/serve_runtime.go).
THEOREM ServicesInvariant == Spec => []ServicesInv
<1>1. Init => ServicesInv
  BY ServicesStart
<1>2. ServicesInv /\ [Next]_<<part, serverVars, workVars, wholeVars, webVars>> => ServicesInv'
  BY ServicesStep DEF allVars
<1> QED
  BY <1>1, <1>2, PTL DEF Spec

\* The variables of every one of the four specifications hold values of their types.
THEOREM ServicesTyped == Spec => []TypesOK
<1>1. ServicesInv => TypesOK
  BY TypesMeanTypes
  DEF ServicesInv, TypesOK, ServerInv, ServerTypes, WorkerInv, WorkerTypes, ManagerInv, ServeInv,
      ServeTypes
<1> QED
  BY <1>1, ServicesInvariant, PTL

\* No server of a managed service is lost: one that runs is named by the state file, or is in
\* the hands of a command, unless a kill, a race or another process excuses it
\* (EnsureManaged...Started, StopManaged...).
THEOREM ServersStayKept == Spec => []ServersKept
<1>1. ServicesInv => ServersKept
  BY DEF ServicesInv, ServersKept, ServerInv
<1> QED
  BY <1>1, ServicesInvariant, PTL

\* No worker is lost or runs twice: when no command runs the state file names every replica
\* that runs, each once (EnsureManagedWorkersStarted, StopManagedWorkers).
THEOREM WorkersStayKept == Spec => []WorkersKept
<1>1. ServicesInv => WorkersKept
  BY WorkersAreKept DEF ServicesInv, WorkersKept
<1> QED
  BY <1>1, ServicesInvariant, PTL

\* No webserver and no php-cgi behind it is lost (finishBackgroundWebserverStart,
\* stopBackgroundWebserver).
THEOREM WebserverStaysKept == Spec => []WebserverKept
<1>1. ServicesInv => WebserverKept
  BY DEF ServicesInv, WebserverKept, ServeInv
<1> QED
  BY <1>1, ServicesInvariant, PTL

\* A success tells the truth: after a start the state file records what the config asks for,
\* after a stop nothing runs, of one service as of all of them (EnsureManaged...Started,
\* StopManaged..., Manager.Stop).
THEOREM SuccessIsTold == Spec => SuccessTrue
<1>1. ServicesInv /\ [Next]_<<part, serverVars, workVars, wholeVars, webVars>> =>
        [/\ part = "server" => SuccessStep
         /\ part = "manager" => Whole!CompleteStep]_<<serverVars, wholeVars>>
  <2> SUFFICES ASSUME ServicesInv, [Next]_<<part, serverVars, workVars, wholeVars, webVars>>,
                      ~UNCHANGED <<serverVars, wholeVars>>
               PROVE  /\ part = "server" => SuccessStep
                      /\ part = "manager" => Whole!CompleteStep
    OBVIOUS
  <2>1. Next
    OBVIOUS
  <2>2. CASE part = "server"
    <3>1. ServerNext
      BY <2>1, <2>2 DEF Next
    <3> QED
      BY <2>2, <3>1, SuccessHolds DEF ServicesInv
  <2>3. CASE part = "manager"
    <3>1. Whole!ManagerNext
      BY <2>1, <2>3 DEF Next
    <3> QED
      BY <2>3, <3>1, ManagerStep DEF ServicesInv
  <2> QED
    BY <2>2, <2>3
<1> QED
  BY <1>1, ServicesInvariant, PTL DEF Spec, SuccessTrue
=============================================================================
