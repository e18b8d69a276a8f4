------------------------ MODULE ProjectInstallProofs ------------------------
(***************************************************************************)
(* Installs in one project, for any number of commands and labels.         *)
(***************************************************************************)
EXTENDS ProjectInstall, TLAPS

\* The goroutines of a command exist while it is in a layer; what is requested and not
\* planned for a later layer has been begun, and so has what something begun needs.
LayersOf(c) ==
  /\ phase[c] # "layer" => \A l \in Label : job[c][l] \in {"none", "done"}
  /\ phase[c] \in {"after", "save", "sync", "ok"} => remaining[c] = {}
  /\ phase[c] \in {"save", "sync"} => explicit[c] # NoLabel
  /\ phase[c] # "idle" =>
       \A l \in Requested(c) : l \in remaining[c] \/ job[c][l] # "none"
  /\ \A l \in remaining[c] :
       /\ job[c][l] = "none"
       /\ \A m \in Needs[l] : m \in remaining[c] \/ job[c][m] # "none"
  /\ \A l \in Label : job[c][l] # "none" => \A m \in Needs[l] : job[c][m] = "done"

LayersInv == \A c \in Command : LayersOf(c)

\* What a command may write to the config is consistent.
EnvInv == \A c \in Command : Consistent(env[c].labels)

\* The payload of a label without flavors is the plain one.
PlainInv == \A l \in Label \ Flavored : Whole(tree[l]) => tree[l] = "plain"

\* A tree that c has done with, or from here on only adds generated files to.
Settled == {"hook", "reapply", "installed", "skipped", "done"}

Delivered(c, l) ==
  \/ tree[l] = CacheEntry(l, env[c].labels)
  \/ tree[l] = "torn" /\ l \in brokenOff

\* Nothing that a command has done is undone while no other one runs.
AloneOf(c) ==
  alone = c =>
    /\ \A d \in Command \ {c} : ~Running(d)
    /\ phase[c] = "layer" => known[c] = recorded
    /\ \A l \in Label :
         /\ job[c][l] \in Settled => Delivered(c, l)
         /\ job[c][l] \in {"installed", "skipped", "done"} => applied[l] = env[c].settings + 1
         /\ job[c][l] \in {"reapply", "skipped"} => l \in known[c]
         /\ job[c][l] = "done" => l \in recorded

AloneInv == \A c \in Command : AloneOf(c)

IInv == TypeOK /\ LayersInv /\ EnvInv /\ PlainInv /\ DiskConsistent /\ AloneInv

-----------------------------------------------------------------------------
(* The model's operators. *)

\* The requests hold the roots and everything that one of them needs.
LEMMA RequestsClosed ==
  ASSUME NEW roots \in SUBSET Label
  PROVE  /\ roots \subseteq Requests(roots)
         /\ Requests(roots) \subseteq Label
         /\ Closed(Requests(roots))
  BY InstallAssumption DEF Requests, Closed

\* A tool that replaces its rivals leaves no rivals.
LEMMA ReplacesRivals ==
  ASSUME NEW labels \in SUBSET Label, Consistent(labels), NEW l \in Label
  PROVE  Consistent(WithRequest(labels, l))
  BY InstallAssumption DEF Consistent, WithRequest

LEMMA EntryIsPayload ==
  ASSUME NEW l \in Label, NEW labels
  PROVE  CacheEntry(l, labels) \in Payload
  BY DEF CacheEntry, Payload

\* One goroutine moves, and nothing else does but trees.
LEMMA JobFrame ==
  ASSUME TypeOK, NEW c \in Command, NEW l \in Label,
         NEW from, NEW to \in Job, JobStep(c, l, from, to)
  PROVE  /\ job' \in [Command -> [Label -> Job]]
         /\ job[c][l] = from /\ job'[c][l] = to
         /\ \A d \in Command, m \in Label : d # c \/ m # l => job'[d][m] = job[d][m]
         /\ UNCHANGED <<config, recorded, phase, explicit, force, env, remaining, known,
                        started, alone>>
  BY DEF TypeOK, JobStep

\* A goroutine's move, the tree aside.
Moves(c, l) ==
  \E from, to \in Job :
    /\ JobStep(c, l, from, to)
    /\ <<from, to>> \in
         {<<"start", "reapply">>, <<"start", "fetch">>, <<"fetch", "clearing">>,
          <<"fetch", "failed">>, <<"clearing", "move">>, <<"clearing", "failed">>,
          <<"move", "hook">>, <<"move", "failed">>, <<"hook", "installed">>,
          <<"hook", "failed">>, <<"reapply", "skipped">>, <<"reapply", "failed">>}

LEMMA GoroutineMoves ==
  ASSUME NEW c \in Command, NEW l \in Label, Goroutine(c, l)
  PROVE  Moves(c, l)
<1>1. CASE Check(c, l)
  BY <1>1 DEF Check, Moves, Job
<1>2. CASE Fetch(c, l)
  BY <1>2 DEF Fetch, Moves, Job
<1>3. CASE ClearTree(c, l)
  BY <1>3 DEF ClearTree, Moves, Job
<1>4. CASE MoveTree(c, l)
  BY <1>4 DEF MoveTree, Moves, Job
<1>5. CASE PostInstall(c, l)
  BY <1>5 DEF PostInstall, Moves, Job
<1> QED
  BY <1>1, <1>2, <1>3, <1>4, <1>5 DEF Goroutine

\* A command is over, and no other one moves.
LEMMA ForgetFrame ==
  ASSUME TypeOK, NEW c \in Command, Forget(c)
  PROVE  /\ phase' \in [Command -> Phase] /\ phase'[c] = "idle"
         /\ explicit' \in [Command -> Label \cup {NoLabel}]
         /\ force' \in [Command -> BOOLEAN]
         /\ env' \in [Command -> Environment] /\ env'[c] = Idle
         /\ remaining' \in [Command -> SUBSET Label] /\ remaining'[c] = {}
         /\ known' \in [Command -> SUBSET Label]
         /\ job' \in [Command -> [Label -> Job]]
         /\ \A l \in Label : job'[c][l] = "none"
         /\ \A d \in Command \ {c} :
              /\ phase'[d] = phase[d] /\ explicit'[d] = explicit[d] /\ env'[d] = env[d]
              /\ remaining'[d] = remaining[d] /\ known'[d] = known[d] /\ job'[d] = job[d]
<1>1. Idle \in Environment
  BY InstallAssumption DEF Idle, Environment
<1> QED
  BY <1>1 DEF TypeOK, Forget, At, Phase, Job, NoJobs

\* A command begins, and no other one moves.
LEMMA StartFrame ==
  ASSUME TypeOK, NEW c \in Command, NEW l \in Label \cup {NoLabel}, NEW forced \in BOOLEAN,
         NEW e \in Environment, NEW roots \in SUBSET Label, Start(c, l, forced, e, roots)
  PROVE  /\ phase' \in [Command -> Phase] /\ phase'[c] = "plan"
         /\ explicit' \in [Command -> Label \cup {NoLabel}] /\ explicit'[c] = l
         /\ force' \in [Command -> BOOLEAN]
         /\ env' \in [Command -> Environment] /\ env'[c] = e
         /\ remaining' \in [Command -> SUBSET Label] /\ remaining'[c] = Requests(roots)
         /\ known' \in [Command -> SUBSET Label]
         /\ job' \in [Command -> [Label -> Job]]
         /\ \A m \in Label : job'[c][m] = "none"
         /\ started' \in 0 .. MaxCommands
         /\ alone' \in {c, NoCommand}
         /\ alone' = c => \A d \in Command \ {c} : ~Running(d)
         /\ \A d \in Command \ {c} :
              /\ phase'[d] = phase[d] /\ explicit'[d] = explicit[d] /\ env'[d] = env[d]
              /\ remaining'[d] = remaining[d] /\ known'[d] = known[d] /\ job'[d] = job[d]
         /\ UNCHANGED <<diskVars, brokenOff>>
<1>1. Requests(roots) \in SUBSET Label
  BY RequestsClosed
<1>2. started' \in 0 .. MaxCommands
  BY InstallAssumption DEF TypeOK, Start
<1>3. /\ alone' \in {c, NoCommand}
      /\ alone' = c => \A d \in Command \ {c} : ~Running(d)
  BY InstallAssumption DEF Start
<1> QED
  BY <1>1, <1>2, <1>3 DEF TypeOK, Start, At, Phase, Job, NoJobs

\* What both ways of starting have in common.
Begins(c) ==
  \E l \in Label \cup {NoLabel}, forced \in BOOLEAN, e \in Environment,
     roots \in SUBSET Label :
    /\ Start(c, l, forced, e, roots)
    /\ l = NoLabel => roots = e.labels
    /\ l # NoLabel => roots = {l}
    /\ Consistent(config.labels) => Consistent(e.labels)

LEMMA StartBegins ==
  ASSUME TypeOK, NEW c \in Command, StartInstall(c) \/ StartInstallTool(c)
  PROVE  Begins(c)
<1>1. CASE StartInstall(c)
  <2>1. config \in Environment /\ config.labels \in SUBSET Label
    BY DEF TypeOK, Environment
  <2>2. PICK forced \in BOOLEAN : Start(c, NoLabel, forced, config, config.labels)
    BY <1>1 DEF StartInstall
  <2> QED
    BY <2>1, <2>2 DEF Begins
<1>2. CASE StartInstallTool(c)
  <2>1. PICK l \in Requestable :
          Start(c, l, TRUE, [config EXCEPT !.labels = WithRequest(@, l)], {l})
    BY <1>2 DEF StartInstallTool
  <2> DEFINE e == [config EXCEPT !.labels = WithRequest(@, l)]
  <2> DEFINE labels == WithRequest(config.labels, l)
  <2>2. /\ config.labels \in SUBSET (Label \ Internal) /\ l \in Label \ Internal
        /\ l # NoLabel
    BY InstallAssumption DEF TypeOK, Environment, Requestable
  <2>3. labels \in SUBSET (Label \ Internal)
    BY <2>2 DEF WithRequest
  <2>4. Consistent(config.labels) => Consistent(labels)
    BY <2>2, ReplacesRivals
  <2>5. Start(c, l, TRUE, e, {l}) /\ e = [config EXCEPT !.labels = labels]
    BY <2>1
  <2> HIDE DEF labels
  <2>6. e \in Environment /\ e.labels = labels
    BY <2>3, <2>5 DEF TypeOK, Environment
  <2>7. Consistent(config.labels) => Consistent(e.labels)
    BY <2>4, <2>6
  <2>8. Start(c, l, TRUE, e, {l}) /\ l \in Label /\ l # NoLabel
    BY <2>2, <2>5
  <2> HIDE DEF e
  <2> QED
    BY <2>6, <2>7, <2>8 DEF Begins
<1> QED
  BY <1>1, <1>2

-----------------------------------------------------------------------------
(* Types. *)

LEMMA InitTypeOK == Init => TypeOK
<1> SUFFICES ASSUME Init PROVE TypeOK
  OBVIOUS
<1>1. config \in Environment /\ Idle \in Environment
  BY InstallAssumption DEF Init, Environment, Idle
<1> QED
  BY <1>1, InstallAssumption
     DEF Init, TypeOK, Tree, Payload, Phase, Job, NoJobs

LEMMA GoroutineTypeOK ==
  ASSUME TypeOK, NEW c \in Command, NEW l \in Label, Goroutine(c, l)
  PROVE  TypeOK'
<1>1. PICK from \in Job, to \in Job : JobStep(c, l, from, to)
  BY GoroutineMoves DEF Moves
<1>2. /\ job' \in [Command -> [Label -> Job]]
      /\ UNCHANGED <<config, recorded, phase, explicit, force, env, remaining, known,
                     started, alone>>
  BY <1>1, JobFrame
<1>3. CASE Check(c, l)
  BY <1>2, <1>3 DEF Check, TypeOK
<1>4. CASE Fetch(c, l)
  BY <1>2, <1>4 DEF Fetch, TypeOK, Tree
<1>5. CASE ClearTree(c, l)
  BY <1>2, <1>5 DEF ClearTree, TypeOK, Tree
<1>6. CASE MoveTree(c, l)
  <2>1. CacheEntry(l, env[c].labels) \in Tree
    BY EntryIsPayload DEF Tree
  <2>2. 0 \in 0 .. MaxSettings + 1
    BY InstallAssumption
  <2> QED
    BY <1>2, <1>6, <2>1, <2>2 DEF MoveTree, TypeOK
<1>7. CASE PostInstall(c, l)
  <2>1. env[c].settings + 1 \in 0 .. MaxSettings + 1
    BY InstallAssumption DEF TypeOK, Environment
  <2>2. tree' \in [Label -> Tree]
    BY <1>7 DEF PostInstall, Generate, TypeOK, Tree
  <2> QED
    BY <1>2, <1>7, <2>1, <2>2 DEF PostInstall, TypeOK
<1> QED
  BY <1>3, <1>4, <1>5, <1>6, <1>7 DEF Goroutine

LEMMA CommandTypeOK ==
  ASSUME TypeOK, NEW c \in Command, CommandStep(c)
  PROVE  TypeOK'
<1>1. CASE StartInstall(c) \/ StartInstallTool(c)
  <2>1. PICK l \in Label \cup {NoLabel}, forced \in BOOLEAN, e \in Environment,
             roots \in SUBSET Label : Start(c, l, forced, e, roots)
    BY <1>1, StartBegins DEF Begins
  <2> QED
    BY <2>1, StartFrame, InstallAssumption DEF TypeOK, diskVars
<1>2. CASE BeginLayer(c)
  BY <1>2 DEF BeginLayer, TypeOK, At, Phase, Job, diskVars, historyVars
<1>3. CASE \E l \in Label : Goroutine(c, l)
  BY <1>3, GoroutineTypeOK
<1>4. CASE EndLayer(c)
  <2>1. recorded' \subseteq Label
    BY <1>4 DEF EndLayer, TypeOK, Installed
  <2>2. CASE Forget(c)
    BY <1>4, <2>1, <2>2, ForgetFrame DEF EndLayer, TypeOK, historyVars
  <2>3. CASE ~Forget(c)
    <3>1. /\ At(c, NextPhase(c))
          /\ job' = [job EXCEPT ![c] = [l \in Label |->
                                          IF @[l] = "none" THEN "none" ELSE "done"]]
          /\ known' = [known EXCEPT ![c] = {}]
          /\ UNCHANGED <<explicit, force, env, remaining>>
      BY <1>4, <2>3 DEF EndLayer
    <3>2. job' \in [Command -> [Label -> Job]]
      BY <3>1 DEF TypeOK, Job
    <3>3. phase' \in [Command -> Phase]
      BY <3>1 DEF TypeOK, At, NextPhase, Phase
    <3> QED
      BY <1>4, <2>1, <3>1, <3>2, <3>3 DEF EndLayer, TypeOK, historyVars
  <2> QED
    BY <2>2, <2>3
<1>5. CASE AfterLayers(c)
  <2>1. config' \in Environment
    BY <1>5, InstallAssumption DEF AfterLayers, TypeOK, Idle, Environment
  <2>2. CASE Forget(c)
    BY <1>5, <2>1, <2>2, ForgetFrame DEF AfterLayers, TypeOK, historyVars
  <2>3. CASE ~Forget(c)
    BY <1>5, <2>1, <2>3 DEF AfterLayers, TypeOK, At, Phase, historyVars
  <2> QED
    BY <2>2, <2>3
<1>6. CASE SaveConfig(c)
  BY <1>6 DEF SaveConfig, TypeOK, At, Phase, historyVars
<1>7. CASE SyncBinaries(c)
  <2>1. CASE Forget(c)
    BY <1>7, <2>1, ForgetFrame DEF SyncBinaries, TypeOK, diskVars, historyVars
  <2>2. CASE ~Forget(c)
    BY <1>7, <2>2 DEF SyncBinaries, TypeOK, At, Phase, diskVars, historyVars
  <2> QED
    BY <2>1, <2>2
<1>8. CASE Kill(c)
  BY <1>8, ForgetFrame DEF Kill, TypeOK, diskVars
<1> QED
  BY <1>1, <1>2, <1>3, <1>4, <1>5, <1>6, <1>7, <1>8 DEF CommandStep

LEMMA SettingsTypeOK == TypeOK /\ EditSettings => TypeOK'
<1> SUFFICES ASSUME TypeOK, EditSettings PROVE TypeOK'
  OBVIOUS
<1>1. config.settings + 1 \in 0 .. MaxSettings
  BY InstallAssumption DEF EditSettings, TypeOK, Environment
<1>2. config' \in Environment
  BY <1>1 DEF EditSettings, TypeOK, Environment
<1> QED
  BY <1>2 DEF EditSettings, TypeOK, commandVars, historyVars

LEMMA StutterTypeOK == TypeOK /\ UNCHANGED vars => TypeOK'
  BY DEF TypeOK, vars, diskVars, commandVars, historyVars

\* Every variable keeps its type (backend/store.go, backend/state.go).
THEOREM InstallTypes == Spec => []TypeOK
<1>1. TypeOK /\ [Next]_vars => TypeOK'
  BY CommandTypeOK, SettingsTypeOK, StutterTypeOK DEF Next
<1> QED
  BY <1>1, InitTypeOK, PTL DEF Spec

-----------------------------------------------------------------------------
(* What is installed before what. *)

LEMMA InitLayersInv == Init => LayersInv
  BY DEF Init, LayersInv, LayersOf, NoJobs

\* A command that does not move, or that is over, is where it was.
LEMMA OthersLayers ==
  ASSUME NEW d \in Command, LayersOf(d),
         UNCHANGED <<phase[d], explicit[d], env[d], remaining[d], job[d]>>
  PROVE  LayersOf(d)'
  BY DEF LayersOf, Requested

LEMMA OverLayers ==
  ASSUME NEW d \in Command, phase'[d] = "idle", remaining'[d] = {},
         \A l \in Label : job'[d][l] = "none"
  PROVE  LayersOf(d)'
  BY DEF LayersOf

LEMMA ForgetLayers ==
  ASSUME TypeOK, LayersInv, NEW c \in Command, Forget(c)
  PROVE  LayersInv'
  BY ForgetFrame, OthersLayers, OverLayers DEF LayersInv

LEMMA StartLayers ==
  ASSUME TypeOK, LayersInv, NEW c \in Command, StartInstall(c) \/ StartInstallTool(c)
  PROVE  LayersInv'
<1>1. PICK l \in Label \cup {NoLabel}, forced \in BOOLEAN, e \in Environment,
           roots \in SUBSET Label :
             /\ Start(c, l, forced, e, roots)
             /\ l = NoLabel => roots = e.labels
             /\ l # NoLabel => roots = {l}
  BY StartBegins DEF Begins
<1>2. /\ phase'[c] = "plan" /\ explicit'[c] = l /\ env'[c] = e
      /\ remaining'[c] = Requests(roots)
      /\ \A m \in Label : job'[c][m] = "none"
      /\ \A d \in Command \ {c} :
           UNCHANGED <<phase[d], explicit[d], env[d], remaining[d], job[d]>>
  BY <1>1, StartFrame
<1>3. Requested(c)' = Requests(roots)
  BY <1>1, <1>2 DEF Requested
<1>4. Requests(roots) \subseteq Label /\ Closed(Requests(roots))
  BY RequestsClosed
<1>5. LayersOf(c)'
  BY <1>2, <1>3, <1>4 DEF LayersOf, Closed
<1> QED
  BY <1>2, <1>5, OthersLayers DEF LayersInv

LEMMA BeginLayerLayers ==
  ASSUME TypeOK, LayersInv, NEW c \in Command, BeginLayer(c)
  PROVE  LayersInv'
<1>1. /\ phase[c] = "plan" /\ phase'[c] = "layer"
      /\ remaining'[c] = remaining[c] \ Ready(c)
      /\ UNCHANGED <<explicit, env>>
      /\ \A l \in Label : job'[c][l] = IF l \in Ready(c) THEN "start" ELSE job[c][l]
      /\ \A d \in Command \ {c} : UNCHANGED <<phase[d], remaining[d], job[d]>>
  BY DEF BeginLayer, TypeOK, At
<1>2. \A l \in Label : job[c][l] \in {"none", "done"}
  BY <1>1 DEF LayersInv, LayersOf
<1>3. \A l \in Label : Needs[l] \subseteq Label
  BY InstallAssumption
<1>4. Ready(c) \subseteq remaining[c] /\ remaining[c] \subseteq Label
  BY DEF Ready, TypeOK
<1>5. \A l \in Ready(c) : \A m \in Needs[l] : m \notin Ready(c) /\ job[c][m] = "done"
  BY <1>2, <1>3, <1>4 DEF LayersInv, LayersOf, Ready
<1>6. Requested(c)' = Requested(c) /\ Requested(c) \subseteq Label
  BY <1>1 DEF Requested, Requests
<1>7. \A l \in Label : job'[c][l] # "none" => \A m \in Needs[l] : job'[c][m] = "done"
  <2> SUFFICES ASSUME NEW l \in Label, job'[c][l] # "none", NEW m \in Needs[l]
               PROVE  job'[c][m] = "done"
    OBVIOUS
  <2>1. job[c][m] = "done" /\ m \in Label
    BY <1>1, <1>3, <1>5 DEF LayersInv, LayersOf
  <2>2. m \notin Ready(c)
    BY <1>4, <2>1 DEF LayersInv, LayersOf
  <2> QED
    BY <1>1, <2>1, <2>2
<1>8. \A l \in remaining'[c] :
        /\ job'[c][l] = "none"
        /\ \A m \in Needs[l] : m \in remaining'[c] \/ job'[c][m] # "none"
  BY <1>1, <1>3, <1>4 DEF LayersInv, LayersOf
<1>9. \A l \in Requested(c) : l \in remaining'[c] \/ job'[c][l] # "none"
  BY <1>1, <1>4, <1>6 DEF LayersInv, LayersOf
<1>10. LayersOf(c)'
  BY <1>1, <1>6, <1>7, <1>8, <1>9 DEF LayersOf
<1> QED
  BY <1>1, <1>10, OthersLayers DEF LayersInv

LEMMA GoroutineLayers ==
  ASSUME TypeOK, LayersInv, NEW c \in Command, NEW l \in Label, Goroutine(c, l)
  PROVE  LayersInv'
<1>1. PICK from \in Job, to \in Job :
        /\ JobStep(c, l, from, to)
        /\ from \notin {"none", "done"} /\ to # "none"
  BY GoroutineMoves DEF Moves
<1>2. /\ job[c][l] = from /\ job'[c][l] = to
      /\ \A d \in Command, m \in Label : d # c \/ m # l => job'[d][m] = job[d][m]
      /\ UNCHANGED <<phase, explicit, env, remaining>>
  BY <1>1, JobFrame
<1>3. \A l2 \in Label : Needs[l2] \subseteq Label
  BY InstallAssumption
<1>4. Requested(c)' = Requested(c) /\ Requested(c) \subseteq Label
  BY <1>2 DEF Requested, Requests
<1>5. remaining[c] \subseteq Label
  BY DEF TypeOK
<1>6. LayersOf(c)'
  BY <1>1, <1>2, <1>3, <1>4, <1>5 DEF LayersInv, LayersOf
<1>7. ASSUME NEW d \in Command \ {c}
      PROVE  job'[d] = job[d]
  <2>1. job'[d] \in [Label -> Job] /\ job[d] \in [Label -> Job]
    BY <1>1, JobFrame DEF TypeOK
  <2> QED
    BY <1>2, <2>1
<1> QED
  BY <1>2, <1>6, <1>7, OthersLayers DEF LayersInv

LEMMA EndLayerLayers ==
  ASSUME TypeOK, LayersInv, NEW c \in Command, EndLayer(c)
  PROVE  LayersInv'
<1>1. CASE Forget(c)
  BY <1>1, ForgetLayers
<1>2. CASE ~Forget(c)
  <2>1. /\ At(c, NextPhase(c))
        /\ job' = [job EXCEPT ![c] = [l \in Label |->
                                        IF @[l] = "none" THEN "none" ELSE "done"]]
        /\ UNCHANGED <<explicit, env, remaining>>
    BY <1>2 DEF EndLayer
  <2>2. /\ phase'[c] = NextPhase(c)
        /\ \A l \in Label : job'[c][l] = IF job[c][l] = "none" THEN "none" ELSE "done"
        /\ \A d \in Command \ {c} : UNCHANGED <<phase[d], job[d]>>
    BY <2>1 DEF TypeOK, At
  <2>3. phase[c] = "layer" /\ phase'[c] \in {"plan", "after"}
        /\ (phase'[c] = "after" => remaining[c] = {})
    BY <2>2 DEF EndLayer, LayerEnded, NextPhase
  <2>4. Requested(c)' = Requested(c) /\ Requested(c) \subseteq Label
    BY <2>1 DEF Requested, Requests
  <2>5. remaining[c] \subseteq Label /\ \A l \in Label : Needs[l] \subseteq Label
    BY InstallAssumption DEF TypeOK
  <2>6. LayersOf(c)'
    BY <2>1, <2>2, <2>3, <2>4, <2>5 DEF LayersInv, LayersOf
  <2> QED
    BY <2>1, <2>2, <2>6, OthersLayers DEF LayersInv
<1> QED
  BY <1>1, <1>2

\* The end of a command: from "after" on, only its phase moves.
LEMMA EndLayers ==
  ASSUME TypeOK, LayersInv, NEW c \in Command,
         AfterLayers(c) \/ SaveConfig(c) \/ SyncBinaries(c)
  PROVE  LayersInv'
<1>1. CASE Forget(c)
  BY <1>1, ForgetLayers
<1>2. CASE ~Forget(c)
  <2>1. /\ phase[c] \in {"after", "save", "sync"}
        /\ phase'[c] \in {"save", "sync", "ok"}
        /\ phase'[c] \in {"save", "sync"} => explicit[c] # NoLabel
        /\ UNCHANGED <<explicit, env, remaining, job>>
        /\ \A d \in Command \ {c} : UNCHANGED phase[d]
    BY <1>2 DEF AfterLayers, SaveConfig, SyncBinaries, At, TypeOK, LayersInv, LayersOf
  <2>2. Requested(c)' = Requested(c)
    BY <2>1 DEF Requested
  <2>3. LayersOf(c)'
    BY <2>1, <2>2 DEF LayersInv, LayersOf
  <2> QED
    BY <2>1, <2>3, OthersLayers DEF LayersInv
<1> QED
  BY <1>1, <1>2

LEMMA LayersStep == TypeOK /\ LayersInv /\ [Next]_vars => LayersInv'
<1> SUFFICES ASSUME TypeOK, LayersInv, [Next]_vars PROVE LayersInv'
  OBVIOUS
<1>1. CASE EditSettings \/ UNCHANGED vars
  BY <1>1, OthersLayers DEF LayersInv, EditSettings, vars, commandVars
<1>2. ASSUME NEW c \in Command, CommandStep(c)
      PROVE  LayersInv'
  BY <1>2, StartLayers, BeginLayerLayers, GoroutineLayers, EndLayerLayers, EndLayers,
     ForgetLayers DEF CommandStep, Kill
<1> QED
  BY <1>1, <1>2 DEF Next

\* A goroutine that starts finds what its tool needs done.
LEMMA DependenciesFirstStep == TypeOK /\ LayersInv => DependenciesFirst
  BY DEF LayersInv, LayersOf, DependenciesFirst

\* Only the end of a layer writes installed.json.
LEMMA RecordsStep ==
  ASSUME TypeOK, NEW c \in Command, CommandStep(c)
  PROVE  RecordsOnlyInstalled
<1>1. CASE StartInstall(c) \/ StartInstallTool(c)
  BY <1>1, StartBegins, StartFrame DEF Begins, RecordsOnlyInstalled, diskVars
<1>2. CASE \E l \in Label : Goroutine(c, l)
  BY <1>2, GoroutineMoves, JobFrame DEF Moves, RecordsOnlyInstalled
<1>3. CASE EndLayer(c)
  BY <1>3 DEF EndLayer, Installed, RecordsOnlyInstalled
<1>4. CASE BeginLayer(c) \/ AfterLayers(c) \/ SaveConfig(c) \/ SyncBinaries(c) \/ Kill(c)
  BY <1>4 DEF BeginLayer, AfterLayers, SaveConfig, SyncBinaries, Kill, diskVars,
              RecordsOnlyInstalled
<1> QED
  BY <1>1, <1>2, <1>3, <1>4 DEF CommandStep

\* Only the two steps that save the config change it in a command, after all layers.
LEMMA ConfigStep ==
  ASSUME TypeOK, LayersInv, NEW c \in Command, CommandStep(c)
  PROVE  ConfigOnlyAfterInstall
<1>1. CASE StartInstall(c) \/ StartInstallTool(c)
  BY <1>1, StartBegins, StartFrame DEF Begins, ConfigOnlyAfterInstall, diskVars
<1>2. CASE \E l \in Label : Goroutine(c, l)
  BY <1>2, GoroutineMoves, JobFrame DEF Moves, ConfigOnlyAfterInstall
<1>3. CASE BeginLayer(c) \/ EndLayer(c) \/ SyncBinaries(c) \/ Kill(c)
  BY <1>3 DEF BeginLayer, EndLayer, SyncBinaries, Kill, diskVars, ConfigOnlyAfterInstall
<1>4. CASE AfterLayers(c) \/ SaveConfig(c)
  <2>1. config' # config => phase[c] \in {"after", "save"} /\ explicit[c] # NoLabel
    BY <1>4 DEF AfterLayers, SaveConfig, LayersInv, LayersOf
  <2>2. phase[c] \in {"after", "save"} =>
          \A l \in Requested(c) : job[c][l] = "done"
    BY DEF LayersInv, LayersOf, Requested, Requests
  <2> QED
    BY <2>1, <2>2 DEF ConfigOnlyAfterInstall
<1> QED
  BY <1>1, <1>2, <1>3, <1>4 DEF CommandStep

LEMMA InstalledFirstStep ==
  TypeOK /\ LayersInv /\ [Next]_vars =>
    [DependenciesFirst /\ RecordsOnlyInstalled /\ ConfigOnlyAfterInstall]_vars
<1> SUFFICES ASSUME TypeOK, LayersInv, Next
             PROVE  DependenciesFirst /\ RecordsOnlyInstalled /\ ConfigOnlyAfterInstall
  OBVIOUS
<1>1. CASE EditSettings
  BY <1>1, DependenciesFirstStep
     DEF EditSettings, commandVars, RecordsOnlyInstalled, ConfigOnlyAfterInstall
<1>2. CASE \E c \in Command : CommandStep(c)
  BY <1>2, DependenciesFirstStep, RecordsStep, ConfigStep
<1> QED
  BY <1>1, <1>2 DEF Next

\* What depends on an install comes after it, for any dependencies and any number of
\* commands (InstallRequestLayers, installRequests, InstallToolWithOptions).
THEOREM InstallsInOrder == Spec => InstalledFirst
<1>1. Init => TypeOK /\ LayersInv
  BY InitTypeOK, InitLayersInv
<1>2. (TypeOK /\ LayersInv) /\ [Next]_vars => (TypeOK /\ LayersInv)'
  BY LayersStep, CommandTypeOK, SettingsTypeOK, StutterTypeOK DEF Next
<1> QED
  BY <1>1, <1>2, InstalledFirstStep, PTL DEF Spec, InstalledFirst

-----------------------------------------------------------------------------
(* What is left on disk. *)

LEMMA InitDisk == Init => EnvInv /\ PlainInv /\ DiskConsistent
<1> SUFFICES ASSUME Init PROVE EnvInv /\ PlainInv /\ DiskConsistent
  OBVIOUS
<1>1. Consistent({})
  BY DEF Consistent
<1>2. Consistent(config.labels)
  BY DEF Init
<1> QED
  BY <1>1, <1>2 DEF Init, Idle, EnvInv, PlainInv, DiskConsistent, Whole, Payload

Torn(l) == l \in brokenOff \/ \E c \in Command : job[c][l] = "clearing"

LEMMA GoroutineDisk ==
  ASSUME TypeOK, EnvInv, PlainInv, DiskConsistent,
         NEW c \in Command, NEW l \in Label, Goroutine(c, l)
  PROVE  EnvInv' /\ PlainInv' /\ DiskConsistent'
<1>1. PICK from \in Job, to \in Job : JobStep(c, l, from, to)
  BY GoroutineMoves DEF Moves
<1>2. /\ job[c][l] = from /\ job'[c][l] = to
      /\ \A d \in Command, m \in Label : d # c \/ m # l => job'[d][m] = job[d][m]
      /\ UNCHANGED <<config, env>>
  BY <1>1, JobFrame
<1>3. EnvInv' /\ Consistent(config.labels)'
  BY <1>2 DEF EnvInv, DiskConsistent
<1>4. ASSUME \A m \in Label \ {l} : tree'[m] = tree[m],
             brokenOff \subseteq brokenOff',
             tree'[l] = "torn" => Torn(l)',
             Whole(tree'[l]) =>
               \/ Whole(tree[l]) /\ tree'[l] = tree[l]
               \/ tree'[l] = CacheEntry(l, env[c].labels)
      PROVE  PlainInv' /\ DiskConsistent'
  <2>1. PlainInv'
    BY <1>4 DEF PlainInv, CacheEntry
  <2>2. ASSUME NEW m \in Label, tree'[m] = "torn"
        PROVE  Torn(m)'
    <3>1. CASE m = l
      BY <1>4, <2>2, <3>1
    <3>2. CASE m # l
      <4>1. Torn(m)
        BY <1>4, <2>2, <3>2 DEF DiskConsistent, Torn
      <4> QED
        BY <1>2, <1>4, <3>2, <4>1 DEF Torn
    <3> QED
      BY <3>1, <3>2
  <2> QED
    BY <1>3, <2>1, <2>2 DEF DiskConsistent, Torn
<1>5. from # "clearing" /\ tree[l] = "torn" /\ UNCHANGED brokenOff => Torn(l)'
  BY <1>2 DEF DiskConsistent, Torn
<1>6. CASE Check(c, l)
  <2>1. from = "start"
    BY <1>2, <1>6 DEF Check, JobStep
  <2> QED
    BY <1>3, <1>4, <1>5, <1>6, <2>1 DEF Check
<1>7. CASE Fetch(c, l)
  <2>1. from = "fetch" /\ UNCHANGED brokenOff
    BY <1>2, <1>7 DEF Fetch, JobStep
  <2>2. \A m \in Label \ {l} : tree'[m] = tree[m]
    BY <1>7 DEF Fetch, TypeOK
  <2>3. tree'[l] = tree[l] \/ tree'[l] = "torn"
    BY <1>7 DEF Fetch, TypeOK
  <2>4. tree'[l] = "torn" => tree[l] = "torn" \/ to = "clearing"
    BY <1>2, <1>7 DEF Fetch, JobStep, TypeOK
  <2>5. tree'[l] = "torn" => Torn(l)'
    BY <1>2, <1>5, <2>1, <2>4 DEF Torn
  <2> QED
    BY <1>3, <1>4, <2>1, <2>2, <2>3, <2>5 DEF Whole, Payload
<1>8. CASE ClearTree(c, l)
  <2>1. brokenOff' = brokenOff \/ brokenOff' = brokenOff \cup {l}
    BY <1>8 DEF ClearTree
  <2>2. \A m \in Label \ {l} : tree'[m] = tree[m]
    BY <1>8 DEF ClearTree, TypeOK
  <2>3. tree'[l] \in {tree[l], "torn", "none"}
    BY <1>8 DEF ClearTree, TypeOK
  <2>4. tree'[l] = "none" \/ l \in brokenOff'
    BY <1>8 DEF ClearTree, TypeOK
  <2> QED
    BY <1>3, <1>4, <2>1, <2>2, <2>3, <2>4 DEF Whole, Payload, Torn
<1>9. CASE MoveTree(c, l)
  <2>1. from = "move" /\ UNCHANGED brokenOff
    BY <1>2, <1>9 DEF MoveTree, JobStep
  <2>2. \A m \in Label \ {l} : tree'[m] = tree[m]
    BY <1>9 DEF MoveTree, TypeOK
  <2>3. tree'[l] \in {tree[l], CacheEntry(l, env[c].labels)}
    BY <1>9 DEF MoveTree, TypeOK
  <2>4. CacheEntry(l, env[c].labels) # "torn"
    BY EntryIsPayload DEF Payload
  <2> QED
    BY <1>3, <1>4, <1>5, <2>1, <2>2, <2>3, <2>4
<1>10. CASE PostInstall(c, l)
  <2>1. from \in {"hook", "reapply"} /\ UNCHANGED brokenOff
    BY <1>2, <1>10 DEF PostInstall, JobStep
  <2>2. \A m \in Label \ {l} : tree'[m] = tree[m]
    BY <1>10 DEF PostInstall, Generate, TypeOK
  <2>3. tree'[l] \in {tree[l], "generated"}
    BY <1>10 DEF PostInstall, Generate, TypeOK
  <2> QED
    BY <1>3, <1>4, <1>5, <2>1, <2>2, <2>3 DEF Whole, Payload
<1> QED
  BY <1>6, <1>7, <1>8, <1>9, <1>10 DEF Goroutine

\* A step of a command that touches no tree and stops no removal.
LEMMA TreesKept ==
  ASSUME PlainInv, DiskConsistent, UNCHANGED tree, brokenOff \subseteq brokenOff',
         \A c \in Command, l \in Label :
           job[c][l] = "clearing" => job'[c][l] = "clearing" \/ l \in brokenOff',
         Consistent(config'.labels)
  PROVE  PlainInv' /\ DiskConsistent'
  BY DEF PlainInv, DiskConsistent

\* Goroutines exist in layers only, so that what ends otherwise removes nothing.
LEMMA OnlyLayersRemove ==
  ASSUME LayersInv, NEW c \in Command, phase[c] # "layer" \/ LayerEnded(c), NEW l \in Label
  PROVE  job[c][l] # "clearing"
  BY DEF LayersInv, LayersOf, LayerEnded, Ended

LEMMA ForgetEnv == ASSUME TypeOK, EnvInv, NEW c \in Command, Forget(c) PROVE EnvInv'
<1>1. Consistent(Idle.labels)
  BY DEF Idle, Consistent
<1> QED
  BY <1>1, ForgetFrame DEF EnvInv

LEMMA CommandDisk ==
  ASSUME TypeOK, LayersInv, EnvInv, PlainInv, DiskConsistent,
         NEW c \in Command, CommandStep(c)
  PROVE  EnvInv' /\ PlainInv' /\ DiskConsistent'
<1>1. CASE StartInstall(c) \/ StartInstallTool(c)
  <2>1. PICK l \in Label \cup {NoLabel}, forced \in BOOLEAN, e \in Environment,
             roots \in SUBSET Label :
               /\ Start(c, l, forced, e, roots)
               /\ Consistent(config.labels) => Consistent(e.labels)
    BY <1>1, StartBegins DEF Begins
  <2>2. /\ env'[c] = e /\ UNCHANGED <<diskVars, brokenOff>>
        /\ \A d \in Command \ {c} : env'[d] = env[d] /\ job'[d] = job[d]
    BY <2>1, StartFrame
  <2>3. phase[c] # "layer"
    BY <2>1 DEF Start, Running
  <2>4. EnvInv'
    BY <2>1, <2>2 DEF EnvInv, DiskConsistent
  <2> QED
    BY <2>2, <2>3, <2>4, TreesKept, OnlyLayersRemove DEF diskVars, DiskConsistent
<1>2. CASE BeginLayer(c)
  <2>1. \A d \in Command, l \in Label : job[d][l] = "clearing" => job'[d][l] = "clearing"
    BY <1>2, OnlyLayersRemove DEF BeginLayer, TypeOK
  <2>2. EnvInv'
    BY <1>2 DEF BeginLayer, EnvInv
  <2> QED
    BY <1>2, <2>1, <2>2, TreesKept DEF BeginLayer, diskVars, historyVars, DiskConsistent
<1>3. CASE \E l \in Label : Goroutine(c, l)
  BY <1>3, GoroutineDisk
<1>4. CASE EndLayer(c)
  <2>1. LayerEnded(c) /\ UNCHANGED <<config, tree, brokenOff>>
    BY <1>4 DEF EndLayer, historyVars
  <2>2. CASE Forget(c)
    BY <2>1, <2>2, ForgetFrame, ForgetEnv, TreesKept, OnlyLayersRemove DEF DiskConsistent
  <2>3. CASE ~Forget(c)
    <3>1. \A d \in Command \ {c} : job'[d] = job[d]
      BY <1>4, <2>3 DEF EndLayer, TypeOK
    <3>2. EnvInv'
      BY <1>4, <2>3 DEF EndLayer, EnvInv
    <3> QED
      BY <2>1, <3>1, <3>2, TreesKept, OnlyLayersRemove DEF DiskConsistent
  <2> QED
    BY <2>2, <2>3
<1>5. CASE AfterLayers(c) \/ SaveConfig(c) \/ SyncBinaries(c)
  <2>1. phase[c] # "layer" /\ UNCHANGED <<tree, brokenOff>>
    BY <1>5 DEF AfterLayers, SaveConfig, SyncBinaries, diskVars, historyVars
  <2>2. Consistent(config'.labels)
    <3>1. Consistent(Idle.labels)
      BY DEF Idle, Consistent
    <3> QED
      BY <1>5, <3>1 DEF AfterLayers, SaveConfig, SyncBinaries, diskVars, EnvInv,
                        DiskConsistent
  <2>3. CASE Forget(c)
    BY <2>1, <2>2, <2>3, ForgetFrame, ForgetEnv, TreesKept, OnlyLayersRemove
  <2>4. CASE ~Forget(c)
    <3>1. UNCHANGED <<env, job>>
      BY <1>5, <2>4 DEF AfterLayers, SaveConfig, SyncBinaries
    <3> QED
      BY <2>1, <2>2, <3>1, TreesKept DEF EnvInv
  <2> QED
    BY <2>3, <2>4
<1>6. CASE Kill(c)
  <2>1. /\ UNCHANGED <<config, tree>>
        /\ brokenOff' = brokenOff \cup {l \in Label : job[c][l] = "clearing"}
    BY <1>6 DEF Kill, diskVars
  <2> QED
    BY <1>6, <2>1, ForgetFrame, ForgetEnv, TreesKept DEF Kill, DiskConsistent
<1> QED
  BY <1>1, <1>2, <1>3, <1>4, <1>5, <1>6 DEF CommandStep

LEMMA DiskStep ==
  TypeOK /\ LayersInv /\ EnvInv /\ PlainInv /\ DiskConsistent /\ [Next]_vars =>
    EnvInv' /\ PlainInv' /\ DiskConsistent'
<1> SUFFICES ASSUME TypeOK, LayersInv, EnvInv, PlainInv, DiskConsistent, [Next]_vars
             PROVE  EnvInv' /\ PlainInv' /\ DiskConsistent'
  OBVIOUS
<1>1. CASE EditSettings
  <2>1. config'.labels = config.labels /\ UNCHANGED <<tree, env, job, brokenOff>>
    BY <1>1 DEF EditSettings, TypeOK, Environment, commandVars, historyVars
  <2> QED
    BY <2>1, TreesKept DEF EnvInv, DiskConsistent
<1>2. CASE UNCHANGED vars
  BY <1>2, TreesKept DEF vars, diskVars, commandVars, historyVars, EnvInv, DiskConsistent
<1> QED
  BY <1>1, <1>2, CommandDisk DEF Next


-----------------------------------------------------------------------------
(* What a command alone promises. *)

LEMMA InitAlone == Init => AloneInv
  BY InstallAssumption DEF Init, AloneInv, AloneOf

\* Steps of the command that is alone, and of no other, matter.
LEMMA RunningSteps ==
  ASSUME TypeOK, LayersInv, NEW c \in Command, CommandStep(c),
         ~(StartInstall(c) \/ StartInstallTool(c))
  PROVE  Running(c) /\ UNCHANGED alone /\ \A d \in Command \ {c} : phase'[d] = phase[d]
<1>1. CASE \E l \in Label : Goroutine(c, l)
  <2>1. PICK l \in Label, from \in Job, to \in Job :
               JobStep(c, l, from, to) /\ from \notin {"none", "done"}
    BY <1>1, GoroutineMoves DEF Moves
  <2>2. job[c][l] = from /\ UNCHANGED <<phase, alone>>
    BY <2>1, JobFrame
  <2> QED
    BY <2>1, <2>2 DEF LayersInv, LayersOf, Running
<1>2. CASE BeginLayer(c) \/ SaveConfig(c)
  BY <1>2 DEF BeginLayer, SaveConfig, At, TypeOK, Running, historyVars
<1>3. CASE EndLayer(c) \/ AfterLayers(c) \/ SyncBinaries(c) \/ Kill(c)
  BY <1>3, ForgetFrame
     DEF EndLayer, LayerEnded, AfterLayers, SyncBinaries, Kill, At, TypeOK, Running,
         historyVars
<1> QED
  BY <1>1, <1>2, <1>3 DEF CommandStep

LEMMA StartAlone ==
  ASSUME TypeOK, AloneInv, NEW c \in Command, StartInstall(c) \/ StartInstallTool(c)
  PROVE  AloneInv'
<1>1. /\ phase'[c] = "plan" /\ \A l \in Label : job'[c][l] = "none"
      /\ alone' \in {c, NoCommand}
      /\ alone' = c => \A d \in Command \ {c} : ~Running(d)
      /\ \A d \in Command \ {c} : phase'[d] = phase[d]
  BY StartBegins, StartFrame DEF Begins
<1>2. AloneOf(c)'
  BY <1>1 DEF AloneOf, Running, Settled
<1>3. \A d \in Command \ {c} : alone' # d
  BY <1>1, InstallAssumption
<1> QED
  BY <1>2, <1>3 DEF AloneInv, AloneOf

\* While c is alone a directory is torn only by its own removal.
LEMMA AloneTorn ==
  ASSUME LayersInv, DiskConsistent, AloneInv, NEW c \in Command, alone = c,
         NEW l \in Label, tree[l] = "torn", job[c][l] # "clearing"
  PROVE  l \in brokenOff
<1>1. \A d \in Command : job[d][l] = "clearing" => Running(d)
  BY DEF LayersInv, LayersOf, Running
<1> QED
  BY <1>1 DEF DiskConsistent, AloneInv, AloneOf

LEMMA GoroutineAlone ==
  ASSUME TypeOK, LayersInv, PlainInv, DiskConsistent, AloneInv,
         NEW c \in Command, alone = c, NEW l \in Label, Goroutine(c, l)
  PROVE  AloneOf(c)'
<1>1. PICK from \in Job, to \in Job :
        JobStep(c, l, from, to) /\ from \notin {"none", "done"}
  BY GoroutineMoves DEF Moves
<1>2. /\ job[c][l] = from /\ job'[c][l] = to
      /\ \A d \in Command, m \in Label : d # c \/ m # l => job'[d][m] = job[d][m]
      /\ UNCHANGED <<recorded, phase, env, known, alone>>
  BY <1>1, JobFrame
<1>3. ASSUME \A m \in Label \ {l} : tree'[m] = tree[m] /\ applied'[m] = applied[m],
             brokenOff \subseteq brokenOff',
             to \in Settled => Delivered(c, l)',
             to \in {"installed", "skipped", "done"} => applied'[l] = env[c].settings + 1,
             to \in {"reapply", "skipped"} => l \in known[c],
             to # "done"
      PROVE  AloneOf(c)'
  <2>1. ASSUME NEW m \in Label
        PROVE  /\ job'[c][m] \in Settled => Delivered(c, m)'
               /\ job'[c][m] \in {"installed", "skipped", "done"} =>
                    applied'[m] = env'[c].settings + 1
               /\ job'[c][m] \in {"reapply", "skipped"} => m \in known'[c]
               /\ job'[c][m] = "done" => m \in recorded'
    <3>1. CASE m = l
      BY <1>2, <1>3, <3>1
    <3>2. CASE m # l
      BY <1>2, <1>3, <3>2 DEF AloneInv, AloneOf, Delivered
    <3> QED
      BY <3>1, <3>2
  <2>2. /\ \A d \in Command \ {c} : ~Running(d)'
        /\ phase'[c] = "layer" => known'[c] = recorded'
    BY <1>2 DEF AloneInv, AloneOf, Running
  <2> QED
    BY <2>1, <2>2 DEF AloneOf
<1>4. CASE Check(c, l)
  <2>1. UNCHANGED <<tree, applied, brokenOff>> /\ from = "start"
    BY <1>2, <1>4 DEF Check, JobStep
  <2>2. to = "fetch" \/ (to = "reapply" /\ MaySkip(c, l))
    BY <1>2, <1>4 DEF Check, JobStep, TypeOK
  <2>3. MaySkip(c, l) => Delivered(c, l)' /\ l \in known[c]
    BY <1>2, <2>1, AloneTorn
       DEF MaySkip, SkipFlavored, MayResolve, PlainInv, Delivered, CacheEntry
  <2> QED
    BY <1>3, <2>1, <2>2, <2>3 DEF Settled
<1>5. CASE Fetch(c, l)
  <2>1. to \in {"clearing", "failed"}
    BY <1>2, <1>5 DEF Fetch, JobStep, TypeOK
  <2>2. /\ UNCHANGED <<applied, brokenOff>>
        /\ \A m \in Label \ {l} : tree'[m] = tree[m]
    BY <1>5 DEF Fetch, TypeOK
  <2> QED
    BY <1>3, <2>1, <2>2 DEF Settled
<1>6. CASE ClearTree(c, l)
  <2>1. to \in {"move", "failed"}
    BY <1>2, <1>6 DEF ClearTree, JobStep, TypeOK
  <2>2. /\ UNCHANGED applied /\ brokenOff \subseteq brokenOff'
        /\ \A m \in Label \ {l} : tree'[m] = tree[m]
    BY <1>6 DEF ClearTree, TypeOK
  <2> QED
    BY <1>3, <2>1, <2>2 DEF Settled
<1>7. CASE MoveTree(c, l)
  <2>1. to = "failed" \/ (to = "hook" /\ tree'[l] = CacheEntry(l, env[c].labels))
    BY <1>2, <1>7 DEF MoveTree, JobStep, TypeOK
  <2>2. /\ UNCHANGED brokenOff
        /\ \A m \in Label \ {l} : tree'[m] = tree[m] /\ applied'[m] = applied[m]
    BY <1>7 DEF MoveTree, TypeOK
  <2> QED
    BY <1>2, <1>3, <2>1, <2>2 DEF Settled, Delivered
<1>8. CASE PostInstall(c, l)
  <2>1. \/ to = "failed"
        \/ from = "hook" /\ to = "installed" /\ applied'[l] = env[c].settings + 1
        \/ from = "reapply" /\ to = "skipped" /\ applied'[l] = env[c].settings + 1
    BY <1>2, <1>8 DEF PostInstall, JobStep, TypeOK
  <2>2. /\ UNCHANGED brokenOff
        /\ \A m \in Label \ {l} : tree'[m] = tree[m] /\ applied'[m] = applied[m]
        /\ tree[l] # "none" => tree'[l] = tree[l]
    BY <1>8 DEF PostInstall, Generate, TypeOK
  <2>3. from \in Settled => Delivered(c, l)
    BY <1>2 DEF AloneInv, AloneOf
  <2>4. Delivered(c, l) => Delivered(c, l)'
    BY <1>2, <2>2, EntryIsPayload DEF Delivered, Payload
  <2>5. from = "reapply" => l \in known[c]
    BY <1>2 DEF AloneInv, AloneOf
  <2> QED
    BY <1>3, <2>1, <2>2, <2>3, <2>4, <2>5 DEF Settled
<1> QED
  BY <1>4, <1>5, <1>6, <1>7, <1>8 DEF Goroutine

LEMMA CommandAlone ==
  ASSUME TypeOK, LayersInv, PlainInv, DiskConsistent, AloneInv,
         NEW c \in Command, CommandStep(c)
  PROVE  AloneInv'
<1>1. CASE StartInstall(c) \/ StartInstallTool(c)
  BY <1>1, StartAlone
<1>2. CASE ~(StartInstall(c) \/ StartInstallTool(c))
  <2>1. Running(c) /\ UNCHANGED alone /\ \A d \in Command \ {c} : phase'[d] = phase[d]
    BY <1>2, RunningSteps
  <2>2. \A d \in Command \ {c} : alone' # d
    BY <2>1 DEF AloneInv, AloneOf
  <2>3. ASSUME alone = c
        PROVE  AloneOf(c)'
    <3>1. /\ \A d \in Command \ {c} : ~Running(d)'
          /\ phase[c] = "layer" => known[c] = recorded
      BY <2>1, <2>3 DEF AloneInv, AloneOf, Running
    <3>2. CASE \E l \in Label : Goroutine(c, l)
      BY <2>3, <3>2, GoroutineAlone
    <3>3. CASE Forget(c)
      BY <3>1, <3>3, ForgetFrame DEF AloneOf, Settled
    <3>4. CASE BeginLayer(c)
      <4>1. /\ known'[c] = recorded' /\ UNCHANGED <<tree, applied, brokenOff, env, recorded>>
            /\ \A l \in Label : job'[c][l] \in {job[c][l], "start"}
            /\ phase[c] = "plan"
        BY <3>4 DEF BeginLayer, TypeOK, diskVars, historyVars
      <4>2. \A l \in Label : job[c][l] \in {"none", "done"}
        BY <4>1 DEF LayersInv, LayersOf
      <4> QED
        BY <2>3, <3>1, <4>1, <4>2 DEF AloneInv, AloneOf, Settled, Delivered
    <3>5. CASE EndLayer(c) /\ ~Forget(c)
      <4>1. /\ LayerEnded(c) /\ \A l \in Label : job[c][l] # "failed"
            /\ \A l \in Label : job'[c][l] = IF job[c][l] = "none" THEN "none" ELSE "done"
            /\ UNCHANGED <<tree, applied, brokenOff, env>>
            /\ recorded' = IF Installed(c) \ known[c] = {} THEN recorded
                           ELSE known[c] \cup (Installed(c) \ known[c])
            /\ phase'[c] # "layer"
        BY <3>5 DEF EndLayer, TypeOK, historyVars, At, NextPhase
      <4>2. phase[c] = "layer" /\ known[c] = recorded
        BY <3>1, <4>1 DEF LayerEnded
      <4>3. recorded \subseteq recorded' /\ Installed(c) \subseteq recorded'
        BY <4>1, <4>2
      <4>4. ASSUME NEW l \in Label, job[c][l] # "none"
            PROVE  /\ Delivered(c, l) /\ applied[l] = env[c].settings + 1
                   /\ l \in recorded'
        <5>1. job[c][l] \in {"installed", "skipped", "done"}
          BY <4>1, <4>4 DEF LayerEnded, Ended
        <5>2. job[c][l] # "installed" => l \in recorded
          BY <2>3, <4>2, <5>1 DEF AloneInv, AloneOf
        <5> QED
          BY <2>3, <4>3, <5>1, <5>2 DEF AloneInv, AloneOf, Settled, Installed
      <4> QED
        BY <3>1, <4>1, <4>4 DEF AloneOf, Settled, Delivered
    <3>6. CASE (AfterLayers(c) \/ SaveConfig(c) \/ SyncBinaries(c)) /\ ~Forget(c)
      <4>1. /\ UNCHANGED <<tree, applied, brokenOff, env, known, recorded, job>>
            /\ phase'[c] # "layer"
        BY <3>6 DEF AfterLayers, SaveConfig, SyncBinaries, TypeOK, diskVars, historyVars, At
      <4> QED
        BY <2>3, <3>1, <4>1 DEF AloneInv, AloneOf, Delivered
    <3> QED
      BY <1>2, <3>2, <3>3, <3>4, <3>5, <3>6 DEF CommandStep, Kill
  <2> QED
    BY <2>1, <2>2, <2>3 DEF AloneInv, AloneOf
<1> QED
  BY <1>1, <1>2

LEMMA AloneStep == IInv /\ [Next]_vars => AloneInv'
<1> SUFFICES ASSUME IInv, [Next]_vars PROVE AloneInv'
  OBVIOUS
<1>1. CASE EditSettings \/ UNCHANGED vars
  <2>1. UNCHANGED <<tree, applied, recorded, commandVars, historyVars>>
    BY <1>1 DEF EditSettings, vars, diskVars
  <2> QED
    BY <2>1 DEF IInv, AloneInv, AloneOf, Delivered, Running, commandVars, historyVars
<1> QED
  BY <1>1, CommandAlone DEF Next, IInv

-----------------------------------------------------------------------------
(* The theorems about states. *)

LEMMA IInvHolds == Spec => []IInv
<1>1. Init => IInv
  BY InitTypeOK, InitLayersInv, InitDisk, InitAlone DEF IInv
<1>2. IInv /\ [Next]_vars => IInv'
  <2>1. IInv /\ [Next]_vars => TypeOK'
    BY CommandTypeOK, SettingsTypeOK, StutterTypeOK DEF Next, IInv
  <2> QED
    BY <2>1, LayersStep, DiskStep, AloneStep DEF IInv
<1> QED
  BY <1>1, <1>2, PTL DEF Spec

\* A torn directory is one being removed or one whose removal was cut off, and the config
\* never has rivals, whatever overlaps, fails or is killed (installToolFromCacheVersion,
\* environmentWithInstallRequest).
THEOREM DiskStaysConsistent == Spec => []DiskConsistent
<1>1. IInv => DiskConsistent
  BY DEF IInv
<1> QED
  BY <1>1, IInvHolds, PTL

\* An install that succeeds, and that no other one has overlapped, has installed, recorded
\* and configured all that was requested and all that it needs (Store.Install).
THEOREM InstallsCompletely == Spec => []InstallComplete
<1>1. IInv => InstallComplete
  <2> SUFFICES ASSUME IInv, NEW c \in Command, phase[c] = "ok", alone = c,
                      NEW l \in Requested(c)
               PROVE  /\ applied[l] = env[c].settings + 1
                      /\ l \in recorded
                      /\ Delivered(c, l)
    BY DEF InstallComplete, Delivered
  <2>1. l \in Label /\ job[c][l] = "done"
    BY DEF IInv, LayersInv, LayersOf, Requested, Requests
  <2> QED
    BY <2>1 DEF IInv, AloneInv, AloneOf, Settled
<1> QED
  BY <1>1, IInvHolds, PTL
=============================================================================
