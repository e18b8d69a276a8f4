--------------------------- MODULE ProjectInstall ---------------------------
(***************************************************************************)
(* polka install and polka install tool:version in one project             *)
(* (backend/store.go: install, InstallToolWithOptions, installRequestLayer,*)
(* installToolFromCacheVersion; backend/state.go).  A command plans the    *)
(* requested labels and what they need in layers, installs the tools of a  *)
(* layer in parallel, records them in installed.json, and an explicit      *)
(* install writes the config at its end.  Commands are processes: several  *)
(* may run in one project, and each may be killed.  Nothing in the project *)
(* is locked.                                                              *)
(*                                                                         *)
(* A label is one version of one tool.  The rest of the config is one      *)
(* number, the settings that post-install hooks write into the tool.       *)
(***************************************************************************)
EXTENDS Naturals, FiniteSets

CONSTANTS Command,       \* processes that run polka commands
          Label,         \* versions of tools
          Needs,         \* Needs[l]: what l's Dependencies requests
          Rivals,        \* Rivals[l]: other versions of l's tool or of a tool
                         \* that l's is mutually exclusive with
          Internal,      \* labels of internal-only tools
          Flavored,      \* labels of php-devel
          ThreadSafe,    \* labels of php-zts
          NoLabel,       \* no explicit tool:version
          NoCommand,
          MaxCommands,   \* bound: commands started
          MaxSettings    \* bound: edits of the settings

\* What is at an install directory: nothing, some generated files only, a part of a
\* payload, or the whole payload of a cache entry.
Payload == {"plain", "nts", "zts"}
Tree    == {"none", "generated", "torn"} \cup Payload

Whole(t)      == t \in Payload
MayResolve(t) == Whole(t) \/ t = "torn"

\* InstallRequestLayers' visit: the roots and everything they need.
Closed(labels) == \A l \in labels : Needs[l] \subseteq labels

Requests(roots) ==
  {l \in Label : \A S \in SUBSET Label : roots \subseteq S /\ Closed(S) => l \in S}

\* installCacheVersion: the cache entry that the label is installed from.
CacheEntry(l, labels) ==
  IF l \notin Flavored THEN "plain"
  ELSE IF labels \cap ThreadSafe # {} THEN "zts" ELSE "nts"

ASSUME InstallAssumption ==
  /\ IsFiniteSet(Label) /\ NoLabel \notin Label /\ NoCommand \notin Command
  /\ Needs \in [Label -> SUBSET Label]
  /\ \A l \in Label : l \notin Requests(Needs[l])
  /\ Rivals \in [Label -> SUBSET Label]
  /\ \A l, m \in Label : m \in Rivals[l] => l \in Rivals[m] /\ l # m
  /\ Internal \subseteq Label /\ Flavored \subseteq Label /\ ThreadSafe \subseteq Label
  /\ MaxCommands \in Nat /\ MaxSettings \in Nat

\* ValidateEnvironment and the plan's check for one version of each tool.
Consistent(labels) == \A l, m \in labels : m \notin Rivals[l]

Environment == [labels : SUBSET (Label \ Internal), settings : 0 .. MaxSettings]
Idle == [labels |-> {}, settings |-> 0]

VARIABLES
  config,     \* the environment's config file
  tree,       \* tree[l]: what is in .polka/envs/<tool>/<version>
  applied,    \* applied[l]: settings of the hooks run on this tree, plus 1; or 0
  recorded,   \* installed.json
  phase,      \* phase[c]: where a command is
  explicit,   \* explicit[c]: the tool:version argument
  force,      \* force[c]
  env,        \* env[c]: the environment the command works with
  remaining,  \* remaining[c]: requests of the layers that have not begun
  known,      \* known[c]: the install state read for this layer
  job,        \* job[c][l]: where the goroutine of a request is
  started,    \* commands so far
  alone,      \* history: the command that no other one has overlapped
  brokenOff   \* history: trees whose removal was not completed

diskVars    == <<config, tree, applied, recorded>>
commandVars == <<phase, explicit, force, env, remaining, known, job>>
historyVars == <<started, alone, brokenOff>>
vars == <<diskVars, commandVars, historyVars>>

Phase == {"idle", "plan", "layer", "after", "save", "sync", "ok"}
Job   == {"none", "start", "fetch", "clearing", "move",
          "hook", "reapply", "installed", "skipped", "failed", "done"}
Ended == {"installed", "skipped", "failed"}

TypeOK ==
  /\ config \in Environment
  /\ tree \in [Label -> Tree]
  /\ applied \in [Label -> 0 .. MaxSettings + 1]
  /\ recorded \subseteq Label
  /\ phase \in [Command -> Phase]
  /\ explicit \in [Command -> Label \cup {NoLabel}]
  /\ force \in [Command -> BOOLEAN]
  /\ env \in [Command -> Environment]
  /\ remaining \in [Command -> SUBSET Label]
  /\ known \in [Command -> SUBSET Label]
  /\ job \in [Command -> [Label -> Job]]
  /\ started \in 0 .. MaxCommands
  /\ alone \in Command \cup {NoCommand}
  /\ brokenOff \subseteq Label

NoJobs == [l \in Label |-> "none"]

Init ==
  /\ config \in [labels : {S \in SUBSET (Label \ Internal) : Consistent(S)},
                 settings : {0}]
  /\ tree = [l \in Label |-> "none"]
  /\ applied = [l \in Label |-> 0]
  /\ recorded = {}
  /\ phase = [c \in Command |-> "idle"]
  /\ explicit = [c \in Command |-> NoLabel]
  /\ force = [c \in Command |-> FALSE]
  /\ env = [c \in Command |-> Idle]
  /\ remaining = [c \in Command |-> {}]
  /\ known = [c \in Command |-> {}]
  /\ job = [c \in Command |-> NoJobs]
  /\ started = 0 /\ alone = NoCommand /\ brokenOff = {}

Running(c) == phase[c] \notin {"idle", "ok"}
At(c, p) == phase' = [phase EXCEPT ![c] = p]

\* The command is over, with an error unless its phase is "ok"; its locals are gone.
Forget(c) ==
  /\ At(c, "idle")
  /\ explicit' = [explicit EXCEPT ![c] = NoLabel]
  /\ force' = [force EXCEPT ![c] = FALSE]
  /\ env' = [env EXCEPT ![c] = Idle]
  /\ remaining' = [remaining EXCEPT ![c] = {}]
  /\ known' = [known EXCEPT ![c] = {}]
  /\ job' = [job EXCEPT ![c] = NoJobs]

-----------------------------------------------------------------------------
(* Planning. *)

\* environmentWithInstallRequest.
WithRequest(labels, l) == (labels \ Rivals[l]) \cup {l}

\* A command reads the config and makes its plan.
Start(c, l, forced, environment, roots) ==
  /\ ~Running(c) /\ started < MaxCommands
  /\ Consistent(Requests(roots))
  /\ At(c, "plan")
  /\ explicit' = [explicit EXCEPT ![c] = l]
  /\ force' = [force EXCEPT ![c] = forced]
  /\ env' = [env EXCEPT ![c] = environment]
  /\ remaining' = [remaining EXCEPT ![c] = Requests(roots)]
  /\ known' = [known EXCEPT ![c] = {}]
  /\ job' = [job EXCEPT ![c] = NoJobs]
  /\ started' = started + 1
  /\ alone' = IF \E d \in Command \ {c} : Running(d) THEN NoCommand ELSE c
  /\ UNCHANGED <<diskVars, brokenOff>>

\* polka install: everything in the config.
StartInstall(c) ==
  /\ config.labels # {}
  /\ \E forced \in BOOLEAN : Start(c, NoLabel, forced, config, config.labels)

\* normalizeInstallRequest.
AnyTool == Label
Requestable == Label \ Internal

\* polka install tool:version: always forced.
StartInstallTool(c) ==
  \E l \in Requestable :
     Start(c, l, TRUE, [config EXCEPT !.labels = WithRequest(@, l)], {l})

\* One iteration of InstallRequestLayers' loop, and the start of
\* installRequestLayer, which reads the state once for all its goroutines.
Everything(c) == remaining[c]
Ready(c) == {l \in remaining[c] : Needs[l] \cap remaining[c] = {}}

BeginLayer(c) ==
  /\ phase[c] = "plan" /\ remaining[c] # {}
  /\ At(c, "layer")
  /\ known' = [known EXCEPT ![c] = recorded]
  /\ job' = [job EXCEPT ![c] = [l \in Label |-> IF l \in Ready(c) THEN "start" ELSE @[l]]]
  /\ remaining' = [remaining EXCEPT ![c] = @ \ Ready(c)]
  /\ UNCHANGED <<diskVars, explicit, force, env, historyVars>>

-----------------------------------------------------------------------------
(* The goroutine of one request. *)

JobStep(c, l, from, to) ==
  /\ job[c][l] = from
  /\ job' = [job EXCEPT ![c][l] = to]
  /\ UNCHANGED <<config, recorded, phase, explicit, force, env, remaining, known,
                 started, alone>>

\* resolveInstalledTool looks for the executable only.
SkipFlavored(c, l) == ~force[c] /\ l \in known[c] /\ MayResolve(tree[l])
MaySkip(c, l) == SkipFlavored(c, l) /\ l \notin Flavored

Check(c, l) ==
  /\ \/ MaySkip(c, l) /\ JobStep(c, l, "start", "reapply")
     \/ ~(MaySkip(c, l) /\ Whole(tree[l])) /\ JobStep(c, l, "start", "fetch")
  /\ UNCHANGED <<tree, applied, brokenOff>>

\* ensureCachedTool, the extraction into a staging directory of its own, and the start
\* of os.RemoveAll of the install directory, which is not atomic; each may fail.
FetchInPlace(c, l) ==
  /\ JobStep(c, l, "fetch", "clearing") \/ JobStep(c, l, "fetch", "failed")
  /\ tree' = [tree EXCEPT ![l] = "torn"]
  /\ UNCHANGED <<applied, brokenOff>>

Fetch(c, l) ==
  /\ \/ /\ JobStep(c, l, "fetch", "clearing")
        /\ tree' = [tree EXCEPT ![l] = IF Whole(@) THEN "torn" ELSE @]
     \/ JobStep(c, l, "fetch", "failed") /\ UNCHANGED tree
  /\ UNCHANGED <<applied, brokenOff>>

\* The end of os.RemoveAll.
ClearTree(c, l) ==
  /\ \/ /\ JobStep(c, l, "clearing", "move")
        /\ tree' = [tree EXCEPT ![l] = "none"]
        /\ UNCHANGED brokenOff
     \/ /\ JobStep(c, l, "clearing", "failed")
        /\ \/ UNCHANGED tree
           \/ Whole(tree[l]) /\ tree' = [tree EXCEPT ![l] = "torn"]
        /\ brokenOff' = brokenOff \cup {l}
  /\ UNCHANGED applied

\* os.Rename of the staging directory, which needs the name to be free, and
\* resolveInstalledTool, which may miss the executable.
MoveTree(c, l) ==
  /\ \/ /\ tree[l] = "none"
        /\ tree' = [tree EXCEPT ![l] = CacheEntry(l, env[c].labels)]
        /\ applied' = [applied EXCEPT ![l] = 0]
        /\ JobStep(c, l, "move", "hook") \/ JobStep(c, l, "move", "failed")
     \/ JobStep(c, l, "move", "failed") /\ UNCHANGED <<tree, applied>>
  /\ UNCHANGED brokenOff

\* PostInstall writes the settings into the tree, whoever installed it.  It creates
\* the directories it needs.
Generate(l) == tree' = [tree EXCEPT ![l] = IF @ = "none" THEN "generated" ELSE @]

PostInstall(c, l) ==
  /\ \/ /\ \/ JobStep(c, l, "hook", "installed")
           \/ JobStep(c, l, "reapply", "skipped")
        /\ applied' = [applied EXCEPT ![l] = env[c].settings + 1]
        /\ Generate(l) \/ UNCHANGED tree
     \/ /\ JobStep(c, l, "hook", "failed") \/ JobStep(c, l, "reapply", "failed")
        /\ Generate(l) \/ UNCHANGED tree
        /\ UNCHANGED applied
  /\ UNCHANGED brokenOff

Goroutine(c, l) ==
  \/ Check(c, l)
  \/ Fetch(c, l)
  \/ ClearTree(c, l)
  \/ MoveTree(c, l)
  \/ PostInstall(c, l)
-----------------------------------------------------------------------------
(* The rest of a command. *)

LayerEnded(c) == phase[c] = "layer" /\ \A l \in Label : job[c][l] \in Ended \cup {"none", "done"}

\* The tools that installRequestLayer records.
Installed(c) == {l \in Label : job[c][l] = "installed"}

\* installRequests' loop over the layers.
NextPhase(c) == IF remaining[c] = {} THEN "after" ELSE "plan"

\* group.Wait; every tool installed by this layer is recorded, even if another one
\* failed, and then an error ends the command.
EndLayer(c) ==
  /\ LayerEnded(c)
  /\ LET new   == Installed(c) \ known[c]
         saved == recorded' = IF new = {} THEN recorded ELSE known[c] \cup new
         lost  == new # {} /\ UNCHANGED recorded
     IN  \/ saved /\ (\A l \in Label : job[c][l] # "failed")
            /\ At(c, NextPhase(c))
            /\ job' = [job EXCEPT ![c] = [l \in Label |->
                                            IF @[l] = "none" THEN "none" ELSE "done"]]
            /\ known' = [known EXCEPT ![c] = {}]
            /\ UNCHANGED <<explicit, force, env, remaining>>
         \/ saved /\ (\E l \in Label : job[c][l] = "failed") /\ Forget(c)
         \/ lost /\ Forget(c)
  /\ UNCHANGED <<config, tree, applied, historyVars>>

\* PHP extensions and php.ini may fail.  An explicit install then writes the config
\* it has worked with: os.WriteFile first empties the file, and the empty file of a
\* named environment is an empty environment.
AfterLayers(c) ==
  /\ phase[c] = "after"
  /\ \/ Forget(c) /\ UNCHANGED config
     \/ /\ explicit[c] = NoLabel /\ At(c, "ok")
        /\ UNCHANGED <<config, explicit, force, env, remaining, known, job>>
     \/ /\ explicit[c] # NoLabel /\ At(c, "save")
        /\ config' = Idle
        /\ UNCHANGED <<explicit, force, env, remaining, known, job>>
  /\ UNCHANGED <<tree, applied, recorded, historyVars>>

SaveConfig(c) ==
  /\ phase[c] = "save"
  /\ config' = env[c]
  /\ At(c, "sync")
  /\ UNCHANGED <<tree, applied, recorded, explicit, force, env, remaining, known, job,
                 historyVars>>

\* syncManagedBinaries may fail.
SyncBinaries(c) ==
  /\ phase[c] = "sync"
  /\ \/ Forget(c)
     \/ At(c, "ok") /\ UNCHANGED <<explicit, force, env, remaining, known, job>>
  /\ UNCHANGED <<diskVars, historyVars>>

\* The process is killed.
Kill(c) ==
  /\ Running(c)
  /\ Forget(c)
  /\ brokenOff' = brokenOff \cup {l \in Label : job[c][l] = "clearing"}
  /\ UNCHANGED <<diskVars, started, alone>>

\* The user edits the settings.
EditSettings ==
  /\ config.settings < MaxSettings
  /\ config' = [config EXCEPT !.settings = @ + 1]
  /\ UNCHANGED <<tree, applied, recorded, commandVars, historyVars>>

CommandStep(c) ==
  \/ StartInstall(c)
  \/ StartInstallTool(c)
  \/ BeginLayer(c)
  \/ \E l \in Label : Goroutine(c, l)
  \/ EndLayer(c)
  \/ AfterLayers(c)
  \/ SaveConfig(c)
  \/ SyncBinaries(c)
  \/ Kill(c)

Next == EditSettings \/ \E c \in Command : CommandStep(c)

Spec == Init /\ [][Next]_vars

-----------------------------------------------------------------------------
(* Properties. *)

Requested(c) ==
  Requests(IF explicit[c] = NoLabel THEN env[c].labels ELSE {explicit[c]})

\* What an install that succeeds promises, if no other one ran at the same time:
\* every tool asked for, and what it needs, resolves, has the hooks applied with the
\* settings of the config, is recorded, and comes from the cache entry of this
\* environment's PHP flavor, unless its earlier removal was interrupted.
InstallComplete ==
  \A c \in Command : phase[c] = "ok" /\ alone = c =>
     \A l \in Requested(c) :
        /\ applied[l] = env[c].settings + 1
        /\ l \in recorded
        /\ \/ tree[l] = CacheEntry(l, env[c].labels)
           \/ tree[l] = "torn" /\ l \in brokenOff

\* No goroutine starts before what its tool needs has been installed and recorded or
\* skipped by the same command (InstallRequestLayers).
DependenciesFirst ==
  \A c \in Command : \A l \in Label :
    job[c][l] = "start" /\ job'[c][l] \in {"fetch", "reapply"} =>
       \A m \in Needs[l] : job[c][m] = "done"

\* Nothing gets into installed.json but what a goroutine has just installed, hooks
\* included, or what the command found there, whatever else runs or fails.
RecordsOnlyInstalled ==
  \A l \in recorded' \ recorded :
    \E c \in Command : job[c][l] = "installed" \/ l \in known[c]

\* "a failed download or install leaves the previous configuration untouched": only
\* an install whose requests have all succeeded, or the user, changes the config.
ConfigOnlyAfterInstall ==
  config' # config /\ phase' # phase =>
    \E c \in Command : /\ explicit[c] # NoLabel
                       /\ \A l \in Requested(c) : job[c][l] = "done"

\* What depends on an install comes after it, whatever overlaps or fails: the tools that
\* need it, its record, and the config that names it (installRequests, InstallTool).
InstalledFirst ==
  [][DependenciesFirst /\ RecordsOnlyInstalled /\ ConfigOnlyAfterInstall]_vars

\* Even with commands that overlap, a directory with a part of a payload, which an
\* executable may resolve in, is one being removed or one whose removal was cut off; and
\* explicit installs of exclusive tools never leave both in the config.
DiskConsistent ==
  /\ \A l \in Label : tree[l] = "torn" =>
       l \in brokenOff \/ \E c \in Command : job[c][l] = "clearing"
  /\ Consistent(config.labels)

\* installState "records which tool versions have been fully installed (payload
\* extracted and post-install hooks completed)".
RecordedIsInstalled ==
  (\A c \in Command : ~Running(c)) =>
     \A l \in recorded : Whole(tree[l]) /\ applied[l] > 0
=============================================================================
