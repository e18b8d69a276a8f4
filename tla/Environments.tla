----------------------------- MODULE Environments ------------------------------
(***************************************************************************)
(* The environments of a project (backend/store.go, configure_value.go):   *)
(* polka.yaml, the file of each named environment, the name of the active  *)
(* one, and the shims in .polka/bin, one for each command of its tools.    *)
(* polka init, config, use and remove, in the steps in which they read and *)
(* write these files: in place, and without a lock.                        *)
(***************************************************************************)
EXTENDS Naturals, FiniteSets

CONSTANTS Editor,     \* the commands that may run at one time
          Main,       \* the default environment, which polka.yaml holds
          Named,      \* the names of others
          Shim,       \* the commands of tools; an environment is the set of its commands
          NoName,     \* no name of an environment
          MaxChanges  \* bound: kills, and edits by hand

EnvironmentAssumption ==
  Main \notin Named /\ NoName \notin Named \cup {Main} /\ MaxChanges \in Nat

Name == Named \cup {Main}

VARIABLES
  files,    \* of each environment: its file, and the commands of the tools in it
  active,   \* the file that names the active environment
  shims,    \* those in .polka/bin
  editing,  \* of a command: its step, name, tools to write, active name and files it has read,
             \* and whether another command ran, or a user wrote a file, meanwhile
  changes,  \* kills and edits so far
  outcome,  \* "success" once a command has ended well and nothing has happened since
  lost      \* history: the active environment may have lost its file

environmentVars == <<files, active, shims, editing, changes, outcome, lost>>

\* "bad" is a file that cannot be decoded, or polka.yaml without a version.
NoFile == [form |-> "absent", tools |-> {}]
File(tools) == [form |-> "good", tools |-> tools]
BadFile == [form |-> "bad", tools |-> {}]
EmptyFile(n) == IF n = Main THEN BadFile ELSE File({})

NoEdit == [step |-> "idle", of |-> "none", name |-> NoName, tools |-> {}, seen |-> NoName,
           disturbed |-> FALSE, config |-> [n \in Name |-> NoFile]]

EnvironmentInit ==
  /\ files = [n \in Name |-> NoFile] /\ active = NoName /\ shims = {}
  /\ editing = [e \in Editor |-> NoEdit]
  /\ changes = 0 /\ outcome = "none" /\ lost = FALSE

In(e, label) == editing[e].step = label
Goes(e, label) == editing' = [editing EXCEPT ![e] = IF label = "idle" THEN NoEdit
                                                    ELSE [@ EXCEPT !.step = label]]
Disk == UNCHANGED <<files, active, shims>>
Quietly == UNCHANGED <<changes, outcome, lost>>
Fails(e) == Goes(e, "idle") /\ Disk /\ Quietly

\* readConfig: any file that is bad is an error; without polka.yaml there is a default
\* environment and no other.
Readable == files[Main].form = "absent" \/ \A n \in Name : files[n].form # "bad"
Loaded ==
  IF files[Main].form = "absent" THEN [n \in Name |-> IF n = Main THEN File({}) ELSE NoFile]
  ELSE files

\* readEnvironment: a bad polka.yaml spoils the named ones too.
CanRead(n) == files[Main].form # "bad" /\ files[n].form # "bad"
Exists(n) == n = Main \/ files[n].form # "absent"

-----------------------------------------------------------------------------
(* The commands begin. *)

Launch(e, command, n, label) ==
  /\ In(e, "idle")
  /\ LET others == {q \in Editor \ {e} : ~In(q, "idle")}
     IN  editing' = [q \in Editor |->
           IF q = e THEN [NoEdit EXCEPT !.step = label, !.of = command, !.name = n,
                                        !.disturbed = others # {}]
           ELSE IF q \in others THEN [editing[q] EXCEPT !.disturbed = TRUE] ELSE editing[q]]
  /\ outcome' = "none"
  /\ Disk /\ UNCHANGED <<changes, lost>>

\* Init, which Configure and ConfigureValue run first.
InitProject(e) == Launch(e, "init", Main, "init")
ConfigureEnvironment(e) == \E n \in Name : Launch(e, "config", n, "init")
UseEnvironment(e) == \E n \in Name : Launch(e, "use", n, "find")
RemoveEnvironment(e) == \E n \in Named : Launch(e, "remove", n, "find")

\* init: polka.yaml is written when there is none; then the shims.
WriteDefault(e) ==
  /\ In(e, "init")
  /\ \/ /\ files[Main].form = "absent"
        /\ files' = [files EXCEPT ![Main] = BadFile]
        /\ Goes(e, "default") /\ UNCHANGED <<active, shims>> /\ Quietly
     \/ /\ files[Main].form # "absent" /\ Readable
        /\ Goes(e, "load") /\ Disk /\ Quietly
     \/ files[Main].form # "absent" /\ ~Readable /\ Fails(e)

DefaultWritten(e) ==
  /\ In(e, "default")
  /\ files' = [files EXCEPT ![Main] = File({})]
  /\ Goes(e, "load")
  /\ UNCHANGED <<active, shims>> /\ Quietly

-----------------------------------------------------------------------------
(* writeEnvironment and ConfigureValue. *)

\* The environment is read and changed, and validated as a whole.
ChangeEnvironment(e) ==
  /\ In(e, "change")
  /\ \/ /\ CanRead(editing[e].name)
        /\ \E tools \in SUBSET Shim :
              editing' = [editing EXCEPT ![e].step = "truncate", ![e].tools = tools]
        /\ Disk /\ Quietly
     \/ Fails(e)

\* writeYAML, in place.
TruncateFile(e) ==
  /\ In(e, "truncate")
  /\ LET n == editing[e].name
     IN  \/ /\ files[Main].form # "bad"
            /\ files' = [files EXCEPT ![n] = EmptyFile(n)] /\ Goes(e, "write")
            /\ UNCHANGED <<active, shims>> /\ Quietly
         \/ ~CanRead(n) /\ Fails(e)

WriteFile(e) ==
  /\ In(e, "write")
  /\ files' = [files EXCEPT ![editing[e].name] = File(editing[e].tools)]
  /\ Goes(e, "load")
  /\ UNCHANGED <<active, shims>> /\ Quietly

-----------------------------------------------------------------------------
(* Use and Remove. *)

FindEnvironment(e) ==
  /\ In(e, "find")
  /\ LET n == editing[e].name
     IN  \/ /\ CanRead(n) /\ Exists(n)
            /\ editing' = [editing EXCEPT ![e].step = editing[e].of, ![e].seen = active]
            /\ Disk /\ Quietly
         \/ ~(CanRead(n) /\ Exists(n)) /\ Fails(e)

\* The default environment is the one that no file names.
Select(e) ==
  /\ In(e, "use")
  /\ active' = IF editing[e].name = Main THEN NoName ELSE editing[e].name
  /\ Goes(e, "load")
  /\ lost' = (active' # NoName /\ files[active'].form = "absent")
  /\ UNCHANGED <<files, shims, changes, outcome>>

RemoveFile(e) ==
  /\ In(e, "remove")
  /\ files' = [files EXCEPT ![editing[e].name] = NoFile]
  /\ Goes(e, IF editing[e].seen = editing[e].name THEN "clear" ELSE "load")
  /\ lost' = (lost \/ (active = editing[e].name /\ editing[e].seen # active))
  /\ UNCHANGED <<active, shims, changes, outcome>>

Deselect(e) ==
  /\ In(e, "clear")
  /\ active' = NoName /\ lost' = FALSE
  /\ Goes(e, "load")
  /\ UNCHANGED <<files, shims, changes, outcome>>

-----------------------------------------------------------------------------
(* Every command ends with loadConfig and syncManagedBinaries. *)

LoadConfig(e) ==
  /\ In(e, "load")
  /\ \/ /\ Readable
        /\ editing' = [editing EXCEPT ![e].step = "unlink", ![e].config = Loaded]
        /\ Disk /\ Quietly
     \/ ~Readable /\ Fails(e)

\* The shims of every command that any tool has.
KeepShims(e) == In(e, "unlink") /\ Goes(e, "choose") /\ Disk /\ Quietly
RemoveShims(e) ==
  /\ In(e, "unlink")
  /\ shims' = {} /\ Goes(e, "choose")
  /\ UNCHANGED <<files, active>> /\ Quietly

\* activeEnvironmentFromConfig: of an environment that the config does not have there are
\* no shims.
ChooseShims(e) ==
  /\ In(e, "choose")
  /\ LET n == IF active = NoName THEN Main ELSE active
     IN  editing' = [editing EXCEPT ![e].step = "shims", ![e].tools = editing[e].config[n].tools,
                                    ![e].config = NoEdit.config]
  /\ Disk /\ Quietly

\* config goes on after the init that it began with.
WriteShims(e) ==
  /\ In(e, "shims")
  /\ shims' = shims \cup editing[e].tools
  /\ IF editing[e].of = "config"
     THEN /\ editing' = [editing EXCEPT ![e].step = "change", ![e].of = "configured",
                                        ![e].tools = {}]
          /\ UNCHANGED outcome
     ELSE /\ Goes(e, "idle")
          /\ outcome' = IF editing[e].disturbed THEN "none" ELSE "success"
  /\ UNCHANGED <<files, active, changes, lost>>

-----------------------------------------------------------------------------
(* What happens to them. *)

Change == changes < MaxChanges /\ changes' = changes + 1

KillEditor(e) ==
  /\ ~In(e, "idle") /\ Change
  /\ Goes(e, "idle")
  /\ lost' = (lost \/ (In(e, "clear") /\ active = editing[e].name))
  /\ Disk /\ UNCHANGED outcome

\* A user writes or deletes a file.
EditFile ==
  /\ Change
  /\ \E n \in Name, file \in {NoFile, BadFile} \cup {File(tools) : tools \in SUBSET Shim} :
        /\ file # files[n] /\ files' = [files EXCEPT ![n] = file]
        /\ lost' = (lost \/ file = NoFile)
  /\ outcome' = "none"
  /\ editing' = [e \in Editor |-> IF In(e, "idle") THEN NoEdit
                                  ELSE [editing[e] EXCEPT !.disturbed = TRUE]]
  /\ UNCHANGED <<active, shims>>

EnvironmentNext ==
  \/ EditFile
  \/ \E e \in Editor :
        \/ InitProject(e) \/ ConfigureEnvironment(e) \/ UseEnvironment(e) \/ RemoveEnvironment(e)
        \/ WriteDefault(e) \/ DefaultWritten(e)
        \/ ChangeEnvironment(e) \/ TruncateFile(e) \/ WriteFile(e)
        \/ FindEnvironment(e) \/ Select(e) \/ RemoveFile(e) \/ Deselect(e)
        \/ LoadConfig(e) \/ RemoveShims(e) \/ ChooseShims(e) \/ WriteShims(e)
        \/ KillEditor(e)

EnvironmentSpec == EnvironmentInit /\ [][EnvironmentNext]_environmentVars

-----------------------------------------------------------------------------
(* Correctness. *)

\* The types.
EnvironmentTypeOK ==
  /\ files \in [Name -> [form : {"absent", "good", "bad"}, tools : SUBSET Shim]]
  /\ active \in Named \cup {NoName} /\ shims \subseteq Shim
  /\ changes \in 0..MaxChanges /\ outcome \in {"none", "success"}
  /\ \A e \in Editor : editing[e].tools \subseteq Shim
  /\ lost \in BOOLEAN

\* A command that ends well leaves the shims of the active environment and no others, and
\* an active environment that exists: whatever commands before it were killed or failed,
\* unless a user has removed its file, a kill came between the removal of the file and that
\* of the name, or another command chose it meanwhile (syncManagedBinaries, Use, Remove).
ShimsOfTheActive ==
  outcome = "success" =>
    LET n == IF active = NoName THEN Main ELSE active
    IN  /\ shims = Loaded[n].tools
        /\ lost \/ Exists(n)
=============================================================================
