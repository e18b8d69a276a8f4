---------------------------- MODULE ManagedDatabase ----------------------------
(***************************************************************************)
(* The data of an environment's database (service/database.go): the        *)
(* credentials, the data directory that a start resolves, its              *)
(* initialization and the creation of the application's database.  How a   *)
(* server is found, launched and recorded is ManagedServer; here it        *)
(* answers as soon as it runs, and it runs only on data of its own.        *)
(*                                                                         *)
(* A data directory is data/db/<environment>/<engine>/<version>.  Earlier  *)
(* versions of polka used data/db/<environment>, its parent: Legacy.       *)
(***************************************************************************)
EXTENDS Naturals, FiniteSets

CONSTANTS Operator,     \* the commands that may run at one time
          Target,       \* engine and version: what the config may ask for
          Legacy,       \* the directory of earlier versions
          Nothing,      \* no target, no server
          MaxSwitches,  \* bound: edits of the engine or version
          MaxPasswords  \* bound: passwords generated

IsPostgres(t) == t.engine = "postgresql"

DatabaseAssumption ==
  /\ IsFiniteSet(Target) /\ \A t \in Target : t.engine \in {"mysql", "mariadb", "postgresql"}
  /\ Legacy \notin Target /\ Nothing \notin Target \cup Operator
  /\ MaxSwitches \in Nat /\ MaxPasswords \in Nat

Place == Target \cup {Legacy}
Family == {"postgresql", "mysql"}
FamilyOf(t) == IF IsPostgres(t) THEN "postgresql" ELSE "mysql"

VARIABLES
  target,    \* the config's engine and version
  switches,  \* edits of it so far
  secret,    \* the password in the credentials file; 0 without one
  torn,      \* that file is cut short
  drawn,     \* passwords generated so far
  asset,     \* the password in the files that servers and clients read
  disk,      \* the data directories
  server,    \* the server that runs: its directory and its target
  record,    \* the state file: "absent", "dead" or "live"
  doing,     \* of a command: its step, its target, its directory, its password
  mishap     \* history: "none"; a command was "cut" short, by a kill or an error while it
             \* wrote the marker; or two commands have "met"

databaseVars == <<target, switches, secret, torn, drawn, asset, disk, server, record, doing, mishap>>

\* A directory: what it has the data of; no directory, an empty one, files that name
\* nothing yet, files that look like a database, a database; who initializes it; the
\* marker .polka-bootstrap; the application's database; the password.
NoDirectory == [of |-> Nothing, form |-> "absent", by |-> Nothing, pending |-> FALSE,
                created |-> FALSE, password |-> 0]
EmptyDirectory == [NoDirectory EXCEPT !.form = "empty"]
Ready(t, created, password) ==
  [of |-> t, form |-> "ready", by |-> Nothing, pending |-> FALSE,
   created |-> created, password |-> password]

Unoccupied == [step |-> "idle", target |-> Nothing, place |-> Nothing, password |-> 0]
Busy(o) == doing[o].step # "idle"

\* Nothing yet, or the data and the credentials of an earlier version.
DatabaseInit ==
  /\ target \in Target /\ switches = 0
  /\ \/ /\ disk = [p \in Place |-> NoDirectory]
        /\ secret = 0 /\ drawn = 0
     \/ \E t \in Target :
           /\ disk = [p \in Place |-> IF p = Legacy THEN Ready(t, TRUE, 1) ELSE NoDirectory]
           /\ secret = 1 /\ drawn = 1
  /\ torn = FALSE
  /\ asset = [f \in Family |-> secret]
  /\ server = Nothing /\ record = "absent"
  /\ doing = [o \in Operator |-> Unoccupied]
  /\ mishap = "none"

Goto(o, label) == doing' = [doing EXCEPT ![o] = IF label = "idle" THEN Unoccupied
                                                ELSE [@ EXCEPT !.step = label]]
At(o, label) == doing[o].step = label

Config == UNCHANGED <<target, switches, mishap>>
Secrets == UNCHANGED <<secret, torn, drawn, asset>>
Runtime == UNCHANGED <<server, record>>
CutShort == mishap' = IF mishap = "met" THEN "met" ELSE "cut"

-----------------------------------------------------------------------------
(* What a directory looks like. *)

Filled(p) == disk[p].form \notin {"absent", "empty"}
Recognized(p) == disk[p].form \in {"recognizable", "ready"}

\* databaseDataInitialized: it has entries.  The directories of the engines are entries
\* of the legacy directory.
HasEntries(p) == Filled(p) \/ (p = Legacy /\ \E t \in Target : disk[t].form # "absent")

\* detectDatabaseDataLayout.
Layout(p) == IF Recognized(p) THEN disk[p].of.engine ELSE "unknown"

\* ResolveDatabaseDataPath.
DataPath(t) ==
  IF HasEntries(t) \/ ~HasEntries(Legacy) \/ Layout(Legacy) \notin {"unknown", t.engine}
  THEN t ELSE Legacy

\* DatabaseServerInitialized: a PG_VERSION, or a directory "mysql" with entries, which
\* below the legacy directory may be that of the engine of this name.
LooksInitialized(p, t) ==
  /\ HasEntries(p)
  /\ IF IsPostgres(t)
     THEN Recognized(p) /\ IsPostgres(disk[p].of)
     ELSE \/ Recognized(p) /\ ~IsPostgres(disk[p].of)
          \/ p = Legacy /\ \E u \in Target : u.engine = "mysql" /\ disk[u].form # "absent"

\* A server runs on a database of its engine; PostgreSQL's of its version.
Serves(t, p) ==
  /\ disk[p].form = "ready"
  /\ IF IsPostgres(t) THEN disk[p].of = t ELSE disk[p].of.engine = t.engine

-----------------------------------------------------------------------------
(* polka start: EnsureManagedDatabaseStarted. *)

Begin(o, label) ==
  /\ ~Busy(o)
  /\ doing' = [doing EXCEPT ![o] = [Unoccupied EXCEPT !.step = label, !.target = target]]
  /\ mishap' = IF \E q \in Operator \ {o} : Busy(q) THEN "met" ELSE mishap
  /\ UNCHANGED <<target, switches, disk>>
  /\ Secrets /\ Runtime

Start(o) == Begin(o, "look")
Stop(o) == Begin(o, "find")

\* The record of a dead server is removed; one of another engine or version is an error.
LookForServer(o) ==
  /\ At(o, "look")
  /\ \/ /\ record = "live"
        /\ Goto(o, "idle") /\ UNCHANGED record
     \/ record # "live" /\ Goto(o, "credentials") /\ record' = "absent"
  /\ UNCHANGED <<disk, server>>
  /\ Config /\ Secrets

\* EnsureManagedDatabaseCredentialAssets: the password in the file is kept, and a new one
\* drawn when there is no file; a file that cannot be decoded is an error.
ReadCredentials(o) ==
  /\ At(o, "credentials")
  /\ \/ torn /\ Goto(o, "idle") /\ UNCHANGED drawn
     \/ /\ ~torn
        /\ secret = 0 => drawn < MaxPasswords
        /\ drawn' = IF secret = 0 THEN drawn + 1 ELSE drawn
        /\ doing' = [doing EXCEPT ![o].step = "secret",
                                  ![o].password = IF secret = 0 THEN drawn' ELSE secret]
  /\ UNCHANGED <<secret, torn, asset, disk>>
  /\ Config /\ Runtime

\* The file is truncated, and written.
TruncateCredentials(o) ==
  /\ At(o, "secret")
  /\ torn' = TRUE /\ Goto(o, "write")
  /\ UNCHANGED <<secret, drawn, asset, disk>>
  /\ Config /\ Runtime

WriteCredentials(o) ==
  /\ At(o, "write")
  /\ \/ secret' = doing[o].password /\ torn' = FALSE /\ Goto(o, "assets")
     \/ UNCHANGED <<secret, torn>> /\ Goto(o, "idle")
  /\ UNCHANGED <<drawn, asset, disk>>
  /\ Config /\ Runtime

\* The password and pgpass files of PostgreSQL; the defaults and bootstrap files of the others.
WriteAssets(o) ==
  /\ At(o, "assets")
  /\ asset' = [asset EXCEPT ![FamilyOf(doing[o].target)] = doing[o].password]
  /\ Goto(o, "resolve")
  /\ UNCHANGED <<secret, torn, drawn, disk>>
  /\ Config /\ Runtime

\* The directory is resolved; then the server's programs are, and one may be missing.
ResolveDataPath(o) ==
  /\ At(o, "resolve")
  /\ doing' = [doing EXCEPT ![o].step = "check", ![o].place = DataPath(doing[o].target)]
  /\ UNCHANGED disk
  /\ Config /\ Secrets /\ Runtime

ProgramMissing(o) ==
  /\ At(o, "resolve")
  /\ Goto(o, "idle")
  /\ UNCHANGED disk
  /\ Config /\ Secrets /\ Runtime

\* InitializeDatabaseServer.
CheckInitialized(o) ==
  /\ At(o, "check")
  /\ LET p == doing[o].place
     IN  \/ LooksInitialized(p, doing[o].target) /\ Goto(o, "launch")
         \/ ~LooksInitialized(p, doing[o].target) /\ HasEntries(p) /\ Goto(o, "reset")
         \/ ~HasEntries(p) /\ Goto(o, "create")
  /\ UNCHANGED disk
  /\ Config /\ Secrets /\ Runtime

\* resetDatabaseDataDir: every entry is removed, and whatever is below it.
ResetDataDir(o) ==
  /\ At(o, "reset")
  /\ LET p == doing[o].place
     IN  disk' = [q \in Place |-> IF q = p THEN EmptyDirectory
                                  ELSE IF p = Legacy THEN NoDirectory ELSE disk[q]]
  /\ Goto(o, "create")
  /\ Config /\ Secrets /\ Runtime

\* Another command may have filled the directory meanwhile.
CreateDataDir(o) ==
  /\ At(o, "create")
  /\ LET p == doing[o].place
     IN  disk' = [disk EXCEPT ![p] = IF @.form = "absent" THEN EmptyDirectory ELSE @]
  /\ Goto(o, "run")
  /\ Config /\ Secrets /\ Runtime

\* initdb, mysqld --initialize or mariadb-install-db, as it fills the directory: it
\* refuses one with entries, and the password is the one in the file by then.
RunInitializer(o) ==
  /\ At(o, "run")
  /\ LET p == doing[o].place
         t == doing[o].target
         d == disk[p]
     IN  \/ /\ ~HasEntries(p) /\ d.form = "empty"
            /\ disk' = [disk EXCEPT ![p] = [EmptyDirectory EXCEPT !.of = t, !.form = "unknown",
                                                                  !.by = o]]
            /\ UNCHANGED doing
         \/ /\ d.form = "unknown" /\ d.by = o
            /\ disk' = [disk EXCEPT ![p].form = "recognizable"]
            /\ UNCHANGED doing
         \/ /\ d.form = "recognizable" /\ d.by = o
            /\ disk' = [disk EXCEPT ![p] = Ready(t, FALSE, asset[FamilyOf(t)])]
            /\ Goto(o, IF IsPostgres(t) THEN "mark" ELSE "launch")
         \/ /\ d.by # o => HasEntries(p) \/ d.form = "absent"
            /\ UNCHANGED disk
            /\ Goto(o, "idle")
  /\ Config /\ Secrets /\ Runtime

\* An initializer that fails by itself clears what it wrote (initdb), or leaves it.
InitializerFails(o) ==
  /\ At(o, "run")
  /\ LET p == doing[o].place
     IN  /\ disk[p].by = o
         /\ disk' = [disk EXCEPT ![p] = IF IsPostgres(@.of) THEN EmptyDirectory
                                        ELSE [@ EXCEPT !.by = Nothing]]
  /\ Goto(o, "idle")
  /\ Config /\ Secrets /\ Runtime

\* The marker of a cluster without the application's database.
MarkNothing(o) ==
  /\ At(o, "mark")
  /\ Goto(o, "launch")
  /\ UNCHANGED disk
  /\ Config /\ Secrets /\ Runtime
MarkBootstrap(o) ==
  /\ At(o, "mark")
  /\ \/ /\ disk[doing[o].place].form # "absent"
        /\ disk' = [disk EXCEPT ![doing[o].place].pending = TRUE]
        /\ Goto(o, "launch") /\ UNCHANGED mishap
     \/ UNCHANGED disk /\ Goto(o, "idle") /\ CutShort
  /\ UNCHANGED <<target, switches>>
  /\ Secrets /\ Runtime

\* StartDatabaseServer: nothing may answer on the port.  The init file of MySQL and
\* MariaDB creates the application's database and sets the password at each start.
LaunchServer(o) ==
  /\ At(o, "launch")
  /\ LET p == doing[o].place
         t == doing[o].target
     IN  \/ /\ server = Nothing /\ Serves(t, p)
            /\ server' = [place |-> p, target |-> t]
            /\ disk' = IF IsPostgres(t) THEN disk
                       ELSE [disk EXCEPT ![p].created = TRUE, ![p].password = asset["mysql"]]
            /\ Goto(o, IF IsPostgres(t) THEN "bootstrap" ELSE "record")
         \/ UNCHANGED <<server, disk>> /\ Goto(o, "idle")
  /\ UNCHANGED record
  /\ Config /\ Secrets

KillServer == server' = Nothing /\ record' = IF record = "live" THEN "dead" ELSE record

\* bootstrapPostgreSQLDatabase: createdb, while there is a marker; when it fails the
\* server is killed.
CreateDatabase(o) ==
  /\ At(o, "bootstrap")
  /\ LET p == doing[o].place
         d == disk[p]
     IN  \/ ~d.pending /\ Goto(o, "record") /\ UNCHANGED disk /\ Runtime
         \/ /\ d.pending /\ server # Nothing /\ ~d.created /\ asset["postgresql"] = d.password
            /\ disk' = [disk EXCEPT ![p].created = TRUE]
            /\ Goto(o, "unmark") /\ Runtime
         \/ d.pending /\ Goto(o, "idle") /\ UNCHANGED disk /\ KillServer
  /\ Config /\ Secrets

RemoveMarker(o) ==
  /\ At(o, "unmark")
  /\ LET p == doing[o].place
     IN  \/ disk' = [disk EXCEPT ![p].pending = FALSE] /\ Goto(o, "record") /\ Runtime
         \/ UNCHANGED disk /\ Goto(o, "idle") /\ KillServer
  /\ Config /\ Secrets

\* WriteManagedDatabaseState; when it fails the server is stopped.
RecordServer(o) ==
  /\ At(o, "record")
  /\ \/ record' = (IF server = Nothing THEN "dead" ELSE "live") /\ UNCHANGED server
     \/ KillServer
  /\ Goto(o, "idle")
  /\ UNCHANGED disk
  /\ Config /\ Secrets

-----------------------------------------------------------------------------
(* polka stop: StopManagedDatabase. *)

\* mysqladmin and its like need the password that the server has; pg_ctl does not.
ShutDown(o) ==
  /\ At(o, "find")
  /\ \/ /\ record = "live"
        /\ IsPostgres(server.target) \/ asset["mysql"] = disk[server.place].password
        /\ KillServer /\ Goto(o, "forget")
     \/ record = "live" /\ Goto(o, "idle") /\ Runtime
     \/ record # "live" /\ record' = "absent" /\ Goto(o, "idle") /\ UNCHANGED server
  /\ UNCHANGED disk
  /\ Config /\ Secrets

RemoveRecord(o) ==
  /\ At(o, "forget")
  /\ record' = "absent" /\ Goto(o, "idle")
  /\ UNCHANGED <<server, disk>>
  /\ Config /\ Secrets

-----------------------------------------------------------------------------
(* What happens to them. *)

\* A server ends: a crash, or the machine restarts.
ServerEnds ==
  /\ server # Nothing
  /\ KillServer
  /\ UNCHANGED <<disk, doing>>
  /\ Config /\ Secrets

\* A command is killed; the initializer that it runs dies with it, or completes.
KillOperator(o) ==
  /\ Busy(o)
  /\ Goto(o, "idle")
  /\ LET p == doing[o].place
     IN  IF At(o, "run") /\ disk[p].by = o
         THEN \/ disk' = [disk EXCEPT ![p].by = Nothing]
              \/ disk' = [disk EXCEPT ![p] = Ready(@.of, FALSE, asset[FamilyOf(@.of)])]
         ELSE UNCHANGED disk
  /\ CutShort
  /\ UNCHANGED <<target, switches>>
  /\ Secrets /\ Runtime

\* polka config edit: another engine or version.
SwitchDatabase ==
  /\ switches < MaxSwitches
  /\ target' \in Target \ {target} /\ switches' = switches + 1
  /\ UNCHANGED <<disk, doing, mishap>>
  /\ Secrets /\ Runtime

DatabaseNext ==
  \/ ServerEnds \/ SwitchDatabase
  \/ \E o \in Operator :
        \/ Start(o) \/ LookForServer(o)
        \/ ReadCredentials(o) \/ TruncateCredentials(o) \/ WriteCredentials(o) \/ WriteAssets(o)
        \/ ResolveDataPath(o) \/ ProgramMissing(o)
        \/ CheckInitialized(o) \/ ResetDataDir(o) \/ CreateDataDir(o)
        \/ RunInitializer(o) \/ InitializerFails(o) \/ MarkBootstrap(o)
        \/ LaunchServer(o) \/ CreateDatabase(o) \/ RemoveMarker(o) \/ RecordServer(o)
        \/ Stop(o) \/ ShutDown(o) \/ RemoveRecord(o)
        \/ KillOperator(o)

DatabaseSpec == DatabaseInit /\ [][DatabaseNext]_databaseVars

-----------------------------------------------------------------------------
(* Correctness. *)

\* The types.
DatabaseTypeOK ==
  /\ target \in Target /\ switches \in 0..MaxSwitches
  /\ drawn \in 0..(MaxPasswords + 1)
  /\ secret \in 0..drawn /\ torn \in BOOLEAN /\ asset \in [Family -> 0..drawn]
  /\ disk \in [Place -> [of : Target \cup {Nothing},
                         form : {"absent", "empty", "unknown", "recognizable", "ready"},
                         by : Operator \cup {Nothing}, pending : BOOLEAN, created : BOOLEAN,
                         password : 0..drawn]]
  /\ server \in {Nothing} \cup [place : Place, target : Target]
  /\ record \in {"absent", "dead", "live"} /\ record = "live" => server # Nothing
  /\ \A o \in Operator : ~Busy(o) => doing[o] = Unoccupied
  /\ mishap \in {"none", "cut", "met"}

\* A start that reports success, of commands that come one after the other, are not
\* killed and write the marker, leaves a server on data of the engine and version that it
\* was asked for, with the application's database, that accepts the credentials polka hands
\* out (StartDatabaseServer, bootstrapPostgreSQLDatabase,
\* EnsureManagedDatabaseCredentialAssets).
RunningIsUsable ==
  record = "live" /\ mishap = "none" /\ (\A o \in Operator : ~Busy(o)) =>
    LET d == disk[server.place]
    IN  /\ Serves(server.target, server.place)
        /\ d.created /\ ~d.pending
        /\ d.password = secret /\ d.password = asset[FamilyOf(server.target)]

\* As long as the engine and the version stay and no two commands meet, no start removes a
\* database, wherever the commands before it were killed or failed
\* (ResolveDatabaseDataPath, InitializeDatabaseServer, resetDatabaseDataDir).
KeepsData == \A p \in Place : disk[p].form = "ready" => disk'[p].form = "ready"
DataKeptStep == switches = 0 /\ mishap # "met" => KeepsData
DataKeptWithoutSwitch == [][DataKeptStep]_databaseVars

\* A start never removes a database: only an incomplete directory is reset.
DataKept == [][KeepsData]_databaseVars
=============================================================================
