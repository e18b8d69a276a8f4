---------------------------- MODULE DatabaseProofs ----------------------------
(***************************************************************************)
(* The database of an environment, for any number of commands: what        *)
(* ManagedDatabase promises of a server that polka reports as running and  *)
(* of the data below it; the framework's files that get the database's     *)
(* credentials: what FrameworkFiles promises of them; and, since it has    *)
(* the invariants of all parts of MCProject, their types.                  *)
(***************************************************************************)
EXTENDS ProjectProofs, FilesProofs

-----------------------------------------------------------------------------
(* The inductive invariant.  Until two commands meet only one is busy.  As  *)
(* long as engine and version stay, only its directory is in use, and what  *)
(* a start resets is no database; as long as nothing is cut short, a        *)
(* server is that of the command which launched it until it is on record,   *)
(* a cluster without the application's database has its marker, and the     *)
(* password of the files is the one that the servers were given.            *)

DataSteps == {"idle", "look", "credentials", "secret", "write", "assets", "resolve", "check", "reset",
              "create", "run", "mark", "launch", "bootstrap", "unmark", "record", "find", "forget"}
Served == {"bootstrap", "unmark", "record"}
Placed == Served \cup {"check", "reset", "create", "run", "mark", "launch"}
Written == Placed \cup {"resolve"}
Starting == Written \cup {"credentials", "secret", "write", "assets"}

Forms == {"absent", "empty", "unknown", "recognizable", "ready"}
Directory == [of : Databases \cup {Nothing}, form : Forms, by : Operator \cup {Nothing},
              pending : BOOLEAN, created : BOOLEAN, password : Nat]
Doing == [step : DataSteps, target : Databases \cup {Nothing}, place : Data!Place \cup {Nothing},
          password : Nat]

DataTypes ==
  /\ target \in Databases /\ switches \in Nat
  /\ secret \in Nat /\ torn \in BOOLEAN /\ drawn \in Nat /\ asset \in [Data!Family -> Nat]
  /\ disk \in [Data!Place -> Directory]
  /\ server \in {Nothing} \cup [place : Data!Place, target : Databases]
  /\ doing \in [Operator -> Doing]
  /\ \A o \in Operator :
       /\ Data!Busy(o) => doing[o].target \in Databases
       /\ doing[o].step \in Placed => doing[o].place \in Data!Place
  /\ mishap \in {"none", "cut", "met"}

Alone == mishap # "met" => \A o, q \in Operator : Data!Busy(o) /\ Data!Busy(q) => o = q

FormsInv == \A p \in Data!Place :
  /\ disk[p].by # Nothing => disk[p].form \in {"unknown", "recognizable"}
  /\ Data!Filled(p) => disk[p].of \in Databases

KeptInv == (switches = 0 /\ mishap # "met") =>
  /\ \A t \in Databases :
       /\ disk[t].form # "absent" => t = target
       /\ Data!Filled(t) => disk[t].of = t
  /\ \A o \in Operator : 
       LET p == doing[o].place
       IN  /\ Data!Busy(o) => doing[o].target = target
           /\ doing[o].step \in Placed => p \in {target, Legacy}
           /\ Data!At(o, "check") /\ p = Legacy =>
                /\ ~Data!Filled(target)
                /\ Data!Recognized(Legacy) => disk[Legacy].of.engine = target.engine
           /\ Data!At(o, "reset") =>
                /\ disk[p].form # "ready"
                /\ p = Legacy => \A t \in Databases : disk[t].form # "ready"

UsableServer ==
  LET d == disk[server.place]
  IN  /\ Data!Serves(server.target, server.place)
      /\ d.created /\ ~d.pending
      /\ d.password = secret /\ d.password = asset[Data!FamilyOf(server.target)]

ServedInv ==
  /\ record = "live" => server # Nothing /\ UsableServer
  /\ record # "live" /\ server # Nothing => \E o \in Operator : doing[o].step \in Served
  /\ \A o \in Operator : doing[o].step \in Starting \cup {"forget"} => record # "live"
  /\ \A o \in Operator : doing[o].step \in Served =>
       /\ server \in {Nothing, [place |-> doing[o].place, target |-> doing[o].target]}
       /\ Data!Serves(doing[o].target, doing[o].place)

ClusterInv ==
  /\ \A p \in Data!Place :
       /\ disk[p].pending => disk[p].form = "ready" /\ Data!IsPostgres(disk[p].of)
       /\ disk[p].form = "ready" /\ Data!IsPostgres(disk[p].of) =>
            /\ disk[p].password = secret /\ secret # 0
            /\ disk[p].created \/ disk[p].pending \/ \E o \in Operator : Data!At(o, "mark") /\ doing[o].place = p
  /\ \A o \in Operator :
       LET d == disk[doing[o].place]
       IN  /\ Data!At(o, "mark") => d.form = "ready" /\ Data!IsPostgres(d.of)
           /\ doing[o].step \in {"bootstrap", "unmark"} => Data!IsPostgres(doing[o].target)
           /\ Data!At(o, "unmark") => d.created
           /\ Data!At(o, "record") => d.created /\ ~d.pending /\ d.password = secret

SecretInv == \A o \in Operator :
  /\ doing[o].step \in {"secret", "write"} => doing[o].password # 0 /\ secret \in {0, doing[o].password}
  /\ Data!At(o, "assets") => doing[o].password = secret /\ secret # 0
  /\ doing[o].step \in Written => asset[Data!FamilyOf(doing[o].target)] = secret /\ secret # 0

UsableInv == mishap = "none" => ServedInv /\ ClusterInv /\ SecretInv

DataInv == DataTypes /\ Alone /\ FormsInv /\ KeptInv /\ UsableInv

\* What a command may do.
Acts(o) ==
  \/ Data!Start(o) \/ Data!Stop(o) \/ Data!LookForServer(o) \/ Data!ReadCredentials(o)
  \/ Data!TruncateCredentials(o) \/ Data!WriteCredentials(o) \/ Data!WriteAssets(o)
  \/ Data!ResolveDataPath(o) \/ Data!ProgramMissing(o) \/ Data!CheckInitialized(o)
  \/ Data!ResetDataDir(o) \/ Data!CreateDataDir(o) \/ Data!RunInitializer(o)
  \/ Data!InitializerFails(o) \/ Data!MarkBootstrap(o) \/ Data!LaunchServer(o)
  \/ Data!CreateDatabase(o) \/ Data!RemoveMarker(o) \/ Data!RecordServer(o)
  \/ Data!ShutDown(o) \/ Data!RemoveRecord(o) \/ Data!KillOperator(o)

LEMMA DataConstants ==
  /\ Legacy \notin Databases /\ Nothing \notin Databases /\ Nothing \notin Operator
  /\ Data!Place = Databases \cup {Legacy}
BY PartsAssumption DEF Data!DatabaseAssumption, Data!Place

LEMMA Unoccupying ==
  /\ Data!Unoccupied \in Doing /\ Data!Unoccupied.step = "idle"
  /\ \A label \in DataSteps, t \in Databases :
       /\ [Data!Unoccupied EXCEPT !.step = label, !.target = t] \in Doing
       /\ [Data!Unoccupied EXCEPT !.step = label, !.target = t].step = label
       /\ [Data!Unoccupied EXCEPT !.step = label, !.target = t].target = t
BY DEF Data!Unoccupied, Doing, DataSteps

\* Of the steps of a command: the one it goes to, and what it knows there.
LEMMA Going ==
  ASSUME doing \in [Operator -> Doing], NEW o \in Operator, NEW label \in DataSteps, Data!Goto(o, label)
  PROVE  /\ doing' \in [Operator -> Doing]
         /\ \A q \in Operator : q # o => doing'[q] = doing[q]
         /\ doing'[o].step = label
         /\ label # "idle" => /\ doing'[o].target = doing[o].target
                              /\ doing'[o].place = doing[o].place
                              /\ doing'[o].password = doing[o].password
<1> DEFINE r == IF label = "idle" THEN Data!Unoccupied ELSE [doing[o] EXCEPT !.step = label]
<1>1. /\ r \in Doing /\ r.step = label
      /\ label # "idle" => /\ r.target = doing[o].target /\ r.place = doing[o].place
                           /\ r.password = doing[o].password
  <2>1. CASE label = "idle"
    BY <2>1, Unoccupying
  <2>2. CASE label # "idle"
    BY <2>2 DEF Doing
  <2> QED
    BY <2>1, <2>2
<1>2. doing' = [doing EXCEPT ![o] = r]
  BY DEF Data!Goto
<1> HIDE DEF r
<1> QED
  BY <1>1, <1>2

\* A command begins; it reads the credentials; it resolves its directory.
LEMMA Beginning ==
  ASSUME DataTypes, NEW o \in Operator, Data!Start(o) \/ Data!Stop(o)
  PROVE  /\ doing' \in [Operator -> Doing]
         /\ \A q \in Operator : q # o => doing'[q] = doing[q]
         /\ doing[o].step = "idle" /\ doing'[o].step \in {"look", "find"} /\ doing'[o].target = target
         /\ UNCHANGED <<target, switches, disk, secret, torn, drawn, asset, server, record>>
         /\ mishap' = IF \E q \in Operator \ {o} : Data!Busy(q) THEN "met" ELSE mishap
<1>1. PICK label \in {"look", "find"} : Data!Begin(o, label)
  BY DEF Data!Start, Data!Stop
<1> DEFINE r == [Data!Unoccupied EXCEPT !.step = label, !.target = target]
<1>2. r \in Doing /\ r.step = label /\ r.target = target
  <2>1. label \in DataSteps /\ target \in Databases
    BY DEF DataTypes, DataSteps
  <2> QED
    BY <2>1, Unoccupying
<1>3. doing' = [doing EXCEPT ![o] = r]
  BY <1>1 DEF Data!Begin
<1> HIDE DEF r
<1> QED
  BY <1>1, <1>2, <1>3 DEF Data!Begin, Data!Busy, Data!Secrets, Data!Runtime, DataTypes

LEMMA Reading ==
  ASSUME DataTypes, NEW o \in Operator, Data!ReadCredentials(o)
  PROVE  /\ doing' \in [Operator -> Doing]
         /\ \A q \in Operator : q # o => doing'[q] = doing[q]
         /\ doing[o].step = "credentials" /\ doing'[o].step \in {"idle", "secret"}
         /\ doing'[o].step = "secret" => /\ doing'[o].target = doing[o].target
                                         /\ doing'[o].password # 0 /\ secret \in {0, doing'[o].password}
         /\ drawn' \in Nat /\ UNCHANGED <<secret, torn, asset, disk, server, record, target, switches, mishap>>
<1> USE DEF Data!ReadCredentials, Data!Config, Data!Runtime, Data!At
<1>0. doing \in [Operator -> Doing] /\ drawn \in Nat /\ secret \in Nat /\ "idle" \in DataSteps
  BY DEF DataTypes, DataSteps
<1>1. CASE Data!Goto(o, "idle") /\ UNCHANGED drawn
  BY <1>0, <1>1, Going
<1>2. CASE ~Data!Goto(o, "idle") \/ ~UNCHANGED drawn
  <2> DEFINE n == IF secret = 0 THEN drawn + 1 ELSE secret
             r == [doing[o] EXCEPT !.step = "secret", !.password = n]
  <2>1. n \in Nat /\ n # 0 /\ secret \in {0, n}
    BY <1>0
  <2>2. r \in Doing /\ r.step = "secret" /\ r.target = doing[o].target /\ r.password = n
    <3> HIDE DEF n
    <3> QED
      BY <1>0, <2>1 DEF Doing, DataSteps
  <2>3. doing' = [doing EXCEPT ![o] = r] /\ drawn' \in Nat
    <3>1. drawn' = IF secret = 0 THEN drawn + 1 ELSE drawn
      BY <1>2
    <3>2. doing' = [doing EXCEPT ![o].step = "secret", ![o].password = IF secret = 0 THEN drawn' ELSE secret]
      BY <1>2
    <3>3. n = IF secret = 0 THEN drawn' ELSE secret
      BY <3>1
    <3>4. doing' = [doing EXCEPT ![o].step = "secret", ![o].password = n]
      BY <3>2, <3>3
    <3>5. drawn' \in Nat
      BY <1>0, <3>1
    <3> HIDE DEF n
    <3> QED
      BY <1>0, <3>4, <3>5
  <2> HIDE DEF n, r
  <2>4. doing' \in [Operator -> Doing] /\ doing'[o] = r /\ \A q \in Operator : q # o => doing'[q] = doing[q]
    BY <1>0, <2>2, <2>3
  <2> QED
    BY <2>1, <2>2, <2>3, <2>4
<1> QED
  BY <1>1, <1>2

LEMMA Resolving ==
  ASSUME DataTypes, NEW o \in Operator, Data!ResolveDataPath(o)
  PROVE  /\ doing' \in [Operator -> Doing]
         /\ \A q \in Operator : q # o => doing'[q] = doing[q]
         /\ doing[o].step = "resolve" /\ doing'[o].step = "check"
         /\ doing'[o].target = doing[o].target /\ doing'[o].place = Data!DataPath(doing[o].target)
         /\ doing'[o].place \in {doing[o].target, Legacy} /\ doing'[o].place \in Data!Place
<1> DEFINE p == Data!DataPath(doing[o].target)
           r == [doing[o] EXCEPT !.step = "check", !.place = p]
<1>1. p \in {doing[o].target, Legacy}
  BY DEF Data!DataPath
<1>2. doing[o].step = "resolve" /\ doing \in [Operator -> Doing] /\ doing[o].target \in Databases
  BY DEF Data!ResolveDataPath, Data!At, DataTypes, Data!Busy
<1>3. p \in Data!Place
  BY <1>1, <1>2, DataConstants
<1>4. doing' = [doing EXCEPT ![o] = r]
  BY DEF Data!ResolveDataPath
<1> HIDE DEF p
<1>5. r \in Doing /\ r.step = "check" /\ r.target = doing[o].target /\ r.place = p
  BY <1>2, <1>3 DEF Doing, DataSteps
<1> HIDE DEF r
<1> QED
  BY <1>1, <1>2, <1>3, <1>4, <1>5 DEF p

LEMMA Directories ==
  /\ Data!NoDirectory \in Directory /\ Data!NoDirectory.form = "absent" /\ Data!NoDirectory.by = Nothing
  /\ ~Data!NoDirectory.pending
  /\ Data!EmptyDirectory \in Directory /\ Data!EmptyDirectory.form = "empty"
  /\ Data!EmptyDirectory.by = Nothing /\ ~Data!EmptyDirectory.pending
  /\ \A t \in Databases \cup {Nothing}, c \in BOOLEAN, n \in Nat :
       /\ Data!Ready(t, c, n) \in Directory
       /\ Data!Ready(t, c, n) = [of |-> t, form |-> "ready", by |-> Nothing, pending |-> FALSE,
                                 created |-> c, password |-> n]
BY DEF Data!NoDirectory, Data!EmptyDirectory, Data!Ready, Directory, Forms

\* What a command may make of the directory that it works on, beside its removal.
Becomes(o, old, new) ==
  /\ old.form = "ready" => new.form = "ready" /\ new.of = old.of /\ new.by = old.by
  /\ new.by # Nothing => new.form \in {"unknown", "recognizable"}
  /\ new.form \notin {"absent", "empty"} =>
       /\ new.of \in Databases
       /\ \/ old.form \notin {"absent", "empty"} /\ new.of = old.of
          \/ new.of = doing[o].target

LEMMA Disking ==
  ASSUME DataTypes, FormsInv, NEW o \in Operator, Acts(o), ~Data!ResetDataDir(o)
  PROVE  \/ UNCHANGED disk
         \/ \E d \in Directory : /\ doing[o].step \in Placed \ {"check", "reset"}
                                 /\ disk' = [disk EXCEPT ![doing[o].place] = d]
                                 /\ Becomes(o, disk[doing[o].place], d)
<1> DEFINE p == doing[o].place
           t == doing[o].target
           old == disk[p]
<1> USE DEF Data!At
<1>1. doing[o].step \in Placed =>
        /\ p \in Data!Place /\ old \in Directory /\ t \in Databases /\ doing \in [Operator -> Doing]
        /\ old.by # Nothing => old.form \in {"unknown", "recognizable"}
        /\ old.form \notin {"absent", "empty"} => old.of \in Databases
  BY DEF DataTypes, FormsInv, Data!Filled, Data!Busy, Placed, Served
<1>2. \A f \in Data!Family : asset[f] \in Nat
  BY DEF DataTypes
<1>3. \A u : Data!FamilyOf(u) \in Data!Family
  BY DEF Data!FamilyOf, Data!Family
<1>4. o # Nothing
  BY DataConstants
<1>5. CASE Data!CreateDataDir(o)
  <2>1. doing[o].step = "create"
    BY <1>5 DEF Data!CreateDataDir
  <2>2. disk' = [disk EXCEPT ![p] = IF @.form = "absent" THEN Data!EmptyDirectory ELSE @]
    BY <1>5 DEF Data!CreateDataDir
  <2>3. CASE old.form = "absent"
    BY <1>1, <2>1, <2>2, <2>3, Directories DEF Becomes, Placed, Served
  <2>4. CASE old.form # "absent"
    BY <1>1, <2>1, <2>2, <2>4, Directories DEF Becomes, Placed, Served
  <2> QED
    BY <2>3, <2>4
<1>6. CASE Data!RunInitializer(o)
  <2>1. doing[o].step = "run" /\ doing[o].step \in Placed \ {"check", "reset"}
    BY <1>6 DEF Data!RunInitializer, Placed, Served
  <2>2. CASE old.form = "empty" /\ disk' = [disk EXCEPT ![p] = [Data!EmptyDirectory EXCEPT !.of = t, !.form = "unknown",
                                                                  !.by = o]]
    <3> DEFINE d == [Data!EmptyDirectory EXCEPT !.of = t, !.form = "unknown", !.by = o]
    <3>1. d \in Directory /\ d.of = t /\ d.form = "unknown"
      BY <1>1, <2>1, Directories DEF Directory, Forms
    <3> HIDE DEF d
    <3>2. Becomes(o, old, d)
      BY <1>1, <2>1, <2>2, <3>1 DEF Becomes
    <3> QED
      BY <2>1, <2>2, <3>1, <3>2 DEF d
  <2>3. CASE old.form = "unknown" /\ disk' = [disk EXCEPT ![p].form = "recognizable"]
    <3> DEFINE d == [old EXCEPT !.form = "recognizable"]
    <3>1. d \in Directory /\ d.of = old.of /\ d.form = "recognizable"
      BY <1>1, <2>1 DEF Directory, Forms
    <3>2. disk' = [disk EXCEPT ![p] = d]
      BY <2>3
    <3> HIDE DEF d
    <3>3. Becomes(o, old, d)
      BY <1>1, <2>1, <2>3, <3>1 DEF Becomes
    <3> QED
      BY <2>1, <3>1, <3>2, <3>3
  <2>4. CASE old.form = "recognizable" /\ disk' = [disk EXCEPT ![p] = Data!Ready(t, FALSE, asset[Data!FamilyOf(t)])]
    <3> DEFINE d == Data!Ready(t, FALSE, asset[Data!FamilyOf(t)])
    <3>1. d \in Directory /\ d.of = t /\ d.form = "ready" /\ d.by = Nothing
      <4>1. t \in Databases \cup {Nothing} /\ FALSE \in BOOLEAN
        BY <1>1, <2>1
      <4>2. asset[Data!FamilyOf(t)] \in Nat
        BY <1>2, <1>3
      <4>3. /\ d \in Directory
            /\ d = [of |-> t, form |-> "ready", by |-> Nothing, pending |-> FALSE, created |-> FALSE,
                    password |-> asset[Data!FamilyOf(t)]]
        BY <4>1, <4>2, Directories
      <4> QED
        BY <4>3 DEF Data!Ready
    <3> HIDE DEF d
    <3>2. Becomes(o, old, d)
      BY <1>1, <2>1, <2>4, <3>1 DEF Becomes
    <3> QED
      BY <2>1, <2>4, <3>1, <3>2 DEF d
  <2> QED
    BY <1>6, <2>2, <2>3, <2>4 DEF Data!RunInitializer
<1>7. CASE Data!InitializerFails(o)
  <2>1. doing[o].step = "run" /\ doing[o].step \in Placed \ {"check", "reset"} /\ old.by = o
    BY <1>7 DEF Data!InitializerFails, Placed, Served
  <2> DEFINE d == IF Data!IsPostgres(old.of) THEN Data!EmptyDirectory ELSE [old EXCEPT !.by = Nothing]
  <2>2. disk' = [disk EXCEPT ![p] = d]
    BY <1>7 DEF Data!InitializerFails
  <2>3. d \in Directory /\ d.by = Nothing /\ (d.form = "empty" \/ (d.form = old.form /\ d.of = old.of))
    BY <1>1, <2>1, Directories DEF Directory
  <2> HIDE DEF d
  <2>4. Becomes(o, old, d)
    BY <1>1, <1>4, <2>1, <2>3 DEF Becomes
  <2> QED
    BY <2>1, <2>2, <2>3, <2>4
<1>8. ASSUME doing[o].step \in Placed, NEW d \in Directory, d.form = old.form, d.of = old.of, d.by = old.by
      PROVE  Becomes(o, old, d)
  BY <1>1, <1>8 DEF Becomes
<1>9. ASSUME NEW s \in Placed \ {"check", "reset"}, doing[o].step = s, NEW c \in BOOLEAN,
             disk' = [disk EXCEPT ![p].pending = c] \/ disk' = [disk EXCEPT ![p].created = c]
      PROVE  \E d \in Directory : disk' = [disk EXCEPT ![p] = d] /\ Becomes(o, old, d)
  <2> DEFINE d == IF disk' = [disk EXCEPT ![p].pending = c] THEN [old EXCEPT !.pending = c] ELSE [old EXCEPT !.created = c]
  <2>1. d \in Directory /\ d.form = old.form /\ d.of = old.of /\ d.by = old.by
    BY <1>1, <1>9 DEF Directory
  <2>2. disk' = [disk EXCEPT ![p] = d]
    BY <1>9
  <2> HIDE DEF d
  <2> QED
    BY <1>8, <1>9, <2>1, <2>2
<1>10. CASE Data!MarkBootstrap(o)
  <2>1. doing[o].step = "mark" /\ "mark" \in Placed \ {"check", "reset"}
    BY <1>10 DEF Data!MarkBootstrap, Placed, Served
  <2> QED
    BY <1>9, <1>10, <2>1 DEF Data!MarkBootstrap
<1>11. CASE Data!CreateDatabase(o)
  <2>1. doing[o].step = "bootstrap" /\ "bootstrap" \in Placed \ {"check", "reset"}
    BY <1>11 DEF Data!CreateDatabase, Placed, Served
  <2> QED
    BY <1>9, <1>11, <2>1 DEF Data!CreateDatabase
<1>12. CASE Data!RemoveMarker(o)
  <2>1. doing[o].step = "unmark" /\ "unmark" \in Placed \ {"check", "reset"}
    BY <1>12 DEF Data!RemoveMarker, Placed, Served
  <2> QED
    BY <1>9, <1>12, <2>1 DEF Data!RemoveMarker
<1>13. CASE Data!LaunchServer(o)
  <2>1. doing[o].step = "launch" /\ "launch" \in Placed \ {"check", "reset"}
    BY <1>13 DEF Data!LaunchServer, Placed, Served
  <2>2. CASE disk' = [disk EXCEPT ![p].created = TRUE, ![p].password = asset["mysql"]]
    <3> DEFINE d == [old EXCEPT !.created = TRUE, !.password = asset["mysql"]]
    <3>1. asset["mysql"] \in Nat
      BY <1>2 DEF Data!Family
    <3>2. d \in Directory /\ d.form = old.form /\ d.of = old.of /\ d.by = old.by
      BY <1>1, <2>1, <3>1 DEF Directory
    <3>3. disk' = [disk EXCEPT ![p] = d]
      BY <2>2
    <3> HIDE DEF d
    <3> QED
      BY <1>8, <2>1, <3>2, <3>3
  <2> QED
    BY <1>13, <2>1, <2>2 DEF Data!LaunchServer
<1>14. CASE Data!KillOperator(o)
  <2>1. CASE UNCHANGED disk
    BY <2>1
  <2>2. CASE doing[o].step = "run" /\ old.by = o
    <3>1. "run" \in Placed \ {"check", "reset"}
      BY DEF Placed, Served
    <3>2. CASE disk' = [disk EXCEPT ![p].by = Nothing]
      <4> DEFINE d == [old EXCEPT !.by = Nothing]
      <4>1. d \in Directory /\ d.form = old.form /\ d.of = old.of /\ d.by = Nothing
        BY <1>1, <2>2, <3>1 DEF Directory
      <4>2. disk' = [disk EXCEPT ![p] = d]
        BY <3>2
      <4> HIDE DEF d
      <4>3. Becomes(o, old, d)
        BY <1>1, <1>4, <2>2, <3>1, <4>1 DEF Becomes
      <4> QED
        BY <2>2, <3>1, <4>1, <4>2, <4>3
    <3>3. CASE disk' = [disk EXCEPT ![p] = Data!Ready(@.of, FALSE, asset[Data!FamilyOf(@.of)])]
      <4> DEFINE d == Data!Ready(old.of, FALSE, asset[Data!FamilyOf(old.of)])
      <4>1. old.of \in Databases /\ old.form \in {"unknown", "recognizable"}
        BY <1>1, <1>4, <2>2, <3>1
      <4>2. d \in Directory /\ d.form = "ready" /\ d.of = old.of /\ d.by = Nothing
        <5>1. old.of \in Databases \cup {Nothing} /\ FALSE \in BOOLEAN
          BY <4>1
        <5>2. asset[Data!FamilyOf(old.of)] \in Nat
          BY <1>2, <1>3
        <5>3. /\ d \in Directory
              /\ d = [of |-> old.of, form |-> "ready", by |-> Nothing, pending |-> FALSE, created |-> FALSE,
                      password |-> asset[Data!FamilyOf(old.of)]]
          BY <5>1, <5>2, Directories
        <5> QED
          BY <5>3 DEF Data!Ready
      <4>3. disk' = [disk EXCEPT ![p] = d]
        BY <3>3
      <4> HIDE DEF d
      <4>4. Becomes(o, old, d)
        BY <4>1, <4>2 DEF Becomes
      <4> QED
        BY <2>2, <3>1, <4>2, <4>3, <4>4
    <3> QED
      BY <1>14, <2>1, <2>2, <3>2, <3>3 DEF Data!KillOperator
  <2> QED
    BY <1>14, <2>1, <2>2 DEF Data!KillOperator
<1>15. CASE UNCHANGED disk
  BY <1>15
<1>16. \/ Data!Start(o) \/ Data!Stop(o) \/ Data!LookForServer(o) \/ Data!ReadCredentials(o)
       \/ Data!TruncateCredentials(o) \/ Data!WriteCredentials(o) \/ Data!WriteAssets(o)
       \/ Data!ResolveDataPath(o) \/ Data!ProgramMissing(o) \/ Data!CheckInitialized(o)
       \/ Data!RecordServer(o) \/ Data!ShutDown(o) \/ Data!RemoveRecord(o)
       => UNCHANGED disk
  BY DEF Data!Start, Data!Stop, Data!Begin, Data!LookForServer, Data!ReadCredentials, Data!TruncateCredentials,
         Data!WriteCredentials, Data!WriteAssets, Data!ResolveDataPath, Data!ProgramMissing,
         Data!CheckInitialized, Data!RecordServer, Data!ShutDown, Data!RemoveRecord
<1> QED
  BY <1>5, <1>6, <1>7, <1>10, <1>11, <1>12, <1>13, <1>14, <1>15, <1>16 DEF Acts

\* The steps that only go on.
GoesOn(o) ==
  /\ Data!Busy(o)
  /\ \/ UNCHANGED doing
     \/ \E label \in DataSteps : /\ Data!Goto(o, label)
                                 /\ label \in Placed => doing[o].step \in Placed

LEMMA GoingOn ==
  ASSUME DataTypes, NEW o \in Operator, Acts(o), ~Data!Start(o), ~Data!Stop(o),
         ~Data!ReadCredentials(o), ~Data!ResolveDataPath(o)
  PROVE  GoesOn(o)
<1> USE DEF Data!At, Data!Busy
<1>1. ASSUME doing[o].step # "idle", NEW label \in DataSteps \ Placed, Data!Goto(o, label) PROVE GoesOn(o)
  BY <1>1 DEF GoesOn
<1>2. ASSUME doing[o].step # "idle", doing[o].step \in Placed, NEW label \in DataSteps, Data!Goto(o, label)
      PROVE  GoesOn(o)
  BY <1>2 DEF GoesOn
<1>3. /\ {"idle", "credentials", "write", "assets", "resolve", "forget"} \subseteq DataSteps \ Placed
      /\ Placed \subseteq DataSteps
  BY DEF DataSteps, Placed, Served
<1>4. CASE Data!LookForServer(o)
  BY <1>1, <1>3, <1>4 DEF Data!LookForServer
<1>5. CASE Data!TruncateCredentials(o)
  BY <1>1, <1>3, <1>5 DEF Data!TruncateCredentials
<1>6. CASE Data!WriteCredentials(o)
  BY <1>1, <1>3, <1>6 DEF Data!WriteCredentials
<1>7. CASE Data!WriteAssets(o)
  BY <1>1, <1>3, <1>7 DEF Data!WriteAssets
<1>8. CASE Data!ProgramMissing(o)
  BY <1>1, <1>3, <1>8 DEF Data!ProgramMissing
<1>9. CASE Data!CheckInitialized(o)
  BY <1>2, <1>9 DEF Data!CheckInitialized, Placed, Served, DataSteps
<1>10. CASE Data!ResetDataDir(o)
  BY <1>2, <1>10 DEF Data!ResetDataDir, Placed, Served, DataSteps
<1>11. CASE Data!CreateDataDir(o)
  BY <1>2, <1>11 DEF Data!CreateDataDir, Placed, Served, DataSteps
<1>12. CASE Data!RunInitializer(o)
  <2>1. doing[o].step = "run" /\ doing[o].step \in Placed
    BY <1>12 DEF Data!RunInitializer, Placed, Served
  <2>2. CASE UNCHANGED doing
    BY <2>1, <2>2 DEF GoesOn
  <2>3. CASE ~UNCHANGED doing
    <3>1. Data!Goto(o, "mark") \/ Data!Goto(o, "launch") \/ Data!Goto(o, "idle")
      BY <1>12, <2>3 DEF Data!RunInitializer
    <3> QED
      BY <1>2, <2>1, <3>1 DEF DataSteps
  <2> QED
    BY <2>2, <2>3
<1>13. CASE Data!InitializerFails(o)
  BY <1>1, <1>3, <1>13 DEF Data!InitializerFails
<1>14. CASE Data!MarkBootstrap(o)
  BY <1>2, <1>14 DEF Data!MarkBootstrap, Placed, Served, DataSteps
<1>15. CASE Data!LaunchServer(o)
  <2>1. doing[o].step = "launch" /\ doing[o].step \in Placed
    BY <1>15 DEF Data!LaunchServer, Placed, Served
  <2>2. Data!Goto(o, "bootstrap") \/ Data!Goto(o, "record") \/ Data!Goto(o, "idle")
    BY <1>15 DEF Data!LaunchServer
  <2> QED
    BY <1>2, <2>1, <2>2 DEF DataSteps
<1>16. CASE Data!CreateDatabase(o)
  <2>1. doing[o].step = "bootstrap" /\ doing[o].step \in Placed
    BY <1>16 DEF Data!CreateDatabase, Placed, Served
  <2>2. Data!Goto(o, "record") \/ Data!Goto(o, "unmark") \/ Data!Goto(o, "idle")
    BY <1>16 DEF Data!CreateDatabase
  <2> QED
    BY <1>2, <2>1, <2>2 DEF DataSteps
<1>17. CASE Data!RemoveMarker(o)
  <2>1. doing[o].step = "unmark" /\ doing[o].step \in Placed
    BY <1>17 DEF Data!RemoveMarker, Placed, Served
  <2>2. Data!Goto(o, "record") \/ Data!Goto(o, "idle")
    BY <1>17 DEF Data!RemoveMarker
  <2> QED
    BY <1>2, <2>1, <2>2 DEF DataSteps
<1>18. CASE Data!RecordServer(o)
  BY <1>1, <1>3, <1>18 DEF Data!RecordServer
<1>19. CASE Data!ShutDown(o)
  BY <1>1, <1>3, <1>19 DEF Data!ShutDown
<1>20. CASE Data!RemoveRecord(o)
  BY <1>1, <1>3, <1>20 DEF Data!RemoveRecord
<1>21. CASE Data!KillOperator(o)
  BY <1>1, <1>3, <1>21 DEF Data!KillOperator
<1> QED
  BY <1>4, <1>5, <1>6, <1>7, <1>8, <1>9, <1>10, <1>11, <1>12, <1>13, <1>14, <1>15, <1>16, <1>17, <1>18,
     <1>19, <1>20, <1>21 DEF Acts

\* What a step of a command leaves as it is, and what it may add to the history.
LEMMA Acting ==
  ASSUME NEW o \in Operator, Acts(o)
  PROVE  /\ UNCHANGED <<target, switches>>
         /\ mishap' = "none" => mishap = "none"
         /\ mishap' # "met" => mishap # "met"
         /\ mishap' \in {mishap, "cut", "met"}
<1> USE DEF Data!Config, Data!CutShort
<1>1. CASE Data!Start(o) \/ Data!Stop(o)
  BY <1>1 DEF Data!Start, Data!Stop, Data!Begin
<1>2. CASE Data!MarkBootstrap(o)
  BY <1>2 DEF Data!MarkBootstrap
<1>3. CASE Data!KillOperator(o)
  BY <1>3 DEF Data!KillOperator
<1>4. ASSUME ~Data!Start(o), ~Data!Stop(o), ~Data!MarkBootstrap(o), ~Data!KillOperator(o) PROVE Data!Config
  BY <1>4 DEF Acts, Data!LookForServer, Data!ReadCredentials, Data!TruncateCredentials,
         Data!WriteCredentials, Data!WriteAssets, Data!ResolveDataPath, Data!ProgramMissing,
         Data!CheckInitialized, Data!RecordServer, Data!ShutDown, Data!RemoveRecord, Data!ResetDataDir,
         Data!CreateDataDir, Data!RunInitializer, Data!InitializerFails, Data!LaunchServer,
         Data!CreateDatabase, Data!RemoveMarker
<1> QED
  BY <1>1, <1>2, <1>3, <1>4

LEMMA Moving ==
  ASSUME DataTypes, NEW o \in Operator, Acts(o)
  PROVE  /\ doing' \in [Operator -> Doing]
         /\ \A q \in Operator : q # o => doing'[q] = doing[q]
         /\ Data!Busy(o)' => doing'[o].target = IF Data!Busy(o) THEN doing[o].target ELSE target
         /\ doing'[o].step \in Placed =>
              \/ doing[o].step \in Placed /\ doing'[o].place = doing[o].place
              \/ doing[o].step = "resolve" /\ Data!ResolveDataPath(o)
         /\ ~Data!Busy(o) => mishap' = IF \E q \in Operator \ {o} : Data!Busy(q) THEN "met" ELSE mishap
<1> USE DEF Data!Busy
<1>0. /\ doing \in [Operator -> Doing]
      /\ {"idle", "look", "find", "secret", "resolve"} \cap Placed = {}
  BY DEF DataTypes, Placed, Served
<1>1. CASE Data!Start(o) \/ Data!Stop(o)
  BY <1>0, <1>1, Beginning
<1>2. CASE Data!ReadCredentials(o)
  BY <1>0, <1>2, Reading
<1>3. CASE Data!ResolveDataPath(o)
  BY <1>0, <1>3, Resolving
<1>4. CASE GoesOn(o)
  BY <1>0, <1>4, Going DEF GoesOn
<1> QED
  BY <1>1, <1>2, <1>3, <1>4, GoingOn

\* The credentials, the server and its record.
LEMMA SecretsStep ==
  ASSUME DataTypes, NEW o \in Operator, Acts(o)
  PROVE  \/ UNCHANGED <<secret, torn, asset>> /\ drawn' \in Nat
         \/ Data!TruncateCredentials(o) /\ torn' = TRUE /\ UNCHANGED <<secret, asset, drawn>>
         \/ Data!WriteCredentials(o) /\ secret' = doing[o].password /\ torn' = FALSE /\ UNCHANGED <<asset, drawn>>
         \/ Data!WriteAssets(o) /\ UNCHANGED <<secret, torn, drawn>>
            /\ asset' = [asset EXCEPT ![Data!FamilyOf(doing[o].target)] = doing[o].password]
<1> USE DEF Data!Secrets
<1>0. drawn \in Nat
  BY DEF DataTypes
<1>1. CASE Data!Start(o) \/ Data!Stop(o)
  BY <1>0, <1>1 DEF Data!Start, Data!Stop, Data!Begin
<1>2. CASE Data!ReadCredentials(o)
  BY <1>2, Reading
<1>3. CASE Data!TruncateCredentials(o)
  BY <1>3 DEF Data!TruncateCredentials
<1>4. CASE Data!WriteCredentials(o)
  BY <1>0, <1>4 DEF Data!WriteCredentials
<1>5. CASE Data!WriteAssets(o)
  BY <1>5 DEF Data!WriteAssets
<1>6. ASSUME ~Data!Start(o), ~Data!Stop(o), ~Data!ReadCredentials(o), ~Data!TruncateCredentials(o),
             ~Data!WriteCredentials(o), ~Data!WriteAssets(o)
      PROVE  Data!Secrets
  BY <1>6 DEF Acts, Data!LookForServer, Data!ResolveDataPath, Data!ProgramMissing,
         Data!CheckInitialized, Data!RecordServer, Data!ShutDown, Data!RemoveRecord, Data!ResetDataDir,
         Data!CreateDataDir, Data!RunInitializer, Data!InitializerFails, Data!LaunchServer,
         Data!CreateDatabase, Data!RemoveMarker, Data!MarkBootstrap, Data!KillOperator
<1> QED
  BY <1>0, <1>1, <1>2, <1>3, <1>4, <1>5, <1>6

LEMMA ServerStep ==
  ASSUME NEW o \in Operator, Acts(o)
  PROVE  \/ UNCHANGED <<server, record>>
         \/ Data!LookForServer(o) /\ UNCHANGED server
         \/ Data!LaunchServer(o) /\ server' = [place |-> doing[o].place, target |-> doing[o].target]
            /\ server = Nothing /\ UNCHANGED record
         \/ (Data!CreateDatabase(o) \/ Data!RemoveMarker(o) \/ Data!RecordServer(o) \/ Data!ShutDown(o))
            /\ Data!KillServer
         \/ Data!RecordServer(o) /\ UNCHANGED server /\ record' = IF server = Nothing THEN "dead" ELSE "live"
         \/ (Data!ShutDown(o) \/ Data!RemoveRecord(o)) /\ UNCHANGED server /\ record' = "absent"
<1> USE DEF Data!Runtime
<1>1. CASE Data!Start(o) \/ Data!Stop(o)
  BY <1>1 DEF Data!Start, Data!Stop, Data!Begin
<1>2. CASE Data!LookForServer(o)
  BY <1>2 DEF Data!LookForServer
<1>3. CASE Data!LaunchServer(o)
  BY <1>3 DEF Data!LaunchServer
<1>4. CASE Data!CreateDatabase(o)
  BY <1>4 DEF Data!CreateDatabase
<1>5. CASE Data!RemoveMarker(o)
  BY <1>5 DEF Data!RemoveMarker
<1>6. CASE Data!RecordServer(o)
  BY <1>6 DEF Data!RecordServer
<1>7. CASE Data!ShutDown(o)
  BY <1>7 DEF Data!ShutDown
<1>8. CASE Data!RemoveRecord(o)
  BY <1>8 DEF Data!RemoveRecord
<1>9. ASSUME ~Data!Start(o), ~Data!Stop(o), ~Data!LookForServer(o), ~Data!LaunchServer(o),
             ~Data!CreateDatabase(o), ~Data!RemoveMarker(o), ~Data!RecordServer(o), ~Data!ShutDown(o),
             ~Data!RemoveRecord(o)
      PROVE  Data!Runtime
  BY <1>9 DEF Acts, Data!ReadCredentials, Data!TruncateCredentials,
         Data!WriteCredentials, Data!WriteAssets, Data!ResolveDataPath, Data!ProgramMissing,
         Data!CheckInitialized, Data!ResetDataDir,
         Data!CreateDataDir, Data!RunInitializer, Data!InitializerFails, Data!MarkBootstrap, Data!KillOperator
<1> QED
  BY <1>1, <1>2, <1>3, <1>4, <1>5, <1>6, <1>7, <1>8, <1>9

\* A reset: the directory is empty, and with that of earlier versions what is below it is gone.
LEMMA Resetting ==
  ASSUME DataTypes, NEW o \in Operator, Data!ResetDataDir(o)
  PROVE  /\ doing[o].step = "reset" /\ doing[o].place \in Data!Place
         /\ disk' \in [Data!Place -> Directory]
         /\ disk'[doing[o].place] = Data!EmptyDirectory
         /\ \A p \in Data!Place : p # doing[o].place =>
              disk'[p] = IF doing[o].place = Legacy THEN Data!NoDirectory ELSE disk[p]
BY Directories DEF Data!ResetDataDir, Data!At, DataTypes, Placed, Served

LEMMA DataTypesStep ==
  DataTypes /\ FormsInv /\ [Data!DatabaseNext]_dataVars => DataTypes'
<1> SUFFICES ASSUME DataTypes, FormsInv, [Data!DatabaseNext]_dataVars PROVE DataTypes'
  OBVIOUS
<1>1. ASSUME NEW o \in Operator, Acts(o) PROVE DataTypes'
  <2>1. target' \in Databases /\ switches' \in Nat /\ mishap' \in {"none", "cut", "met"}
    BY <1>1, Acting DEF DataTypes
  <2>2. secret' \in Nat /\ torn' \in BOOLEAN /\ drawn' \in Nat
    <3>1. doing[o].password \in Nat
      BY DEF DataTypes, Doing
    <3> QED
      BY <1>1, <3>1, SecretsStep DEF DataTypes
  <2>3. asset' \in [Data!Family -> Nat]
    <3>1. doing[o].password \in Nat
      BY DEF DataTypes, Doing
    <3> QED
      BY <1>1, <3>1, SecretsStep DEF DataTypes
  <2>4. disk' \in [Data!Place -> Directory]
    <3>1. CASE Data!ResetDataDir(o)
      BY <3>1, Resetting
    <3>2. CASE ~Data!ResetDataDir(o)
      BY <1>1, <3>2, Disking DEF DataTypes
    <3> QED
      BY <3>1, <3>2
  <2>5. server' \in {Nothing} \cup [place : Data!Place, target : Databases]
    <3>1. CASE Data!LaunchServer(o)
      <4>1. doing[o].step = "launch"
        BY <3>1 DEF Data!LaunchServer, Data!At
      <4>2. doing[o].place \in Data!Place /\ doing[o].target \in Databases
        BY <4>1 DEF DataTypes, Data!Busy, Placed
      <4> QED
        BY <1>1, <4>2, ServerStep DEF DataTypes, Data!KillServer
    <3>2. CASE ~Data!LaunchServer(o)
      BY <1>1, <3>2, ServerStep DEF DataTypes, Data!KillServer
    <3> QED
      BY <3>1, <3>2
  <2>6. ASSUME NEW q \in Operator
        PROVE  /\ Data!Busy(q)' => doing'[q].target \in Databases
               /\ doing'[q].step \in Placed => doing'[q].place \in Data!Place
    <3>1. CASE q # o
      BY <1>1, <3>1, Moving DEF DataTypes, Data!Busy
    <3>2. CASE q = o
      <4>1. Data!ResolveDataPath(o) => doing'[o].place \in Data!Place
        BY Resolving
      <4> QED
        BY <1>1, <3>2, <4>1, Moving DEF DataTypes
    <3> QED
      BY <3>1, <3>2
  <2>7. doing' \in [Operator -> Doing]
    BY <1>1, Moving
  <2> QED
    BY <2>1, <2>2, <2>3, <2>4, <2>5, <2>6, <2>7 DEF DataTypes
<1>2. CASE Data!ServerEnds
  BY <1>2 DEF Data!ServerEnds, Data!KillServer, Data!Config, Data!Secrets, DataTypes, Data!Busy
<1>3. CASE Data!SwitchDatabase
  BY <1>3 DEF Data!SwitchDatabase, Data!Runtime, Data!Secrets, DataTypes, Data!Busy
<1>4. CASE UNCHANGED dataVars
  BY <1>4 DEF dataVars, DataTypes, Data!Busy
<1> QED
  BY <1>1, <1>2, <1>3, <1>4 DEF Data!DatabaseNext, Acts

LEMMA AloneStep == DataTypes /\ Alone /\ [Data!DatabaseNext]_dataVars => Alone'
<1> SUFFICES ASSUME DataTypes, Alone, [Data!DatabaseNext]_dataVars PROVE Alone'
  OBVIOUS
<1>1. ASSUME NEW o \in Operator, Acts(o) PROVE Alone'
  BY <1>1, Acting, Moving DEF Alone, Data!Busy
<1>2. CASE UNCHANGED <<doing, mishap>>
  BY <1>2 DEF Alone, Data!Busy
<1>3. Data!ServerEnds \/ Data!SwitchDatabase \/ UNCHANGED dataVars => UNCHANGED <<doing, mishap>>
  BY DEF Data!ServerEnds, Data!SwitchDatabase, Data!Config, dataVars
<1> QED
  BY <1>1, <1>2, <1>3 DEF Data!DatabaseNext, Acts

LEMMA FormsStep == DataTypes /\ FormsInv /\ [Data!DatabaseNext]_dataVars => FormsInv'
<1> SUFFICES ASSUME DataTypes, FormsInv, [Data!DatabaseNext]_dataVars PROVE FormsInv'
  OBVIOUS
<1> USE DEF Data!Filled
<1>1. ASSUME NEW o \in Operator, Acts(o) PROVE FormsInv'
  <2>1. CASE Data!ResetDataDir(o)
    BY <2>1, Resetting, Directories DEF FormsInv
  <2>2. CASE ~Data!ResetDataDir(o)
    <3>1. CASE UNCHANGED disk
      BY <3>1 DEF FormsInv
    <3>2. CASE ~UNCHANGED disk
      <4>1. PICK d \in Directory : /\ disk' = [disk EXCEPT ![doing[o].place] = d]
                                   /\ Becomes(o, disk[doing[o].place], d)
        BY <1>1, <2>2, <3>2, Disking
      <4> QED
        BY <4>1 DEF FormsInv, Becomes, DataTypes
    <3> QED
      BY <3>1, <3>2
  <2> QED
    BY <2>1, <2>2
<1>2. CASE UNCHANGED disk
  BY <1>2 DEF FormsInv
<1>3. Data!ServerEnds \/ Data!SwitchDatabase \/ UNCHANGED dataVars => UNCHANGED disk
  BY DEF Data!ServerEnds, Data!SwitchDatabase, dataVars
<1> QED
  BY <1>1, <1>2, <1>3 DEF Data!DatabaseNext, Acts

\* From which step to which each action goes.
Between(o, from, labels) == doing[o].step = from /\ doing'[o].step \in labels

LEMMA StepTable ==
  ASSUME DataTypes, NEW o \in Operator
  PROVE  /\ Data!Start(o) => Between(o, "idle", {"look"})
         /\ Data!Stop(o) => Between(o, "idle", {"find"})
         /\ Data!LookForServer(o) => Between(o, "look", {"idle", "credentials"})
         /\ Data!ReadCredentials(o) => Between(o, "credentials", {"idle", "secret"})
         /\ Data!TruncateCredentials(o) => Between(o, "secret", {"write"})
         /\ Data!WriteCredentials(o) => Between(o, "write", {"assets", "idle"})
         /\ Data!WriteAssets(o) => Between(o, "assets", {"resolve"})
         /\ Data!ResolveDataPath(o) => Between(o, "resolve", {"check"})
         /\ Data!ProgramMissing(o) => Between(o, "resolve", {"idle"})
         /\ Data!CheckInitialized(o) => Between(o, "check", {"launch", "reset", "create"})
         /\ Data!ResetDataDir(o) => Between(o, "reset", {"create"})
         /\ Data!CreateDataDir(o) => Between(o, "create", {"run"})
         /\ Data!RunInitializer(o) => Between(o, "run", {"run", "mark", "launch", "idle"})
         /\ Data!InitializerFails(o) => Between(o, "run", {"idle"})
         /\ Data!MarkBootstrap(o) => Between(o, "mark", {"launch", "idle"})
         /\ Data!LaunchServer(o) => Between(o, "launch", {"bootstrap", "record", "idle"})
         /\ Data!CreateDatabase(o) => Between(o, "bootstrap", {"record", "unmark", "idle"})
         /\ Data!RemoveMarker(o) => Between(o, "unmark", {"record", "idle"})
         /\ Data!RecordServer(o) => Between(o, "record", {"idle"})
         /\ Data!ShutDown(o) => Between(o, "find", {"forget", "idle"})
         /\ Data!RemoveRecord(o) => Between(o, "forget", {"idle"})
         /\ Data!KillOperator(o) => doing'[o].step = "idle"
<1> USE DEF Data!At
<1>0. doing \in [Operator -> Doing]
  BY DEF DataTypes
<1>1. \A label \in DataSteps : Data!Goto(o, label) => doing'[o].step = label
  BY <1>0, Going
<1>2. /\ Data!Start(o) => Between(o, "idle", {"look"})
      /\ Data!Stop(o) => Between(o, "idle", {"find"})
  <2>1. ASSUME NEW label \in DataSteps, Data!Begin(o, label)
        PROVE  doing[o].step = "idle" /\ doing'[o].step = label
    <3> DEFINE r == [Data!Unoccupied EXCEPT !.step = label, !.target = target]
    <3>1. doing' = [doing EXCEPT ![o] = r] /\ doing[o].step = "idle"
      BY <2>1 DEF Data!Begin, Data!Busy
    <3>2. r.step = label
      BY Unoccupying DEF DataTypes
    <3> HIDE DEF r
    <3> QED
      BY <1>0, <3>1, <3>2
  <2> QED
    BY <2>1 DEF Between, Data!Start, Data!Stop, DataSteps
<1>3. /\ Data!ReadCredentials(o) => Between(o, "credentials", {"idle", "secret"})
      /\ Data!ResolveDataPath(o) => Between(o, "resolve", {"check"})
  BY Reading, Resolving DEF Between
<1>4. /\ Data!LookForServer(o) => Between(o, "look", {"idle", "credentials"})
      /\ Data!TruncateCredentials(o) => Between(o, "secret", {"write"})
      /\ Data!WriteCredentials(o) => Between(o, "write", {"assets", "idle"})
      /\ Data!WriteAssets(o) => Between(o, "assets", {"resolve"})
      /\ Data!ProgramMissing(o) => Between(o, "resolve", {"idle"})
  BY <1>1 DEF Between, DataSteps, Data!LookForServer, Data!TruncateCredentials, Data!WriteCredentials,
              Data!WriteAssets, Data!ProgramMissing
<1>5. /\ Data!CheckInitialized(o) => Between(o, "check", {"launch", "reset", "create"})
      /\ Data!ResetDataDir(o) => Between(o, "reset", {"create"})
      /\ Data!CreateDataDir(o) => Between(o, "create", {"run"})
      /\ Data!InitializerFails(o) => Between(o, "run", {"idle"})
      /\ Data!MarkBootstrap(o) => Between(o, "mark", {"launch", "idle"})
  BY <1>1 DEF Between, DataSteps, Data!CheckInitialized, Data!ResetDataDir, Data!CreateDataDir,
              Data!InitializerFails, Data!MarkBootstrap
<1>6. ASSUME Data!RunInitializer(o) PROVE Between(o, "run", {"run", "mark", "launch", "idle"})
  <2>1. doing[o].step = "run"
    BY <1>6 DEF Data!RunInitializer
  <2>2. UNCHANGED doing \/ Data!Goto(o, "mark") \/ Data!Goto(o, "launch") \/ Data!Goto(o, "idle")
    BY <1>6 DEF Data!RunInitializer
  <2> QED
    BY <1>1, <2>1, <2>2 DEF Between, DataSteps
<1>7. ASSUME Data!LaunchServer(o) PROVE Between(o, "launch", {"bootstrap", "record", "idle"})
  <2>1. doing[o].step = "launch"
    BY <1>7 DEF Data!LaunchServer
  <2>2. Data!Goto(o, "bootstrap") \/ Data!Goto(o, "record") \/ Data!Goto(o, "idle")
    BY <1>7 DEF Data!LaunchServer
  <2> QED
    BY <1>1, <2>1, <2>2 DEF Between, DataSteps
<1>8. /\ Data!CreateDatabase(o) => Between(o, "bootstrap", {"record", "unmark", "idle"})
      /\ Data!RemoveMarker(o) => Between(o, "unmark", {"record", "idle"})
      /\ Data!RecordServer(o) => Between(o, "record", {"idle"})
      /\ Data!ShutDown(o) => Between(o, "find", {"forget", "idle"})
      /\ Data!RemoveRecord(o) => Between(o, "forget", {"idle"})
      /\ Data!KillOperator(o) => doing'[o].step = "idle"
  BY <1>1 DEF Between, DataSteps, Data!CreateDatabase, Data!RemoveMarker, Data!RecordServer, Data!ShutDown,
              Data!RemoveRecord, Data!KillOperator
<1> QED
  BY <1>2, <1>3, <1>4, <1>5, <1>6, <1>7, <1>8

\* As long as two commands have not met, the others are idle.
LEMMA Only ==
  ASSUME DataTypes, Alone, NEW o \in Operator, Acts(o), mishap' # "met"
  PROVE  \A q \in Operator : q # o => ~Data!Busy(q) /\ doing'[q] = doing[q]
<1>1. mishap # "met"
  BY Acting
<1>2. CASE Data!Busy(o)
  BY <1>1, <1>2, Moving DEF Alone
<1>3. CASE ~Data!Busy(o)
  BY <1>3, Moving
<1> QED
  BY <1>2, <1>3

\* What is there to be reset: no database, and none below the directory of earlier versions.
LEMMA Resettable ==
  ASSUME DataTypes, FormsInv, KeptInv, switches = 0, mishap # "met", NEW o \in Operator,
         Data!At(o, "check"), ~Data!LooksInitialized(doing[o].place, doing[o].target),
         Data!HasEntries(doing[o].place)
  PROVE  /\ disk[doing[o].place].form # "ready"
         /\ doing[o].place = Legacy => \A t \in Databases : disk[t].form # "ready"
<1> DEFINE p == doing[o].place
<1>1. doing[o].target = target /\ p \in {target, Legacy} /\ target \in Databases
  BY DEF KeptInv, DataTypes, Data!Busy, Data!At, Placed, Served
<1>2. ~(Data!Recognized(p) /\ (Data!IsPostgres(disk[p].of) <=> Data!IsPostgres(target)))
  BY <1>1 DEF Data!LooksInitialized
<1>3. CASE p = target
  <2>1. disk[p].form = "ready" => disk[p].of = target
    BY <1>1, <1>3 DEF KeptInv, Data!Filled
  <2>2. disk[p].form = "ready" => Data!Recognized(p)
    BY DEF Data!Recognized
  <2> QED
    BY <1>1, <1>2, <1>3, <2>1, <2>2, DataConstants
<1>4. CASE p = Legacy
  <2>1. ~Data!Filled(target) /\ (Data!Recognized(Legacy) => disk[Legacy].of.engine = target.engine)
    BY <1>4 DEF KeptInv
  <2>2. disk[p].form # "ready"
    BY <1>2, <1>4, <2>1 DEF Data!IsPostgres, Data!Recognized
  <2>3. ASSUME NEW t \in Databases PROVE disk[t].form # "ready"
    BY <2>1 DEF KeptInv, Data!Filled
  <2> QED
    BY <2>2, <2>3
<1> QED
  BY <1>1, <1>3, <1>4

LEMMA KeptStep ==
  DataTypes /\ Alone /\ FormsInv /\ KeptInv /\ [Data!DatabaseNext]_dataVars => KeptInv'
<1> SUFFICES ASSUME DataTypes, Alone, FormsInv, KeptInv, [Data!DatabaseNext]_dataVars,
                    switches' = 0, mishap' # "met"
             PROVE  KeptInv'
  BY DEF KeptInv
<1>1. ASSUME NEW o \in Operator, Acts(o) PROVE KeptInv'
  <2> DEFINE p == doing[o].place
  <2>1. /\ switches = 0 /\ mishap # "met" /\ target' = target /\ target \in Databases
        /\ \A q \in Operator : q # o => ~Data!Busy(q) /\ doing'[q] = doing[q]
    BY <1>1, Acting, Only DEF DataTypes
  <2>2. /\ \A t \in Databases : /\ disk[t].form # "absent" => t = target
                                /\ Data!Filled(t) => disk[t].of = t
        /\ Data!Busy(o) => doing[o].target = target
        /\ doing[o].step \in Placed => p \in {target, Legacy} /\ p \in Data!Place /\ Data!Busy(o)
    BY <2>1 DEF KeptInv, DataTypes, Placed, Served, Data!Busy
  <2>3. ASSUME NEW t \in Databases
        PROVE  (disk'[t].form # "absent" => t = target) /\ (Data!Filled(t)' => disk'[t].of = t)
    <3>1. CASE Data!ResetDataDir(o)
      <4>1. p \in {target, Legacy}
        BY <2>2, <3>1, Resetting DEF Placed
      <4> QED
        BY <2>2, <3>1, <4>1, Resetting, Directories, DataConstants DEF Data!Filled
    <3>2. CASE ~Data!ResetDataDir(o)
      <4>1. CASE UNCHANGED disk
        BY <2>2, <4>1 DEF Data!Filled
      <4>2. CASE ~UNCHANGED disk
        <5>1. PICK d \in Directory : /\ doing[o].step \in Placed
                                     /\ disk' = [disk EXCEPT ![p] = d] /\ Becomes(o, disk[p], d)
          BY <1>1, <3>2, <4>2, Disking
        <5>2. p \in {target, Legacy} /\ doing[o].target = target
          BY <2>2, <5>1
        <5>3. CASE t = p
          BY <2>2, <5>1, <5>2, <5>3, DataConstants DEF Becomes, Data!Filled, DataTypes
        <5>4. CASE t # p
          BY <2>2, <5>1, <5>4, DataConstants DEF Data!Filled, DataTypes
        <5> QED
          BY <5>3, <5>4
      <4> QED
        BY <4>1, <4>2
    <3> QED
      BY <3>1, <3>2
  <2>4. /\ Data!Busy(o)' => doing'[o].target = target
        /\ doing'[o].step \in Placed => doing'[o].place \in {target, Legacy}
    <3>1. doing[o].step = "resolve" => Data!Busy(o)
      BY DEF Data!Busy
    <3> QED
      BY <1>1, <2>2, <3>1, Moving, Resolving
  <2>5. ASSUME Data!At(o, "check")', doing'[o].place = Legacy
        PROVE  (~Data!Filled(target) /\ (Data!Recognized(Legacy) => disk[Legacy].of.engine = target.engine))'
    <3>1. Data!ResolveDataPath(o)
      BY <1>1, <2>5, StepTable DEF Acts, Between, Data!At
    <3>2. Legacy = Data!DataPath(target) /\ UNCHANGED disk
      BY <2>2, <2>5, <3>1, Resolving DEF Data!ResolveDataPath, Data!Busy
    <3>3. ~Data!HasEntries(target) /\ Data!Layout(Legacy) \in {"unknown", target.engine}
      BY <2>1, <3>2, DataConstants DEF Data!DataPath
    <3>4. ~Data!Filled(target)
      BY <3>3 DEF Data!HasEntries
    <3>5. ASSUME Data!Recognized(Legacy) PROVE disk[Legacy].of.engine = target.engine
      <4>1. disk[Legacy].of \in Databases
        BY <3>5, DataConstants DEF FormsInv, Data!Filled, Data!Recognized
      <4>2. disk[Legacy].of.engine # "unknown"
        BY <4>1, PartsAssumption DEF Data!DatabaseAssumption
      <4> QED
        BY <3>3, <3>5, <4>2 DEF Data!Layout
    <3> QED
      BY <2>1, <3>2, <3>4, <3>5 DEF Data!Filled, Data!Recognized
  <2>6. ASSUME Data!At(o, "reset")'
        PROVE  /\ disk'[doing'[o].place].form # "ready"
               /\ doing'[o].place = Legacy => \A t \in Databases : disk'[t].form # "ready"
    <3>1. Data!CheckInitialized(o)
      BY <1>1, <2>6, StepTable DEF Acts, Between, Data!At
    <3>2. Data!At(o, "check") /\ UNCHANGED disk /\ doing'[o].place = p
      <4>1. doing'[o].step \in Placed /\ ~Data!ResolveDataPath(o)
        BY <2>6, <3>1, StepTable DEF Placed, Data!At, Between
      <4> QED
        BY <1>1, <3>1, <4>1, Moving DEF Data!CheckInitialized
    <3>3. ~Data!LooksInitialized(p, doing[o].target) /\ Data!HasEntries(p)
      <4>1. \A label \in DataSteps : Data!Goto(o, label) => doing'[o].step = label
        BY Going DEF DataTypes
      <4> QED
        BY <2>6, <3>1, <4>1 DEF Data!CheckInitialized, Data!At, DataSteps
    <3> QED
      BY <2>1, <3>2, <3>3, Resettable
  <2>7. ASSUME NEW q \in Operator, q # o PROVE ~Data!Busy(q)' /\ doing'[q].step \notin Placed /\ ~Data!At(q, "check")'
                                              /\ ~Data!At(q, "reset")'
    BY <2>1, <2>7 DEF Data!Busy, Data!At, Placed, Served
  <2> QED
    BY <2>1, <2>3, <2>4, <2>5, <2>6, <2>7 DEF KeptInv
<1>2. CASE UNCHANGED <<doing, mishap, disk, target, switches>>
  BY <1>2 DEF KeptInv, Data!Busy, Data!At, Data!Filled, Data!Recognized
<1>3. Data!ServerEnds \/ UNCHANGED dataVars => UNCHANGED <<doing, mishap, disk, target, switches>>
  BY DEF Data!ServerEnds, Data!Config, dataVars
<1>4. ~Data!SwitchDatabase
  BY DEF Data!SwitchDatabase, DataTypes
<1> QED
  BY <1>1, <1>2, <1>3, <1>4 DEF Data!DatabaseNext, Acts

\* As long as engine and version stay and no commands meet, a step keeps every database.
LEMMA DataKept ==
  DataTypes /\ FormsInv /\ KeptInv /\ [Data!DatabaseNext]_dataVars => Data!DataKeptStep
<1> SUFFICES ASSUME DataTypes, FormsInv, KeptInv, [Data!DatabaseNext]_dataVars, switches = 0, mishap # "met"
             PROVE  \A p \in Data!Place : disk[p].form = "ready" => disk'[p].form = "ready"
  BY DEF Data!DataKeptStep, Data!KeepsData
<1>1. ASSUME NEW o \in Operator, Acts(o), NEW p \in Data!Place, disk[p].form = "ready"
      PROVE  disk'[p].form = "ready"
  <2>1. CASE Data!ResetDataDir(o)
    <3>1. /\ disk[doing[o].place].form # "ready"
          /\ doing[o].place = Legacy => \A t \in Databases : disk[t].form # "ready"
      BY <2>1, Resetting DEF KeptInv, Data!At
    <3> QED
      BY <1>1, <2>1, <3>1, Resetting, DataConstants
  <2>2. CASE ~Data!ResetDataDir(o)
    <3>1. CASE UNCHANGED disk
      BY <1>1, <3>1
    <3>2. CASE ~UNCHANGED disk
      <4>1. PICK d \in Directory : /\ disk' = [disk EXCEPT ![doing[o].place] = d]
                                   /\ Becomes(o, disk[doing[o].place], d)
        BY <1>1, <2>2, <3>2, Disking
      <4> QED
        BY <1>1, <4>1 DEF Becomes, DataTypes
    <3> QED
      BY <3>1, <3>2
  <2> QED
    BY <2>1, <2>2
<1>2. Data!ServerEnds \/ Data!SwitchDatabase \/ UNCHANGED dataVars => UNCHANGED disk
  BY DEF Data!ServerEnds, Data!SwitchDatabase, dataVars
<1> QED
  BY <1>1, <1>2 DEF Data!DatabaseNext, Acts

-----------------------------------------------------------------------------
(* The server, its cluster and the password, as long as nothing is cut      *)
(* short and no commands meet: one command acts, and what it knows is so.   *)

LEMMA SecretStep ==
  ASSUME DataTypes, NEW o \in Operator, Acts(o), SecretInv,
         \A q \in Operator : q # o => ~Data!Busy(q) /\ doing'[q] = doing[q]
  PROVE  /\ SecretInv'
         /\ secret # 0 => secret' = secret
         /\ doing[o].step \in Written => UNCHANGED <<secret, asset>>
<1> USE DEF Data!At
<1>0. /\ doing[o].step \in {"secret", "write"} => doing[o].password # 0 /\ secret \in {0, doing[o].password}
      /\ doing[o].step = "assets" => doing[o].password = secret /\ secret # 0
      /\ doing[o].step \in Written => asset[Data!FamilyOf(doing[o].target)] = secret /\ secret # 0
  BY DEF SecretInv
<1>1. ASSUME NEW q \in Operator, q # o PROVE doing'[q].step \notin Written \cup {"secret", "write", "assets"}
  BY <1>1 DEF Data!Busy, Written, Placed, Served
<1>2. /\ Data!TruncateCredentials(o) => doing[o].step = "secret"
      /\ Data!WriteCredentials(o) => doing[o].step = "write"
      /\ Data!WriteAssets(o) => doing[o].step = "assets"
  BY StepTable DEF Between
<1>3. /\ secret # 0 => secret' = secret
      /\ doing[o].step \in Written => UNCHANGED <<secret, asset>>
  BY <1>0, <1>2, SecretsStep DEF Written, Placed, Served
<1>4. ASSUME doing'[o].step = "secret" PROVE doing'[o].password # 0 /\ secret' \in {0, doing'[o].password}
  <2>1. Data!ReadCredentials(o)
    BY <1>4, StepTable DEF Acts, Between
  <2> QED
    BY <1>4, <2>1, Reading
<1>5. ASSUME doing'[o].step = "write" PROVE doing'[o].password # 0 /\ secret' \in {0, doing'[o].password}
  <2>1. Data!TruncateCredentials(o)
    BY <1>5, StepTable DEF Acts, Between
  <2>2. doing'[o].password = doing[o].password /\ UNCHANGED secret
    BY <2>1, Going DEF Data!TruncateCredentials, DataTypes, DataSteps
  <2> QED
    BY <1>0, <1>2, <2>1, <2>2
<1>6. ASSUME doing'[o].step = "assets" PROVE doing'[o].password = secret' /\ secret' # 0
  <2>1. Data!WriteCredentials(o)
    BY <1>6, StepTable DEF Acts, Between
  <2>2. ~Data!Goto(o, "idle")
    BY <1>6, Going DEF DataTypes, DataSteps
  <2>3. doing'[o].password = doing[o].password /\ secret' = doing[o].password
    BY <2>1, <2>2, Going DEF Data!WriteCredentials, DataTypes, DataSteps
  <2> QED
    BY <1>0, <1>2, <2>1, <2>3
<1>7. ASSUME doing'[o].step = "resolve" PROVE asset'[Data!FamilyOf(doing'[o].target)] = secret' /\ secret' # 0
  <2>1. Data!WriteAssets(o)
    BY <1>7, StepTable DEF Acts, Between
  <2>2. doing'[o].target = doing[o].target
    BY <2>1, Going DEF Data!WriteAssets, DataTypes, DataSteps
  <2>3. UNCHANGED secret /\ asset' = [asset EXCEPT ![Data!FamilyOf(doing[o].target)] = doing[o].password]
    BY <2>1 DEF Data!WriteAssets
  <2>4. asset'[Data!FamilyOf(doing[o].target)] = doing[o].password
    BY <2>3 DEF DataTypes, Data!FamilyOf, Data!Family
  <2> QED
    BY <1>0, <1>2, <2>1, <2>2, <2>3, <2>4
<1>8. ASSUME doing'[o].step \in Placed PROVE asset'[Data!FamilyOf(doing'[o].target)] = secret' /\ secret' # 0
  <2>1. doing[o].step \in Written /\ Data!Busy(o)
    BY <1>8, Moving DEF Written, Data!Busy, Placed, Served
  <2>2. doing'[o].target = doing[o].target
    BY <1>8, <2>1, Moving DEF Data!Busy, Placed, Served
  <2> QED
    BY <1>0, <1>3, <2>1, <2>2
<1>9. SecretInv'
  <2>1. ASSUME NEW q \in Operator, q # o
        PROVE  doing'[q].step \notin {"secret", "write"} /\ doing'[q].step # "assets" /\ doing'[q].step \notin Written
    BY <1>1, <2>1
  <2> QED
    BY <1>4, <1>5, <1>6, <1>7, <1>8, <2>1 DEF SecretInv, Written
<1> QED
  BY <1>3, <1>9

\* What a step makes of a directory: the action that it is of, and what it says.
Sound(p) ==
  /\ disk[p].pending => disk[p].form = "ready" /\ Data!IsPostgres(disk[p].of)
  /\ disk[p].form = "ready" /\ Data!IsPostgres(disk[p].of) => disk[p].password = secret /\ secret # 0

Whole(p, o) ==
  disk[p].form = "ready" /\ Data!IsPostgres(disk[p].of) =>
    disk[p].created \/ disk[p].pending \/ (Data!At(o, "mark") /\ doing[o].place = p)

LEMMA ClusterDirectories ==
  ASSUME DataTypes, FormsInv, ClusterInv, SecretInv, ServedInv, NEW o \in Operator, Acts(o), mishap' = "none",
         \A q \in Operator : q # o => ~Data!Busy(q) /\ doing'[q] = doing[q],
         NEW p \in Data!Place
  PROVE  (Sound(p) /\ Whole(p, o))'
<1> USE DEF Data!At
<1> DEFINE mine == doing[o].place
           t == doing[o].target
           old == disk[p]
           new == disk'[p]
<1>0. /\ Sound(p) /\ Whole(p, o)
      /\ doing[o].step \in Placed => mine \in Data!Place /\ t \in Databases
      /\ old \in Directory /\ disk \in [Data!Place -> Directory]
      /\ old.by # Nothing => old.form \in {"unknown", "recognizable"}
      /\ secret # 0 => secret' = secret
      /\ doing[o].step = "mark" => disk[mine].form = "ready" /\ Data!IsPostgres(disk[mine].of)
      /\ doing[o].step = "unmark" => disk[mine].created
      /\ doing[o].step \in Written => UNCHANGED <<secret, asset>>
      /\ doing[o].step \in Written => asset[Data!FamilyOf(t)] = secret /\ secret # 0
  <2>1. Whole(p, o)
    BY DEF ClusterInv, Whole, Data!Busy
  <2>2. Sound(p)
    BY DEF ClusterInv, Sound
  <2>3. doing[o].step \in Placed => mine \in Data!Place /\ t \in Databases
    BY DEF DataTypes, Data!Busy, Placed, Served
  <2>4. /\ secret # 0 => secret' = secret
        /\ doing[o].step \in Written => UNCHANGED <<secret, asset>>
    BY SecretStep
  <2>5. /\ old \in Directory /\ disk \in [Data!Place -> Directory]
        /\ old.by # Nothing => old.form \in {"unknown", "recognizable"}
        /\ doing[o].step = "mark" => disk[mine].form = "ready" /\ Data!IsPostgres(disk[mine].of)
        /\ doing[o].step = "unmark" => disk[mine].created
        /\ doing[o].step \in Written => asset[Data!FamilyOf(t)] = secret /\ secret # 0
    BY DEF DataTypes, FormsInv, ClusterInv, SecretInv
  <2> QED
    BY <2>1, <2>2, <2>3, <2>4, <2>5
<1>1. ASSUME new = old, ~(doing[o].step = "mark" /\ mine = p) PROVE (Sound(p) /\ Whole(p, o))'
  BY <1>0, <1>1 DEF Sound, Whole
<1>2. ASSUME new.form # "ready", ~new.pending PROVE (Sound(p) /\ Whole(p, o))'
  BY <1>2 DEF Sound, Whole
<1>3. CASE Data!ResetDataDir(o)
  BY <1>0, <1>1, <1>2, <1>3, Resetting, Directories
<1>4. CASE Data!CreateDataDir(o)
  <2>1. doing[o].step = "create" /\ mine \in Data!Place
    BY <1>0, <1>4 DEF Data!CreateDataDir, Placed, Served
  <2>2. disk' = [disk EXCEPT ![mine] = IF @.form = "absent" THEN Data!EmptyDirectory ELSE @]
    BY <1>4 DEF Data!CreateDataDir
  <2>3. new = old \/ new = Data!EmptyDirectory
    BY <1>0, <2>1, <2>2
  <2> QED
    BY <1>1, <1>2, <2>1, <2>3, Directories
<1>5. CASE Data!RunInitializer(o)
  <2>1. doing[o].step = "run" /\ doing[o].step \in Written /\ mine \in Data!Place /\ t \in Databases
    BY <1>0, <1>5 DEF Data!RunInitializer, Placed, Served, Written
  <2>2. CASE p # mine
    <3>1. new = old
      BY <1>0, <1>5, <2>2 DEF Data!RunInitializer
    <3> QED
      BY <1>1, <2>2, <3>1
  <2>3. CASE p = mine
    <3>1. CASE disk' = [disk EXCEPT ![mine] = [Data!EmptyDirectory EXCEPT !.of = t, !.form = "unknown", !.by = o]]
      <4> DEFINE d == [Data!EmptyDirectory EXCEPT !.of = t, !.form = "unknown", !.by = o]
      <4>1. d.form = "unknown" /\ ~d.pending
        BY Directories DEF Directory
      <4>2. new = d
        BY <1>0, <2>3, <3>1
      <4> QED
        BY <1>2, <4>1, <4>2
    <3>2. CASE old.form = "unknown" /\ disk' = [disk EXCEPT ![mine].form = "recognizable"]
      <4>1. new = [old EXCEPT !.form = "recognizable"]
        BY <1>0, <2>3, <3>2
      <4>2. ~old.pending
        BY <1>0, <3>2 DEF Sound
      <4> QED
        BY <1>0, <1>2, <4>1, <4>2 DEF Directory
    <3>3. CASE /\ disk' = [disk EXCEPT ![mine] = Data!Ready(t, FALSE, asset[Data!FamilyOf(t)])]
               /\ Data!Goto(o, IF Data!IsPostgres(t) THEN "mark" ELSE "launch")
      <4>1. new = Data!Ready(t, FALSE, asset[Data!FamilyOf(t)])
        BY <1>0, <2>3, <3>3
      <4>2. new.of = t /\ ~new.pending /\ new.password = secret /\ secret # 0 /\ secret' = secret
        BY <1>0, <2>1, <4>1 DEF Data!Ready
      <4>3. Data!IsPostgres(t) => doing'[o].step = "mark" /\ doing'[o].place = mine
        BY <3>3, Going DEF DataTypes, DataSteps
      <4> QED
        BY <2>3, <4>2, <4>3 DEF Sound, Whole
    <3>4. CASE UNCHANGED disk
      BY <1>1, <2>1, <3>4
    <3> QED
      BY <1>5, <2>3, <3>1, <3>2, <3>3, <3>4 DEF Data!RunInitializer
  <2> QED
    BY <2>2, <2>3
<1>6. CASE Data!InitializerFails(o)
  <2>1. doing[o].step = "run" /\ mine \in Data!Place
    BY <1>0, <1>6 DEF Data!InitializerFails, Placed, Served
  <2>2. disk[mine].by = o
        /\ disk' = [disk EXCEPT ![mine] = IF Data!IsPostgres(@.of) THEN Data!EmptyDirectory ELSE [@ EXCEPT !.by = Nothing]]
    BY <1>6 DEF Data!InitializerFails
  <2>3. CASE p # mine
    BY <1>0, <1>1, <2>2, <2>3
  <2>4. CASE p = mine
    <3>1. new = IF Data!IsPostgres(old.of) THEN Data!EmptyDirectory ELSE [old EXCEPT !.by = Nothing]
      BY <1>0, <2>2, <2>4
    <3>2. old.form # "ready" /\ ~old.pending
      BY <1>0, <2>2, <2>4, DataConstants DEF Sound
    <3> QED
      BY <1>0, <1>2, <3>1, <3>2, Directories DEF Directory
  <2> QED
    BY <2>3, <2>4
<1>7. CASE Data!MarkBootstrap(o)
  <2>1. doing[o].step = "mark" /\ mine \in Data!Place
    BY <1>0, <1>7 DEF Data!MarkBootstrap, Placed, Served
  <2>2. disk' = [disk EXCEPT ![mine].pending = TRUE]
    <3>1. ~Data!CutShort
      BY DEF Data!CutShort
    <3> QED
      BY <1>7, <3>1 DEF Data!MarkBootstrap
  <2>3. CASE p # mine
    BY <1>0, <1>1, <2>2, <2>3
  <2>4. CASE p = mine
    <3>1. new = [old EXCEPT !.pending = TRUE]
      BY <1>0, <2>2, <2>4
    <3>2. new.pending /\ new.form = old.form /\ new.of = old.of /\ new.password = old.password
      BY <1>0, <3>1 DEF Directory
    <3> QED
      BY <1>0, <2>1, <2>4, <3>2 DEF Sound, Whole
  <2> QED
    BY <2>3, <2>4
<1>8. CASE Data!LaunchServer(o)
  <2>1. doing[o].step = "launch" /\ mine \in Data!Place
    BY <1>0, <1>8 DEF Data!LaunchServer, Placed, Served
  <2>2. CASE UNCHANGED disk
    BY <1>1, <2>1, <2>2
  <2>3. CASE /\ disk' = [disk EXCEPT ![mine].created = TRUE, ![mine].password = asset["mysql"]]
             /\ ~Data!IsPostgres(t) /\ Data!Serves(t, mine)
    <3>1. CASE p # mine
      BY <1>0, <1>1, <2>3, <3>1
    <3>2. CASE p = mine
      <4>1. new = [old EXCEPT !.created = TRUE, !.password = asset["mysql"]]
        BY <1>0, <2>3, <3>2
      <4>2. ~Data!IsPostgres(old.of)
        BY <2>3, <3>2 DEF Data!Serves, Data!IsPostgres
      <4>3. new.form = old.form /\ new.of = old.of /\ new.pending = old.pending
        BY <1>0, <4>1 DEF Directory
      <4> QED
        BY <1>0, <4>2, <4>3 DEF Sound, Whole
    <3> QED
      BY <3>1, <3>2
  <2> QED
    BY <1>8, <2>2, <2>3 DEF Data!LaunchServer
<1>9. CASE Data!CreateDatabase(o)
  <2>1. doing[o].step = "bootstrap" /\ doing[o].step \in Placed \ {"mark"}
    BY <1>9 DEF Data!CreateDatabase, Placed, Served
  <2>2. CASE UNCHANGED disk
    BY <1>1, <2>1, <2>2
  <2>3. CASE disk' = [disk EXCEPT ![mine].created = TRUE]
    <3>1. CASE p # mine
      BY <1>0, <1>1, <2>3, <3>1
    <3>2. CASE p = mine
      <4>1. new = [old EXCEPT !.created = TRUE]
        BY <1>0, <2>3, <3>2
      <4>2. /\ new.form = old.form /\ new.of = old.of /\ new.password = old.password
            /\ new.created /\ new.pending = old.pending
        BY <1>0, <4>1 DEF Directory
      <4> QED
        BY <1>0, <4>2 DEF Sound, Whole
    <3> QED
      BY <3>1, <3>2
  <2> QED
    BY <1>9, <2>2, <2>3 DEF Data!CreateDatabase
<1>10. CASE Data!RemoveMarker(o)
  <2>1. doing[o].step = "unmark" /\ disk[mine].created
    BY <1>0, <1>10 DEF Data!RemoveMarker
  <2>2. CASE UNCHANGED disk
    BY <1>1, <2>1, <2>2
  <2>3. CASE disk' = [disk EXCEPT ![mine].pending = FALSE]
    <3>1. CASE p # mine
      BY <1>0, <1>1, <2>3, <3>1
    <3>2. CASE p = mine
      <4>1. new = [old EXCEPT !.pending = FALSE] /\ old.created
        BY <1>0, <2>1, <2>3, <3>2
      <4>2. /\ new.form = old.form /\ new.of = old.of /\ new.password = old.password
            /\ new.created /\ ~new.pending
        BY <1>0, <4>1 DEF Directory
      <4> QED
        BY <1>0, <4>2 DEF Sound, Whole
    <3> QED
      BY <3>1, <3>2
  <2> QED
    BY <1>10, <2>2, <2>3 DEF Data!RemoveMarker
<1>11. ~Data!KillOperator(o)
  BY DEF Data!KillOperator, Data!CutShort
<1>12. ASSUME ~Data!ResetDataDir(o), ~Data!CreateDataDir(o), ~Data!RunInitializer(o), ~Data!InitializerFails(o),
              ~Data!MarkBootstrap(o), ~Data!LaunchServer(o), ~Data!CreateDatabase(o), ~Data!RemoveMarker(o)
       PROVE  UNCHANGED disk /\ doing[o].step # "mark"
  <2>1. UNCHANGED disk
    BY <1>11, <1>12 DEF Acts, Data!Start, Data!Stop, Data!Begin, Data!LookForServer, Data!ReadCredentials,
         Data!TruncateCredentials, Data!WriteCredentials, Data!WriteAssets, Data!ResolveDataPath,
         Data!ProgramMissing, Data!CheckInitialized, Data!RecordServer, Data!ShutDown, Data!RemoveRecord
  <2>2. doing[o].step # "mark"
    BY <1>11, <1>12, StepTable DEF Acts, Between
  <2> QED
    BY <2>1, <2>2
<1>13. CASE UNCHANGED disk /\ doing[o].step # "mark"
  BY <1>1, <1>13
<1> QED
  BY <1>3, <1>4, <1>5, <1>6, <1>7, <1>8, <1>9, <1>10, <1>12, <1>13

LEMMA ClusterCommands ==
  ASSUME DataTypes, FormsInv, ClusterInv, SecretInv, ServedInv, NEW o \in Operator, Acts(o), mishap' = "none",
         \A q \in Operator : q # o => ~Data!Busy(q) /\ doing'[q] = doing[q]
  PROVE  (LET d == disk[doing[o].place]
          IN  /\ Data!At(o, "mark") => d.form = "ready" /\ Data!IsPostgres(d.of)
              /\ doing[o].step \in {"bootstrap", "unmark"} => Data!IsPostgres(doing[o].target)
              /\ Data!At(o, "unmark") => d.created
              /\ Data!At(o, "record") => d.created /\ ~d.pending /\ d.password = secret)'
<1> USE DEF Data!At
<1> DEFINE mine == doing[o].place
           t == doing[o].target
<1>0. /\ doing[o].step \in Placed => mine \in Data!Place /\ t \in Databases /\ disk[mine] \in Directory
      /\ disk \in [Data!Place -> Directory] /\ doing \in [Operator -> Doing]
      /\ doing[o].step \in {"bootstrap", "unmark"} => Data!IsPostgres(t)
      /\ doing[o].step = "unmark" => disk[mine].created
      /\ doing[o].step \in Written => /\ UNCHANGED <<secret, asset>>
                                      /\ asset[Data!FamilyOf(t)] = secret
      /\ doing[o].step \in Served => Data!Serves(t, mine)
  BY SecretStep DEF DataTypes, ClusterInv, SecretInv, ServedInv, Data!Busy, Placed, Served
<1>1. ASSUME NEW p \in Data!Place, Data!Serves(t, p)
      PROVE  /\ ~Data!IsPostgres(t) => ~disk[p].pending
             /\ Data!IsPostgres(t) => /\ disk[p].password = secret
                                      /\ disk[p].created \/ disk[p].pending \/ doing[o].step = "mark"
  BY <1>1 DEF Data!Serves, ClusterInv, Data!IsPostgres, Data!Busy
<1>2. ASSUME NEW label \in DataSteps, Data!Goto(o, label)
      PROVE  doing'[o].step = label /\ (label # "idle" => doing'[o].place = mine /\ doing'[o].target = t)
  BY <1>0, <1>2, Going
<1>3. ASSUME doing'[o].step = "mark"
      PROVE  disk'[doing'[o].place].form = "ready" /\ Data!IsPostgres(disk'[doing'[o].place].of)
  <2>1. Data!RunInitializer(o) /\ doing[o].step = "run" /\ doing[o].step \in Placed
    BY <1>3, StepTable DEF Acts, Between, Placed
  <2>2. ~UNCHANGED doing /\ ~Data!Goto(o, "idle")
    BY <1>2, <1>3, <2>1 DEF DataSteps
  <2>3. disk' = [disk EXCEPT ![mine] = Data!Ready(t, FALSE, asset[Data!FamilyOf(t)])]
        /\ Data!Goto(o, IF Data!IsPostgres(t) THEN "mark" ELSE "launch")
    BY <2>1, <2>2 DEF Data!RunInitializer
  <2>4. Data!IsPostgres(t) /\ doing'[o].place = mine
    BY <1>2, <1>3, <2>3 DEF DataSteps
  <2>5. disk'[mine] = Data!Ready(t, FALSE, asset[Data!FamilyOf(t)])
    BY <1>0, <2>1, <2>3
  <2> QED
    BY <2>4, <2>5 DEF Data!Ready
<1>4. ASSUME doing'[o].step \in {"bootstrap", "unmark"} PROVE Data!IsPostgres(doing'[o].target)
  <2>1. CASE Data!LaunchServer(o)
    <3>1. Data!Goto(o, IF Data!IsPostgres(t) THEN "bootstrap" ELSE "record")
      BY <1>2, <1>4, <2>1 DEF Data!LaunchServer, DataSteps
    <3> QED
      BY <1>2, <1>4, <3>1 DEF DataSteps
  <2>2. CASE Data!CreateDatabase(o)
    <3>1. doing[o].step = "bootstrap" /\ (Data!Goto(o, "record") \/ Data!Goto(o, "unmark") \/ Data!Goto(o, "idle"))
      BY <2>2 DEF Data!CreateDatabase
    <3> QED
      BY <1>0, <1>2, <1>4, <3>1 DEF DataSteps
  <2> QED
    BY <1>4, <2>1, <2>2, StepTable DEF Acts, Between
<1>5. ASSUME doing'[o].step = "unmark" PROVE disk'[doing'[o].place].created
  <2>1. Data!CreateDatabase(o) /\ doing[o].step = "bootstrap" /\ doing[o].step \in Placed
    BY <1>5, StepTable DEF Acts, Between, Placed, Served
  <2>2. ~Data!Goto(o, "record") /\ ~Data!Goto(o, "idle")
    BY <1>2, <1>5 DEF DataSteps
  <2>3. disk' = [disk EXCEPT ![mine].created = TRUE] /\ Data!Goto(o, "unmark")
    BY <2>1, <2>2 DEF Data!CreateDatabase
  <2>4. doing'[o].place = mine
    BY <1>2, <2>3 DEF DataSteps
  <2>5. disk'[mine] = [disk[mine] EXCEPT !.created = TRUE]
    BY <1>0, <2>1, <2>3
  <2> QED
    BY <1>0, <2>1, <2>4, <2>5 DEF Directory
<1>6. ASSUME doing'[o].step = "record"
      PROVE  /\ disk'[doing'[o].place].created /\ ~disk'[doing'[o].place].pending
             /\ disk'[doing'[o].place].password = secret'
  <2>1. CASE Data!LaunchServer(o)
    <3>1. doing[o].step = "launch" /\ doing[o].step \in Placed /\ doing[o].step \in Written
      BY <2>1 DEF Data!LaunchServer, Placed, Written
    <3>2. ~Data!Goto(o, "idle")
      BY <1>2, <1>6 DEF DataSteps
    <3>3. /\ Data!Serves(t, mine) /\ Data!Goto(o, IF Data!IsPostgres(t) THEN "bootstrap" ELSE "record")
          /\ disk' = IF Data!IsPostgres(t) THEN disk
                     ELSE [disk EXCEPT ![mine].created = TRUE, ![mine].password = asset["mysql"]]
      BY <2>1, <3>2 DEF Data!LaunchServer
    <3>4. ~Data!IsPostgres(t) /\ doing'[o].place = mine
      BY <1>2, <1>6, <3>3 DEF DataSteps
    <3>5. disk'[mine] = [disk[mine] EXCEPT !.created = TRUE, !.password = asset["mysql"]]
      BY <1>0, <3>1, <3>3, <3>4
    <3>6. asset["mysql"] = secret /\ secret' = secret
      BY <1>0, <3>1, <3>4 DEF Data!FamilyOf
    <3>7. ~disk[mine].pending
      BY <1>0, <1>1, <3>1, <3>3, <3>4
    <3> QED
      BY <1>0, <3>1, <3>4, <3>5, <3>6, <3>7 DEF Directory
  <2>2. CASE Data!CreateDatabase(o)
    <3>1. doing[o].step = "bootstrap" /\ doing[o].step \in Placed /\ doing[o].step \in Written
          /\ doing[o].step \in Served
      BY <2>2 DEF Data!CreateDatabase, Placed, Written, Served
    <3>2. ~Data!Goto(o, "idle") /\ ~Data!Goto(o, "unmark")
      BY <1>2, <1>6 DEF DataSteps
    <3>3. ~disk[mine].pending /\ Data!Goto(o, "record") /\ UNCHANGED disk
      BY <2>2, <3>2 DEF Data!CreateDatabase
    <3>4. Data!IsPostgres(t) /\ Data!Serves(t, mine) /\ doing'[o].place = mine
      BY <1>0, <1>2, <3>1, <3>3 DEF DataSteps
    <3>5. disk[mine].password = secret /\ disk[mine].created /\ UNCHANGED secret
      BY <1>0, <1>1, <3>1, <3>3, <3>4
    <3> QED
      BY <3>3, <3>4, <3>5
  <2>3. CASE Data!RemoveMarker(o)
    <3>1. doing[o].step = "unmark" /\ doing[o].step \in Placed /\ doing[o].step \in Written
          /\ doing[o].step \in Served
      BY <2>3 DEF Data!RemoveMarker, Placed, Written, Served
    <3>2. ~Data!Goto(o, "idle")
      BY <1>2, <1>6 DEF DataSteps
    <3>3. disk' = [disk EXCEPT ![mine].pending = FALSE] /\ Data!Goto(o, "record")
      BY <2>3, <3>2 DEF Data!RemoveMarker
    <3>4. doing'[o].place = mine /\ disk[mine].password = secret /\ disk[mine].created /\ UNCHANGED secret
      BY <1>0, <1>1, <1>2, <3>1, <3>3 DEF DataSteps
    <3>5. disk'[mine] = [disk[mine] EXCEPT !.pending = FALSE]
      BY <1>0, <3>1, <3>3
    <3> QED
      BY <1>0, <3>1, <3>4, <3>5 DEF Directory
  <2> QED
    BY <1>6, <2>1, <2>2, <2>3, StepTable DEF Acts, Between
<1> QED
  BY <1>3, <1>4, <1>5, <1>6

LEMMA ServedStep ==
  ASSUME DataTypes, FormsInv, ClusterInv, SecretInv, ServedInv, NEW o \in Operator, Acts(o), mishap' = "none",
         \A q \in Operator : q # o => ~Data!Busy(q) /\ doing'[q] = doing[q]
  PROVE  ServedInv'
<1> USE DEF Data!At
<1> DEFINE mine == doing[o].place
           t == doing[o].target
<1>0. /\ doing \in [Operator -> Doing] /\ disk \in [Data!Place -> Directory]
      /\ doing[o].step \in Placed => mine \in Data!Place /\ t \in Databases
      /\ server \in {Nothing} \cup [place : Data!Place, target : Databases]
      /\ record = "live" => server # Nothing /\ UsableServer
      /\ record # "live" /\ server # Nothing => doing[o].step \in Served
      /\ doing[o].step \in Starting \cup {"forget"} => record # "live"
      /\ doing[o].step \in Served => /\ server \in {Nothing, [place |-> mine, target |-> t]}
                                     /\ Data!Serves(t, mine)
  <2>1. \A q \in Operator : q # o => doing[q].step \notin Served
    BY DEF Data!Busy, Served
  <2> QED
    BY <2>1 DEF DataTypes, ServedInv, Data!Busy, Placed, Served
<1>1. ~Data!KillOperator(o)
  BY DEF Data!KillOperator, Data!CutShort
<1>2. \A q \in Operator : q # o => doing'[q].step \notin Starting \cup Served \cup {"forget"}
  BY DEF Data!Busy, Starting, Written, Placed, Served
\* A server goes on serving, but for a reset.
<1>3. ASSUME NEW u \in Databases, NEW p \in Data!Place, Data!Serves(u, p), ~Data!ResetDataDir(o)
      PROVE  Data!Serves(u, p)'
  <2>1. CASE UNCHANGED disk
    BY <1>3, <2>1 DEF Data!Serves
  <2>2. CASE ~UNCHANGED disk
    <3>1. PICK d \in Directory : disk' = [disk EXCEPT ![mine] = d] /\ Becomes(o, disk[mine], d)
      BY <1>3, <2>2, Disking
    <3>2. disk'[p].form = "ready" /\ disk'[p].of = disk[p].of
      BY <1>0, <1>3, <3>1 DEF Becomes, Data!Serves
    <3> QED
      BY <1>3, <3>2 DEF Data!Serves
  <2> QED
    BY <2>1, <2>2
\* A command that did not start leaves the disk and the files with the password alone.
<1>4. doing[o].step \notin Starting => UNCHANGED <<disk, secret, asset>>
  <2>1. /\ Data!TruncateCredentials(o) => doing[o].step \in Starting
        /\ Data!WriteCredentials(o) => doing[o].step \in Starting
        /\ Data!WriteAssets(o) => doing[o].step \in Starting
        /\ Data!ResetDataDir(o) => doing[o].step \in Starting
    BY StepTable DEF Between, Starting, Written, Placed
  <2>2. doing[o].step \in Placed => doing[o].step \in Starting
    BY DEF Starting, Written
  <2> QED
    BY <2>1, <2>2, SecretsStep, Disking
<1>5. record' = "live" =>
        \/ record = "live" /\ UNCHANGED server
        \/ Data!RecordServer(o) /\ UNCHANGED server /\ server # Nothing
  <2>1. Data!LookForServer(o) => record' # "live" \/ UNCHANGED record
    BY DEF Data!LookForServer
  <2>2. Data!LaunchServer(o) => record # "live"
    <3>1. Data!LaunchServer(o) => doing[o].step \in Starting
      BY StepTable DEF Between, Starting, Written, Placed
    <3> QED
      BY <1>0, <3>1
  <2>3. Data!KillServer => record' # "live"
    BY DEF Data!KillServer
  <2> QED
    BY <1>1, <2>1, <2>2, <2>3, ServerStep
<1>6. record' = "live" => server' # Nothing /\ UsableServer'
  <2>1. CASE record = "live" /\ UNCHANGED server
    <3>1. UNCHANGED <<disk, secret, asset>>
      BY <1>0, <1>4, <2>1
    <3> QED
      BY <1>0, <2>1, <3>1 DEF UsableServer, Data!Serves
  <2>2. CASE Data!RecordServer(o) /\ UNCHANGED server /\ server # Nothing
    <3>1. doing[o].step = "record" /\ UNCHANGED <<disk, secret, asset>>
      BY <2>2 DEF Data!RecordServer, Data!Secrets
    <3>2. /\ disk[mine].created /\ ~disk[mine].pending /\ disk[mine].password = secret
          /\ asset[Data!FamilyOf(t)] = secret
      BY <3>1 DEF ClusterInv, SecretInv, Written, Placed, Served
    <3>3. server = [place |-> mine, target |-> t] /\ Data!Serves(t, mine)
      BY <1>0, <2>2, <3>1 DEF Served
    <3>4. server.place = mine /\ server.target = t
      BY <3>3
    <3>5. UsableServer
      BY <3>2, <3>3, <3>4 DEF UsableServer
    <3> QED
      BY <2>2, <3>1, <3>5 DEF UsableServer, Data!Serves
  <2> QED
    BY <1>5, <2>1, <2>2
<1>7. record' # "live" /\ server' # Nothing => doing'[o].step \in Served
  <2>1. CASE doing[o].step \in Served
    <3>1. ASSUME server' # Nothing, record' # "live" PROVE doing'[o].step \in Served
      <4>1. ~Data!KillServer
        BY <3>1 DEF Data!KillServer
      <4>2. CASE Data!CreateDatabase(o)
        <5>1. Data!Goto(o, "record") \/ Data!Goto(o, "unmark")
          BY <4>1, <4>2 DEF Data!CreateDatabase
        <5> QED
          BY <1>0, <5>1, Going DEF DataSteps, Served
      <4>3. CASE Data!RemoveMarker(o)
        <5>1. Data!Goto(o, "record")
          BY <4>1, <4>3 DEF Data!RemoveMarker
        <5> QED
          BY <1>0, <5>1, Going DEF DataSteps, Served
      <4>4. CASE Data!RecordServer(o)
        BY <3>1, <4>1, <4>4 DEF Data!RecordServer
      <4> QED
        BY <1>1, <2>1, <4>2, <4>3, <4>4, StepTable DEF Acts, Between, Served
    <3> QED
      BY <3>1
  <2>2. CASE doing[o].step \notin Served
    <3>1. CASE Data!LaunchServer(o)
      <4>1. server' # Nothing => Data!Goto(o, "bootstrap") \/ Data!Goto(o, "record")
        <5>1. doing[o].step \in Starting
          BY <3>1 DEF Data!LaunchServer, Starting, Written, Placed
        <5>2. server = Nothing
          BY <1>0, <2>2, <5>1
        <5> QED
          BY <3>1, <5>2 DEF Data!LaunchServer
      <4> QED
        BY <1>0, <4>1, Going DEF DataSteps, Served
    <3>2. CASE ~Data!LaunchServer(o)
      <4>1. server' = server \/ server' = Nothing
        BY <3>2, ServerStep DEF Data!KillServer
      <4>2. record = "live" /\ record' # "live" => server' = Nothing
        <5>1. Data!LookForServer(o) => record # "live" \/ UNCHANGED record
          BY DEF Data!LookForServer
        <5>2. Data!RemoveRecord(o) => record # "live"
          BY <1>0 DEF Data!RemoveRecord
        <5>3. Data!ShutDown(o) => record # "live" \/ UNCHANGED record \/ Data!KillServer
          BY DEF Data!ShutDown, Data!Runtime
        <5>4. Data!RecordServer(o) => doing[o].step \in Served
          BY StepTable DEF Between, Served
        <5>5. Data!KillServer => server' = Nothing
          BY DEF Data!KillServer
        <5> QED
          BY <2>2, <3>2, <5>1, <5>2, <5>3, <5>4, <5>5, ServerStep
      <4> QED
        BY <1>0, <2>2, <4>1, <4>2
    <3> QED
      BY <3>1, <3>2
  <2> QED
    BY <2>1, <2>2
<1>8. doing'[o].step \in Starting \cup {"forget"} => record' # "live"
  <2>1. ASSUME doing'[o].step \in Starting \cup {"forget"} PROVE record' # "live"
    <3>1. ~Data!RecordServer(o) /\ ~Data!Start(o) /\ ~Data!Stop(o)
      BY <2>1, StepTable DEF Between, Starting, Written, Placed, Served
    <3>2. CASE doing[o].step \in Starting \cup {"forget"}
      BY <1>0, <1>5, <3>1, <3>2
    <3>3. CASE Data!LookForServer(o)
      <4>1. ~Data!Goto(o, "idle")
        BY <1>0, <2>1, Going DEF DataSteps, Starting, Written, Placed, Served
      <4> QED
        BY <3>3, <4>1 DEF Data!LookForServer
    <3>4. CASE Data!ShutDown(o)
      <4>1. ~Data!Goto(o, "idle")
        BY <1>0, <2>1, Going DEF DataSteps, Starting, Written, Placed, Served
      <4> QED
        BY <3>4, <4>1 DEF Data!ShutDown, Data!KillServer
    <3> QED
      BY <1>1, <3>1, <3>2, <3>3, <3>4, StepTable DEF Acts, Between, Starting, Written, Placed, Served
  <2> QED
    BY <2>1
<1>9. ASSUME doing'[o].step \in Served
      PROVE  /\ server' \in {Nothing, [place |-> doing'[o].place, target |-> doing'[o].target]}
             /\ Data!Serves(doing[o].target, doing[o].place)'
  <2>1. Data!LaunchServer(o) \/ Data!CreateDatabase(o) \/ Data!RemoveMarker(o)
    BY <1>1, <1>9, StepTable DEF Acts, Between, Served
  <2>2. /\ Data!LaunchServer(o) => doing[o].step = "launch"
        /\ Data!CreateDatabase(o) => doing[o].step = "bootstrap"
        /\ Data!RemoveMarker(o) => doing[o].step = "unmark"
        /\ ~Data!ResetDataDir(o)
    BY <1>9, StepTable DEF Between, Served
  <2>3. doing[o].step \in Placed /\ doing[o].step # "resolve" /\ Data!Busy(o)
    BY <2>1, <2>2 DEF Placed, Served, Data!Busy
  <2>4. Data!Busy(o)' /\ doing'[o].step \in Placed
    BY <1>9 DEF Placed, Served, Data!Busy
  <2>5. PICK p \in Data!Place, u \in Databases :
          p = mine /\ u = t /\ doing'[o].place = p /\ doing'[o].target = u
    BY <1>0, <2>3, <2>4, Moving
  <2>6. ASSUME Data!Serves(u, p), server' \in {Nothing, [place |-> p, target |-> u]}
        PROVE  /\ server' \in {Nothing, [place |-> doing'[o].place, target |-> doing'[o].target]}
               /\ Data!Serves(doing[o].target, doing[o].place)'
    <3>1. Data!Serves(u, p)'
      BY <1>3, <2>2, <2>6
    <3> QED
      BY <2>5, <2>6, <3>1 DEF Data!Serves
  <2>7. CASE Data!LaunchServer(o)
    <3>1. ~Data!Goto(o, "idle")
      BY <1>0, <1>9, Going DEF DataSteps, Served
    <3>2. server' = [place |-> mine, target |-> t] /\ Data!Serves(t, mine)
      BY <2>7, <3>1 DEF Data!LaunchServer
    <3> QED
      BY <2>5, <2>6, <3>2
  <2>8. CASE Data!CreateDatabase(o) \/ Data!RemoveMarker(o)
    <3>1. doing[o].step \in Served /\ ~Data!LaunchServer(o)
      BY <2>2, <2>8 DEF Served
    <3>2. server' = server \/ server' = Nothing
      BY <3>1, ServerStep DEF Data!KillServer
    <3> QED
      BY <1>0, <2>5, <2>6, <3>1, <3>2
  <2> QED
    BY <2>1, <2>7, <2>8
<1>10. ASSUME NEW q \in Operator, q # o
       PROVE  doing'[q].step \notin Served /\ doing'[q].step \notin Starting \cup {"forget"}
  BY <1>2, <1>10
<1> QED
  BY <1>6, <1>7, <1>8, <1>9, <1>10 DEF ServedInv

LEMMA UsableStep ==
  DataTypes /\ Alone /\ FormsInv /\ UsableInv /\ [Data!DatabaseNext]_dataVars => UsableInv'
<1> SUFFICES ASSUME DataTypes, Alone, FormsInv, UsableInv, [Data!DatabaseNext]_dataVars, mishap' = "none"
             PROVE  (ServedInv /\ ClusterInv /\ SecretInv)'
  BY DEF UsableInv
<1>1. ASSUME NEW o \in Operator, Acts(o) PROVE (ServedInv /\ ClusterInv /\ SecretInv)'
  <2>1. ServedInv /\ ClusterInv /\ SecretInv
    BY <1>1, Acting DEF UsableInv
  <2>2. \A q \in Operator : q # o => ~Data!Busy(q) /\ doing'[q] = doing[q]
    BY <1>1, Only
  <2>3. ServedInv' /\ SecretInv'
    BY <1>1, <2>1, <2>2, ServedStep, SecretStep
  <2>4. \A p \in Data!Place : (Sound(p) /\ Whole(p, o))'
    BY <1>1, <2>1, <2>2, ClusterDirectories
  <2>5. (LET d == disk[doing[o].place]
         IN  /\ Data!At(o, "mark") => d.form = "ready" /\ Data!IsPostgres(d.of)
             /\ doing[o].step \in {"bootstrap", "unmark"} => Data!IsPostgres(doing[o].target)
             /\ Data!At(o, "unmark") => d.created
             /\ Data!At(o, "record") => d.created /\ ~d.pending /\ d.password = secret)'
    BY <1>1, <2>1, <2>2, ClusterCommands
  <2>6. ASSUME NEW q \in Operator, q # o PROVE doing'[q].step = "idle"
    BY <2>2, <2>6 DEF Data!Busy
  <2>7. ClusterInv'
    BY <2>4, <2>5, <2>6 DEF ClusterInv, Sound, Whole, Data!At
  <2> QED
    BY <2>3, <2>7
<1>2. CASE Data!ServerEnds
  <2>1. /\ server' = Nothing /\ record' # "live" /\ (record # "live" => record' # "live")
        /\ UNCHANGED <<disk, doing, secret, asset, mishap>>
    BY <1>2 DEF Data!ServerEnds, Data!KillServer, Data!Config, Data!Secrets
  <2>2. ServedInv /\ ClusterInv /\ SecretInv
    BY <2>1 DEF UsableInv
  <2> QED
    BY <2>1, <2>2 DEF ServedInv, ClusterInv, SecretInv, Data!At, Data!Serves
<1>3. CASE UNCHANGED <<disk, doing, secret, asset, server, record, mishap>>
  <2>1. ServedInv /\ ClusterInv /\ SecretInv
    BY <1>3 DEF UsableInv
  <2> QED
    BY <1>3, <2>1 DEF ServedInv, ClusterInv, SecretInv, Data!At, Data!Serves, UsableServer
<1>4. Data!SwitchDatabase \/ UNCHANGED dataVars
      => UNCHANGED <<disk, doing, secret, asset, server, record, mishap>>
  BY DEF Data!SwitchDatabase, Data!Secrets, Data!Runtime, dataVars
<1> QED
  BY <1>1, <1>2, <1>3, <1>4 DEF Data!DatabaseNext, Acts

LEMMA DataInitInv == Data!DatabaseInit => DataInv
<1> SUFFICES ASSUME Data!DatabaseInit PROVE DataInv
  OBVIOUS
<1>1. /\ Data!Unoccupied \in Doing /\ Data!Unoccupied.step = "idle"
      /\ doing = [o \in Operator |-> Data!Unoccupied]
      /\ \A o \in Operator : doing[o].step = "idle"
      /\ server = Nothing /\ record = "absent" /\ mishap = "none" /\ torn = FALSE
      /\ target \in Databases /\ switches = 0
  <2>1. Data!Unoccupied \in Doing /\ Data!Unoccupied.step = "idle"
    BY Unoccupying
  <2>2. /\ doing = [o \in Operator |-> Data!Unoccupied]
        /\ server = Nothing /\ record = "absent" /\ mishap = "none" /\ torn = FALSE
        /\ target \in Databases /\ switches = 0
    BY DEF Data!DatabaseInit
  <2> QED
    BY <2>1, <2>2
<1>2. /\ secret \in Nat /\ drawn \in Nat /\ asset = [f \in Data!Family |-> secret]
      /\ disk \in [Data!Place -> Directory]
      /\ \A t \in Databases : disk[t] = Data!NoDirectory
      /\ \/ disk[Legacy] = Data!NoDirectory
         \/ secret = 1 /\ \E t \in Databases : disk[Legacy] = Data!Ready(t, TRUE, 1)
  <2>1. CASE disk = [p \in Data!Place |-> Data!NoDirectory] /\ secret = 0 /\ drawn = 0
    BY <2>1, Directories, DataConstants DEF Data!DatabaseInit
  <2>2. CASE secret = 1 /\ drawn = 1
             /\ \E t \in Databases : disk = [p \in Data!Place |-> IF p = Legacy THEN Data!Ready(t, TRUE, 1)
                                                                  ELSE Data!NoDirectory]
    <3>1. PICK t \in Databases : disk = [p \in Data!Place |-> IF p = Legacy THEN Data!Ready(t, TRUE, 1)
                                                              ELSE Data!NoDirectory]
      BY <2>2
    <3>2. Data!Ready(t, TRUE, 1) \in Directory
      BY Directories
    <3> QED
      BY <2>2, <3>1, <3>2, Directories, DataConstants DEF Data!DatabaseInit
  <2> QED
    BY <2>1, <2>2 DEF Data!DatabaseInit
<1>3. \A o \in Operator : doing[o].step \notin Starting \cup Served \cup Placed \cup {"forget"}
  BY <1>1 DEF Starting, Written, Placed, Served
<1>4. DataTypes
  BY <1>1, <1>2, <1>3 DEF DataTypes, Data!Busy
<1>5. ASSUME NEW p \in Data!Place
      PROVE  /\ disk[p].by = Nothing /\ ~disk[p].pending
             /\ disk[p].form \in {"absent", "ready"}
             /\ disk[p].form = "ready" => /\ p = Legacy /\ disk[p].of \in Databases
                                          /\ disk[p].created /\ disk[p].password = secret /\ secret # 0
  <2>1. CASE disk[p] = Data!NoDirectory
    BY <2>1 DEF Data!NoDirectory
  <2>2. CASE p = Legacy /\ secret = 1 /\ \E t \in Databases : disk[p] = Data!Ready(t, TRUE, 1)
    <3>1. PICK t \in Databases : disk[p] = Data!Ready(t, TRUE, 1)
      BY <2>2
    <3> QED
      BY <2>2, <3>1 DEF Data!Ready
  <2> QED
    BY <1>2, <2>1, <2>2, DataConstants
<1>6. FormsInv
  BY <1>5 DEF FormsInv, Data!Filled
<1>7. Alone
  BY <1>1 DEF Alone, Data!Busy
<1>8. KeptInv
  BY <1>1, <1>2, <1>3, Directories DEF KeptInv, Data!Busy, Data!At, Data!Filled
<1>9. ServedInv /\ SecretInv
  BY <1>1, <1>3 DEF ServedInv, SecretInv, Data!At, Starting
<1>10. ClusterInv
  <2>1. ASSUME NEW p \in Data!Place
        PROVE  ~disk[p].pending /\ (disk[p].form = "ready" => disk[p].password = secret /\ secret # 0 /\ disk[p].created)
    BY <1>5
  <2> QED
    BY <1>1, <2>1 DEF ClusterInv, Data!At
<1> QED
  BY <1>4, <1>6, <1>7, <1>8, <1>9, <1>10 DEF DataInv, UsableInv

LEMMA DataStep == DataInv /\ [Data!DatabaseNext]_dataVars => DataInv'
  BY DataTypesStep, AloneStep, FormsStep, KeptStep, UsableStep DEF DataInv

-----------------------------------------------------------------------------
(* The bounds of the database's specification: no password is newer than the *)
(* last one that was drawn.                                                  *)

RecordBound == record \in {"absent", "dead", "live"} /\ (record = "live" => server # Nothing)
SecretBound ==
  /\ switches <= MaxSwitches /\ drawn <= MaxPasswords + 1 /\ secret <= drawn
  /\ \A f \in Data!Family : asset[f] <= drawn
DiskBound == \A p \in Data!Place : disk[p].password <= drawn
DoingBound ==
  \A o \in Operator : /\ doing[o].password <= drawn
                      /\ doing[o].step = "idle" => doing[o] = Data!Unoccupied
DataBounds == DataTypes /\ RecordBound /\ SecretBound /\ DiskBound /\ DoingBound

LEMMA BoundsBegin == Data!DatabaseInit /\ DataTypes => DataBounds
<1> SUFFICES ASSUME Data!DatabaseInit, DataTypes PROVE DataBounds
  OBVIOUS
<1>1. MaxSwitches \in Nat /\ MaxPasswords \in Nat
  BY PartsAssumption DEF Data!DatabaseAssumption
<1>2. /\ switches = 0 /\ record = "absent" /\ asset = [f \in Data!Family |-> secret]
      /\ doing = [o \in Operator |-> Data!Unoccupied]
      /\ secret = drawn /\ drawn \in {0, 1}
  BY DEF Data!DatabaseInit
<1>3. DiskBound
  <2>1. CASE disk = [p \in Data!Place |-> Data!NoDirectory]
    BY <1>2, <2>1 DEF DiskBound, Data!NoDirectory
  <2>2. ASSUME NEW t \in Databases, drawn = 1,
               disk = [p \in Data!Place |-> IF p = Legacy THEN Data!Ready(t, TRUE, 1) ELSE Data!NoDirectory]
        PROVE  DiskBound
    BY <2>2 DEF DiskBound, Data!NoDirectory, Data!Ready
  <2> QED
    BY <2>1, <2>2 DEF Data!DatabaseInit
<1>4. DoingBound
  BY <1>2 DEF DoingBound, Data!Unoccupied
<1>5. SecretBound /\ RecordBound
  BY <1>1, <1>2 DEF SecretBound, RecordBound
<1> QED
  BY <1>3, <1>4, <1>5 DEF DataBounds

\* A command reads the credentials, writes them, and writes the files; nothing else draws.
LEMMA SecretsBound ==
  ASSUME DataBounds, NEW o \in Operator, Acts(o)
  PROVE  SecretBound' /\ drawn' \in Nat /\ drawn <= drawn'
<1>1. /\ MaxSwitches \in Nat /\ MaxPasswords \in Nat
      /\ drawn \in Nat /\ secret \in Nat /\ asset \in [Data!Family -> Nat]
      /\ doing \in [Operator -> Doing] /\ doing[o].password \in Nat /\ doing[o].password <= drawn
  BY PartsAssumption DEF Data!DatabaseAssumption, DataBounds, DataTypes, DoingBound, Doing
<1>2. CASE Data!ReadCredentials(o)
  <2>1. /\ \/ drawn' = drawn
           \/ secret = 0 /\ drawn < MaxPasswords /\ drawn' = drawn + 1
        /\ UNCHANGED <<secret, asset, switches>>
    BY <1>2 DEF Data!ReadCredentials, Data!Config
  <2> QED
    BY <1>1, <2>1 DEF DataBounds, SecretBound
<1>3. CASE Data!WriteCredentials(o)
  <2>1. secret' \in {secret, doing[o].password} /\ UNCHANGED <<drawn, asset, switches>>
    BY <1>3 DEF Data!WriteCredentials, Data!Config
  <2> QED
    BY <1>1, <2>1 DEF DataBounds, SecretBound
<1>4. CASE Data!WriteAssets(o)
  <2>1. /\ asset' = [asset EXCEPT ![Data!FamilyOf(doing[o].target)] = doing[o].password]
        /\ UNCHANGED <<drawn, secret, switches>>
    BY <1>4 DEF Data!WriteAssets, Data!Config
  <2>2. \A f \in Data!Family : asset'[f] \in {asset[f], doing[o].password}
    BY <1>1, <2>1
  <2> QED
    BY <1>1, <2>1, <2>2 DEF DataBounds, SecretBound
<1>5. CASE UNCHANGED <<drawn, secret, asset, switches>>
  BY <1>1, <1>5 DEF DataBounds, SecretBound
<1> QED
  BY <1>2, <1>3, <1>4, <1>5
  DEF Acts, Data!Start, Data!Stop, Data!Begin, Data!LookForServer, Data!TruncateCredentials,
      Data!ResolveDataPath, Data!ProgramMissing, Data!CheckInitialized, Data!ResetDataDir,
      Data!CreateDataDir, Data!RunInitializer, Data!InitializerFails, Data!MarkBootstrap,
      Data!LaunchServer, Data!CreateDatabase, Data!RemoveMarker, Data!RecordServer,
      Data!ShutDown, Data!RemoveRecord, Data!KillOperator, Data!Config, Data!Secrets

\* The password of a directory: as it was, none, or that of the files.
LEMMA DiskPasswords ==
  ASSUME DataTypes, NEW o \in Operator, Acts(o), NEW q \in Data!Place
  PROVE  disk'[q].password \in {0, disk[q].password} \cup {asset[f] : f \in Data!Family}
<1> DEFINE Fits(p, d) == d.password \in {0, disk[p].password} \cup {asset[f] : f \in Data!Family}
<1>1. disk \in [Data!Place -> Directory] /\ \A p \in Data!Place : disk[p] \in Directory
  BY DEF DataTypes
<1>2. ASSUME NEW p, NEW d, disk' = [disk EXCEPT ![p] = d], p \in Data!Place => Fits(p, d)
      PROVE  Fits(q, disk'[q])
  BY <1>1, <1>2
<1>3. CASE UNCHANGED disk
  BY <1>3
<1>4. Data!NoDirectory.password = 0 /\ Data!EmptyDirectory.password = 0
  BY DEF Data!NoDirectory, Data!EmptyDirectory
<1>5. \A t, c, n : Data!Ready(t, c, n).password = n
  BY DEF Data!Ready
<1>6. \A t : Data!FamilyOf(t) \in Data!Family /\ asset[Data!FamilyOf(t)] \in {asset[f] : f \in Data!Family}
  BY DEF Data!FamilyOf, Data!Family
<1>0. ASSUME NEW p, NEW t, disk' = [disk EXCEPT ![p] = Data!Ready(t, FALSE, asset[Data!FamilyOf(t)])]
      PROVE  Fits(q, disk'[q])
  <2> DEFINE d == Data!Ready(t, FALSE, asset[Data!FamilyOf(t)])
  <2>1. d.password = asset[Data!FamilyOf(t)]
    BY <1>5
  <2>2. Fits(p, d)
    BY <1>6, <2>1
  <2>3. disk' = [disk EXCEPT ![p] = d]
    BY <1>0
  <2> HIDE DEF d, Fits
  <2> QED
    BY <1>2, <2>2, <2>3
<1> DEFINE p0 == doing[o].place
<1>7. CASE Data!ResetDataDir(o)
  <2>1. disk' = [x \in Data!Place |-> IF x = p0 THEN Data!EmptyDirectory
                                      ELSE IF p0 = Legacy THEN Data!NoDirectory ELSE disk[x]]
    BY <1>7 DEF Data!ResetDataDir
  <2> QED
    BY <1>4, <2>1
<1>8. CASE Data!CreateDataDir(o)
  <2>1. disk' = [disk EXCEPT ![p0] = IF disk[p0].form = "absent" THEN Data!EmptyDirectory ELSE disk[p0]]
    BY <1>8 DEF Data!CreateDataDir
  <2> QED
    BY <1>2, <1>4, <2>1
<1>9. CASE Data!RunInitializer(o)
  <2>1. CASE disk' = [disk EXCEPT ![p0] = [Data!EmptyDirectory EXCEPT !.of = doing[o].target,
                                                                     !.form = "unknown", !.by = o]]
    <3>1. [Data!EmptyDirectory EXCEPT !.of = doing[o].target, !.form = "unknown", !.by = o].password = 0
      BY DEF Data!EmptyDirectory, Data!NoDirectory
    <3> QED
      BY <1>2, <2>1, <3>1
  <2>2. CASE disk' = [disk EXCEPT ![p0].form = "recognizable"]
    <3>1. p0 \in Data!Place => [disk[p0] EXCEPT !.form = "recognizable"].password = disk[p0].password
      BY <1>1 DEF Directory
    <3> QED
      BY <1>2, <2>2, <3>1
  <2>3. CASE disk' = [disk EXCEPT ![p0] = Data!Ready(doing[o].target, FALSE,
                                                     asset[Data!FamilyOf(doing[o].target)])]
    BY <1>0, <2>3
  <2> QED
    BY <1>3, <1>9, <2>1, <2>2, <2>3 DEF Data!RunInitializer
<1>10. CASE Data!InitializerFails(o)
  <2>1. p0 \in Data!Place => [disk[p0] EXCEPT !.by = Nothing].password = disk[p0].password
    BY <1>1 DEF Directory
  <2>2. \/ disk' = [disk EXCEPT ![p0] = Data!EmptyDirectory]
        \/ disk' = [disk EXCEPT ![p0] = [disk[p0] EXCEPT !.by = Nothing]]
    BY <1>10 DEF Data!InitializerFails
  <2> QED
    BY <1>2, <1>4, <2>1, <2>2
<1>11. CASE Data!MarkBootstrap(o) \/ Data!RemoveMarker(o) \/ Data!CreateDatabase(o)
  <2>1. ASSUME NEW b PROVE p0 \in Data!Place => /\ [disk[p0] EXCEPT !.pending = b].password = disk[p0].password
                                                /\ [disk[p0] EXCEPT !.created = b].password = disk[p0].password
    BY <1>1 DEF Directory
  <2>2. \/ UNCHANGED disk
        \/ \E b : disk' = [disk EXCEPT ![p0] = [disk[p0] EXCEPT !.pending = b]]
        \/ \E b : disk' = [disk EXCEPT ![p0] = [disk[p0] EXCEPT !.created = b]]
    BY <1>11 DEF Data!MarkBootstrap, Data!RemoveMarker, Data!CreateDatabase
  <2> QED
    BY <1>2, <1>3, <2>1, <2>2
<1>12. CASE Data!LaunchServer(o)
  <2>1. p0 \in Data!Place =>
          [disk[p0] EXCEPT !.created = TRUE, !.password = asset["mysql"]].password = asset["mysql"]
    BY <1>1 DEF Directory
  <2>2. asset["mysql"] \in {asset[f] : f \in Data!Family}
    BY DEF Data!Family
  <2>3. \/ UNCHANGED disk
        \/ disk' = [disk EXCEPT ![p0] = [disk[p0] EXCEPT !.created = TRUE, !.password = asset["mysql"]]]
    BY <1>12 DEF Data!LaunchServer
  <2> QED
    BY <1>2, <1>3, <2>1, <2>2, <2>3
<1>13. CASE Data!KillOperator(o)
  <2>1. p0 \in Data!Place => [disk[p0] EXCEPT !.by = Nothing].password = disk[p0].password
    BY <1>1 DEF Directory
  <2>2. \/ UNCHANGED disk
        \/ disk' = [disk EXCEPT ![p0] = [disk[p0] EXCEPT !.by = Nothing]]
        \/ disk' = [disk EXCEPT ![p0] = Data!Ready(disk[p0].of, FALSE, asset[Data!FamilyOf(disk[p0].of)])]
    BY <1>13 DEF Data!KillOperator
  <2> QED
    BY <1>2, <1>3, <1>0, <2>1, <2>2
<1> HIDE DEF Fits, p0
<1> QED
  BY <1>3, <1>7, <1>8, <1>9, <1>10, <1>11, <1>12, <1>13
  DEF Acts, Fits, Data!Start, Data!Stop, Data!Begin, Data!LookForServer, Data!ReadCredentials,
      Data!TruncateCredentials, Data!WriteCredentials, Data!WriteAssets, Data!ResolveDataPath,
      Data!ProgramMissing, Data!CheckInitialized, Data!RecordServer, Data!ShutDown,
      Data!RemoveRecord

\* The command itself.
LEMMA DoingsBound ==
  ASSUME DataBounds, NEW o \in Operator, Acts(o)
  PROVE  DoingBound'
<1>1. /\ drawn \in Nat /\ drawn' \in Nat /\ drawn <= drawn' /\ secret \in Nat /\ secret <= drawn
      /\ doing \in [Operator -> Doing] /\ \A q \in Operator : doing[q].password \in Nat
      /\ \A q \in Operator : /\ doing[q].password <= drawn
                             /\ doing[q].step = "idle" => doing[q] = Data!Unoccupied
  BY SecretsBound DEF DataBounds, DataTypes, SecretBound, DoingBound, Doing
<1>2. ASSUME NEW r, doing' = [doing EXCEPT ![o] = r], r.password <= drawn',
             r.step = "idle" => r = Data!Unoccupied
      PROVE  DoingBound'
  <2>1. ASSUME NEW q \in Operator
        PROVE  /\ doing'[q].password <= drawn'
               /\ doing'[q].step = "idle" => doing'[q] = Data!Unoccupied
    <3>1. CASE q = o
      BY <1>1, <1>2, <3>1
    <3>2. CASE q # o
      <4>1. doing'[q] = doing[q]
        BY <1>1, <1>2, <3>2
      <4> QED
        BY <1>1, <4>1
    <3> QED
      BY <3>1, <3>2
  <2> QED
    BY <2>1 DEF DoingBound
<1>3. Data!Unoccupied.password = 0 /\ Data!Unoccupied.step = "idle" /\ 0 <= drawn'
  BY <1>1 DEF Data!Unoccupied
<1>4. ASSUME NEW label, Data!Goto(o, label) PROVE DoingBound'
  <2>1. CASE label = "idle"
    <3>1. doing' = [doing EXCEPT ![o] = Data!Unoccupied]
      BY <1>4, <2>1 DEF Data!Goto
    <3>2. Data!Unoccupied.password <= drawn'
      BY <1>3
    <3> QED
      BY <1>2, <3>1, <3>2
  <2>2. CASE label # "idle"
    <3> DEFINE r == [doing[o] EXCEPT !.step = label]
    <3>1. doing' = [doing EXCEPT ![o] = r]
      BY <1>4, <2>2 DEF Data!Goto
    <3>2. doing[o] \in Doing
      BY <1>1
    <3>3. r.step = label /\ r.password = doing[o].password
      BY <3>2 DEF Doing
    <3>4. r.password <= drawn'
      BY <1>1, <3>3
    <3> HIDE DEF r
    <3> QED
      BY <1>2, <2>2, <3>1, <3>3, <3>4
  <2> QED
    BY <2>1, <2>2
<1>5. CASE UNCHANGED doing
  BY <1>1, <1>5 DEF DoingBound
<1>6. CASE Data!Start(o) \/ Data!Stop(o)
  <2>1. PICK label \in {"look", "find"} :
          doing' = [doing EXCEPT ![o] = [Data!Unoccupied EXCEPT !.step = label, !.target = target]]
    BY <1>6 DEF Data!Start, Data!Stop, Data!Begin
  <2> DEFINE r == [Data!Unoccupied EXCEPT !.step = label, !.target = target]
  <2>2. r.step = label /\ r.password = 0
    BY DEF Data!Unoccupied
  <2>3. r.password <= drawn' /\ r.step # "idle"
    BY <1>3, <2>2
  <2>4. doing' = [doing EXCEPT ![o] = r]
    BY <2>1
  <2> HIDE DEF r
  <2> QED
    BY <1>2, <2>3, <2>4
<1>7. CASE Data!ReadCredentials(o)
  <2>1. CASE Data!Goto(o, "idle")
    BY <1>4, <2>1
  <2>2. CASE ~Data!Goto(o, "idle")
    <3> DEFINE n == IF secret = 0 THEN drawn' ELSE secret
               r == [doing[o] EXCEPT !.step = "secret", !.password = n]
    <3>1. doing' = [doing EXCEPT ![o] = r]
      BY <1>7, <2>2 DEF Data!ReadCredentials
    <3>2. n <= drawn'
      BY <1>1
    <3> HIDE DEF n
    <3>3. r.step = "secret" /\ r.password = n
      BY <1>1 DEF Doing
    <3> HIDE DEF r
    <3> QED
      BY <1>2, <3>1, <3>2, <3>3
  <2> QED
    BY <2>1, <2>2
<1>8. CASE Data!ResolveDataPath(o)
  <2> DEFINE r == [doing[o] EXCEPT !.step = "check", !.place = Data!DataPath(doing[o].target)]
  <2>1. doing' = [doing EXCEPT ![o] = r]
    BY <1>8 DEF Data!ResolveDataPath
  <2>2. r.step = "check" /\ r.password = doing[o].password
    BY <1>1 DEF Doing
  <2>3. r.password <= drawn'
    BY <1>1, <2>2
  <2> HIDE DEF r
  <2> QED
    BY <1>2, <2>1, <2>2, <2>3
<1>9. CASE Data!RunInitializer(o)
  <2>1. UNCHANGED doing \/ \E label : Data!Goto(o, label)
    BY <1>9 DEF Data!RunInitializer
  <2> QED
    BY <1>4, <1>5, <2>1
<1>10. CASE \/ Data!LookForServer(o) \/ Data!TruncateCredentials(o) \/ Data!WriteCredentials(o)
            \/ Data!WriteAssets(o) \/ Data!ProgramMissing(o) \/ Data!CheckInitialized(o)
            \/ Data!ResetDataDir(o) \/ Data!CreateDataDir(o) \/ Data!InitializerFails(o)
  <2>1. \E label : Data!Goto(o, label)
    BY <1>10 DEF Data!LookForServer, Data!TruncateCredentials, Data!WriteCredentials,
       Data!WriteAssets, Data!ProgramMissing, Data!CheckInitialized, Data!ResetDataDir,
       Data!CreateDataDir, Data!InitializerFails
  <2> QED
    BY <1>4, <2>1
<1>11. CASE \/ Data!MarkBootstrap(o) \/ Data!LaunchServer(o) \/ Data!CreateDatabase(o)
            \/ Data!RemoveMarker(o) \/ Data!RecordServer(o) \/ Data!ShutDown(o)
            \/ Data!RemoveRecord(o) \/ Data!KillOperator(o)
  <2>1. \E label : Data!Goto(o, label)
    BY <1>11 DEF Data!MarkBootstrap, Data!LaunchServer, Data!CreateDatabase, Data!RemoveMarker,
       Data!RecordServer, Data!ShutDown, Data!RemoveRecord, Data!KillOperator
  <2> QED
    BY <1>4, <2>1
<1> QED
  BY <1>6, <1>7, <1>8, <1>9, <1>10, <1>11 DEF Acts

LEMMA BoundsStep ==
  DataBounds /\ DataTypes' /\ [Data!DatabaseNext]_dataVars => DataBounds'
<1> SUFFICES ASSUME DataBounds, DataTypes', [Data!DatabaseNext]_dataVars PROVE DataBounds'
  OBVIOUS
<1>1. MaxSwitches \in Nat /\ MaxPasswords \in Nat /\ switches \in Nat
  BY PartsAssumption DEF Data!DatabaseAssumption, DataBounds, DataTypes
<1>2. ASSUME NEW o \in Operator, Acts(o) PROVE DataBounds'
  <2>1. SecretBound' /\ drawn' \in Nat /\ drawn <= drawn' /\ DoingBound'
    BY <1>2, SecretsBound, DoingsBound
  <2>2. DiskBound'
    <3>1. ASSUME NEW p \in Data!Place PROVE disk'[p].password <= drawn'
      <4>1. disk'[p].password \in {0, disk[p].password} \cup {asset[f] : f \in Data!Family}
        BY <1>2, DiskPasswords DEF DataBounds
      <4>2. /\ drawn \in Nat /\ disk[p].password \in Nat /\ disk[p].password <= drawn
            /\ \A f \in Data!Family : asset[f] \in Nat /\ asset[f] <= drawn
        BY DEF DataBounds, DataTypes, Directory, DiskBound, SecretBound
      <4>3. disk'[p].password \in Nat /\ disk'[p].password <= drawn
        BY <4>1, <4>2
      <4> QED
        BY <2>1, <4>2, <4>3
    <3> QED
      BY <3>1 DEF DiskBound
  <2>3. RecordBound'
    <3>1. CASE UNCHANGED <<server, record>>
      BY <3>1 DEF DataBounds, RecordBound
    <3>2. CASE Data!KillServer
      BY <3>2 DEF DataBounds, RecordBound, Data!KillServer
    <3>3. CASE record' = "absent"
      BY <3>3 DEF RecordBound
    <3>4. CASE Data!LaunchServer(o)
      <4>1. UNCHANGED record /\ (UNCHANGED server \/ server = Nothing)
        BY <3>4 DEF Data!LaunchServer
      <4> QED
        BY <4>1 DEF DataBounds, RecordBound
    <3>5. CASE Data!RecordServer(o)
      <4>1. \/ record' = (IF server = Nothing THEN "dead" ELSE "live") /\ UNCHANGED server
            \/ Data!KillServer
        BY <3>5 DEF Data!RecordServer
      <4> QED
        BY <3>2, <4>1 DEF RecordBound
    <3>6. CASE Data!LookForServer(o)
      <4>1. UNCHANGED server /\ (UNCHANGED record \/ record' = "absent")
        BY <3>6 DEF Data!LookForServer
      <4> QED
        BY <3>1, <3>3, <4>1
    <3> QED
      BY <1>2, <3>1, <3>2, <3>3, <3>4, <3>5, <3>6
      DEF Acts, Data!Start, Data!Stop, Data!Begin, Data!ReadCredentials,
          Data!TruncateCredentials, Data!WriteCredentials, Data!WriteAssets,
          Data!ResolveDataPath, Data!ProgramMissing, Data!CheckInitialized, Data!ResetDataDir,
          Data!CreateDataDir, Data!RunInitializer, Data!InitializerFails, Data!MarkBootstrap,
          Data!CreateDatabase, Data!RemoveMarker, Data!ShutDown, Data!RemoveRecord,
          Data!KillOperator, Data!Runtime
  <2> QED
    BY <2>1, <2>2, <2>3 DEF DataBounds
<1>3. CASE Data!ServerEnds
  <2>1. Data!KillServer /\ UNCHANGED <<disk, doing, switches, secret, drawn, asset>>
    BY <1>3 DEF Data!ServerEnds, Data!Config, Data!Secrets
  <2> QED
    BY <2>1 DEF DataBounds, RecordBound, SecretBound, DiskBound, DoingBound, Data!KillServer
<1>4. CASE Data!SwitchDatabase
  <2>1. /\ switches < MaxSwitches /\ switches' = switches + 1
        /\ UNCHANGED <<disk, doing, secret, drawn, asset, server, record>>
    BY <1>4 DEF Data!SwitchDatabase, Data!Secrets, Data!Runtime
  <2> QED
    BY <1>1, <2>1 DEF DataBounds, RecordBound, SecretBound, DiskBound, DoingBound
<1>5. CASE UNCHANGED dataVars
  <2>1. UNCHANGED <<disk, doing, switches, secret, drawn, asset, server, record>>
    BY <1>5 DEF dataVars
  <2> QED
    BY <2>1 DEF DataBounds, RecordBound, SecretBound, DiskBound, DoingBound
<1> QED
  BY <1>2, <1>3, <1>4, <1>5 DEF Data!DatabaseNext, Acts

LEMMA DataConstantBounds == MaxPasswords \in Nat /\ MaxSwitches \in Nat
  BY PartsAssumption DEF Data!DatabaseAssumption

LEMMA DatabaseTyped == DataBounds => Data!DatabaseTypeOK
<1> SUFFICES ASSUME DataBounds PROVE Data!DatabaseTypeOK
  OBVIOUS
<1>1. /\ switches \in 0 .. MaxSwitches /\ drawn \in 0 .. (MaxPasswords + 1)
      /\ secret \in 0 .. drawn
  BY DataConstantBounds DEF DataBounds, DataTypes, SecretBound
<1>2. asset \in [Data!Family -> 0 .. drawn]
  <2>1. asset \in [Data!Family -> Nat] /\ drawn \in Nat /\ \A f \in Data!Family : asset[f] <= drawn
    BY DEF DataBounds, DataTypes, SecretBound
  <2>2. \A f \in Data!Family : asset[f] \in 0 .. drawn
    BY <2>1
  <2> QED
    BY <2>1, <2>2
<1>3. disk \in [Data!Place -> [of : Databases \cup {Nothing},
                               form : {"absent", "empty", "unknown", "recognizable", "ready"},
                               by : Operator \cup {Nothing}, pending : BOOLEAN,
                               created : BOOLEAN, password : 0 .. drawn]]
  <2>1. disk \in [Data!Place -> Directory] /\ drawn \in Nat
        /\ \A p \in Data!Place : disk[p].password <= drawn
    BY DEF DataBounds, DataTypes, DiskBound
  <2>2. ASSUME NEW p \in Data!Place
        PROVE  disk[p] \in [of : Databases \cup {Nothing},
                            form : {"absent", "empty", "unknown", "recognizable", "ready"},
                            by : Operator \cup {Nothing}, pending : BOOLEAN,
                            created : BOOLEAN, password : 0 .. drawn]
    <3>1. disk[p] \in Directory /\ disk[p].password <= drawn
      BY <2>1
    <3>2. disk[p].password \in 0 .. drawn
      BY <2>1, <3>1 DEF Directory
    <3> QED
      BY <3>1, <3>2 DEF Directory, Forms
  <2> QED
    BY <2>1, <2>2
<1>4. /\ record \in {"absent", "dead", "live"} /\ (record = "live" => server # Nothing)
      /\ \A o \in Operator : ~Data!Busy(o) => doing[o] = Data!Unoccupied
  BY DEF DataBounds, RecordBound, DoingBound, Data!Busy
<1>5. /\ target \in Databases /\ torn \in BOOLEAN /\ mishap \in {"none", "cut", "met"}
      /\ server \in {Nothing} \cup [place : Data!Place, target : Databases]
  BY DEF DataBounds, DataTypes
<1> QED
  BY <1>1, <1>2, <1>3, <1>4, <1>5 DEF Data!DatabaseTypeOK

-----------------------------------------------------------------------------
(* The hooks on a framework's files.  One that is alone has left each file   *)
(* settled that it is through with; what it is about to write has what is    *)
(* foreign in the text that it has read.                                     *)

HookSteps == {"idle", "read", "stage", "replace", "restore"}
Hook ==
  [step : HookSteps, action : 1 .. 2, read : Texts \cup {Void}, result : Texts,
   value : Credential \cup {Void}, alone : BOOLEAN, open : BOOLEAN]
FileTexts == [edited : Texts \cup {Void}, written : Texts \cup {Void}]

HookTypes ==
  /\ text \in FileTexts
  /\ protected \in BOOLEAN /\ readonly \in BOOLEAN /\ windows \in BOOLEAN
  /\ manifest \in Hooks!Manifest /\ credentials \in Credential
  /\ hook \in [Runner -> Hook]
  /\ hooks \in 0 .. MaxHooks /\ edits \in 0 .. MaxEdits
  /\ others \in Texts /\ raced \in BOOLEAN /\ stopped \in BOOLEAN
  /\ delivered \in Credential \cup {Void}

\* What is foreign in a file that may not be there.
ForeignIn(s) == IF s = Void THEN <<>> ELSE Hooks!Foreigns(s)
\* The file of an action, and when it is as the action with the value v leaves it.
FileOf(type, t) == IF type = "write-file" THEN t.written ELSE t.edited
Through(type, t, v) == FileOf(type, t) # Void /\ Settled(type, FileOf(type, t), v)

\* What a hook h may rely on, with the files t and the manifest m.
Clean(h, t, m) ==
  LET type == m[h.action]
  IN  /\ h.action \in 1 .. Len(m)
      /\ h.step # "idle" => /\ h.value \in Credential
                            /\ type = "php-include" => t.written # Void
      /\ h.step \in {"stage", "replace"} =>
           /\ Settled(type, h.result, h.value)
           /\ type # "write-file" => /\ Hooks!Foreigns(h.result) = ForeignIn(h.read)
                                     /\ HasBlock(h.result) => t.written # Void
      /\ h.step = "restore" /\ type = "write-file" => t.written # Void
      /\ h.step # "idle" /\ h.alone =>
           /\ \A i \in 1 .. h.action - 1 : Through(m[i], t, h.value)
           /\ h.step = "restore" => Through(type, t, h.value)

TextInv ==
  /\ ~raced \/ text.edited = Void => ForeignIn(text.edited) = others
  /\ text.edited # Void /\ HasBlock(text.edited) => text.written # Void
  /\ delivered # Void => \A i \in 1 .. Len(manifest) : Through(manifest[i], text, delivered)

CleanInv == \A r \in Runner : Clean(hook[r], text, manifest)

OneHookInv ==
  /\ \A r \in Runner : hook[r].step # "idle" /\ hook[r].alone =>
       \A q \in Runner \ {r} : hook[q].step = "idle"
  /\ delivered # Void => \A r \in Runner : hook[r].step = "idle"

ProtectInv ==
  /\ windows \/ protected => readonly
  /\ windows /\ ~stopped /\ ~protected => \E r \in Runner : hook[r].open
  /\ \A r \in Runner : hook[r].open => readonly /\ hook[r].step \in {"replace", "restore"}

HookInv == HookTypes /\ TextInv /\ CleanInv /\ OneHookInv /\ ProtectInv

LEMMA ManifestIs ==
  ASSUME NEW m \in Hooks!Manifest
  PROVE  /\ Len(m) \in {1, 2} /\ DOMAIN m = 1 .. Len(m) /\ 1 \in 1 .. Len(m)
         /\ \A i \in 1 .. Len(m) : m[i] \in Types /\ i \in {1, 2}
         /\ Len(m) = 1 => m[1] \in {"dotenv", "php-array", "php-constants"}
         /\ Len(m) = 2 => m[1] = "write-file" /\ m[2] = "php-include"
<1>1. CASE m = <<"write-file", "php-include">>
  BY <1>1 DEF Types
<1>2. ASSUME NEW type \in {"dotenv", "php-array", "php-constants"}, m = <<type>>
      PROVE  /\ Len(m) = 1 /\ DOMAIN m = 1 .. 1 /\ m[1] = type
             /\ \A i \in 1 .. 1 : i = 1
  BY <1>2
<1>3. CASE \E type \in {"dotenv", "php-array", "php-constants"} : m = <<type>>
  <2>1. PICK type \in {"dotenv", "php-array", "php-constants"} : m = <<type>>
    BY <1>3
  <2>2. /\ Len(m) = 1 /\ DOMAIN m = 1 .. 1 /\ m[1] = type
        /\ \A i \in 1 .. 1 : i = 1
    BY <1>2, <2>1
  <2>3. type \in Types /\ 1 \in 1 .. 1
    BY DEF Types
  <2> QED
    BY <2>2, <2>3
<1> QED
  BY <1>1, <1>3 DEF Hooks!Manifest

LEMMA NoHookIs ==
  /\ Hooks!NoHook \in Hook /\ Hooks!NoHook.step = "idle" /\ Hooks!NoHook.action = 1
  /\ Hooks!NoHook.alone = TRUE /\ Hooks!NoHook.open = FALSE
  /\ \A t, m : m \in Hooks!Manifest => Clean(Hooks!NoHook, t, m)
<1>1. <<>> \in Texts
  BY DEF Texts
<1>2. /\ Hooks!NoHook \in Hook /\ Hooks!NoHook.step = "idle" /\ Hooks!NoHook.action = 1
      /\ Hooks!NoHook.alone = TRUE /\ Hooks!NoHook.open = FALSE
  BY <1>1 DEF Hooks!NoHook, Hook, HookSteps
<1>3. ASSUME NEW t, NEW m \in Hooks!Manifest PROVE Clean(Hooks!NoHook, t, m)
  <2>1. 1 \in 1 .. Len(m)
    BY ManifestIs
  <2> QED
    BY <1>2, <2>1 DEF Clean
<1> QED
  BY <1>2, <1>3

\* A short text without anything foreign.
LEMMA PlainText ==
  /\ <<>> \in Texts /\ Hooks!Foreigns(<<>>) = <<>> /\ ~HasBlock(<<>>)
  /\ \A e \in Hooks!Entry : e.kind # "block" /\ ~Hooks!Foreign(e) =>
       <<e>> \in Texts /\ Hooks!Foreigns(<<e>>) = <<>> /\ ~HasBlock(<<e>>)
<1>1. <<>> \in Texts /\ ~HasBlock(<<>>)
  BY DEF Texts, HasBlock
<1>2. Hooks!Foreigns(<<>>) = <<>>
  <2> DEFINE I == {i \in DOMAIN <<>> : Hooks!Foreign(<<>>[i])}
  <2>1. I = {}
    OBVIOUS
  <2>2. Cardinality({}) = 0
    BY FS_EmptySet
  <2>3. PickedFrom(<<>>, I, Hooks!Entry)
    <3>1. I \subseteq 1 .. Len(<<>>) /\ <<>> \in Seq(Hooks!Entry)
      BY <2>1
    <3> QED
      BY <3>1, PickedSeq
  <2>4. Hooks!Picked(<<>>, I) \in Seq(Hooks!Entry) /\ Len(Hooks!Picked(<<>>, I)) = 0
    BY <2>1, <2>2, <2>3 DEF PickedFrom
  <2>5. Hooks!Picked(<<>>, I) = <<>>
    BY <2>4, EmptySeq
  <2> QED
    BY <2>5 DEF Hooks!Foreigns
<1>3. ASSUME NEW e \in Hooks!Entry, e.kind # "block", ~Hooks!Foreign(e)
      PROVE  <<e>> \in Texts /\ Hooks!Foreigns(<<e>>) = <<>> /\ ~HasBlock(<<e>>)
  <2>1. <<e>> \in Texts /\ Len(<<e>>) = 1 /\ <<e>>[1] = e
    BY DEF Texts
  <2>2. \A i \in 1 .. Len(<<e>>) : ~Hooks!Foreign(<<e>>[i])
    BY <1>3, <2>1
  <2>3. Hooks!Foreigns(<<>> \o <<e>>) = Hooks!Foreigns(<<>>)
    BY <1>1, <2>1, <2>2, ForeignsExtended
  <2>4. <<>> \o <<e>> = <<e>>
    BY <2>1, ConcatEmptySeq DEF Texts
  <2>5. ~HasBlock(<<e>>)
    BY <1>3, <2>1 DEF HasBlock
  <2> QED
    BY <1>2, <2>1, <2>3, <2>4, <2>5
<1> QED
  BY <1>1, <1>2, <1>3

LEMMA AlphabetIs ==
  ASSUME NEW m \in Hooks!Manifest
  PROVE  /\ Hooks!Alphabet(m) \subseteq Hooks!Entry
         /\ \A e \in Hooks!Alphabet(m) : e.kind = "block" => e = Hooks!Item("block")
<1>0. Own \in Credential \cup {Own} /\ Keys[1] \in KeySet
  BY KeyFacts
<1>1. /\ Hooks!Set(Keys[1], Own) \in Hooks!Entry /\ Hooks!Set(Keys[1], Own).kind = "set"
      /\ Hooks!Comment(Keys[1]) \in Hooks!Entry /\ Hooks!Comment(Keys[1]).kind = "comment"
      /\ Hooks!Text(0) \in Hooks!Entry /\ Hooks!Text(0).kind = "text"
      /\ \A kind \in {"block", "blank", "odd", "open", "require"} :
           Hooks!Item(kind) \in Hooks!Entry /\ Hooks!Item(kind).kind = kind
  BY <1>0, SetIs, CommentIs, TextIs, ItemIs
<1>2. Hooks!Set(Anchor, Own) \in Hooks!Entry /\ Hooks!Set(Anchor, Own).kind = "set"
  BY DEF Hooks!Set, Hooks!Entry
<1>3. CASE m[1] = "dotenv"
  BY <1>1, <1>2, <1>3 DEF Hooks!Alphabet
<1>4. CASE m[1] = "php-array"
  BY <1>1, <1>2, <1>4 DEF Hooks!Alphabet
<1>5. CASE m[1] = "php-constants"
  BY <1>1, <1>2, <1>5 DEF Hooks!Alphabet
<1>6. CASE m[1] \notin {"dotenv", "php-array", "php-constants"}
  <2>1. Hooks!Alphabet(m) = {Hooks!Item("block"), Hooks!Item("open"), Hooks!Text(0)}
    BY <1>6 DEF Hooks!Alphabet
  <2> QED
    BY <1>1, <2>1
<1> QED
  BY <1>3, <1>4, <1>5, <1>6

LEMMA HookStart == Hooks!FrameworkInit => HookInv
<1> SUFFICES ASSUME Hooks!FrameworkInit PROVE HookInv
  OBVIOUS
<1>1. PICK s \in Hooks!SeqOf(Hooks!Alphabet(manifest), MaxItems) \cup {Void} :
        /\ text = [edited |-> s,
                   written |-> IF s # Void /\ Hooks!Item("block") \in Hooks!Range(s) THEN <<>> ELSE Void]
        /\ others = IF s = Void THEN <<>> ELSE Hooks!Foreigns(s)
        /\ readonly \in {FALSE, s # Void} /\ protected = readonly
  BY DEF Hooks!FrameworkInit
<1>2. /\ manifest \in Hooks!Manifest /\ windows \in {FALSE, readonly} /\ credentials \in Credential
      /\ hook = [r \in Runner |-> Hooks!NoHook] /\ hooks = 0 /\ edits = 0
      /\ raced = FALSE /\ stopped = FALSE /\ delivered = Void
  BY DEF Hooks!FrameworkInit
<1>3. s # Void => s \in Texts
  <2> SUFFICES ASSUME s # Void PROVE s \in Texts
    OBVIOUS
  <2>1. PICK n \in 0 .. MaxItems : s \in [1 .. n -> Hooks!Alphabet(manifest)]
    BY <1>1 DEF Hooks!SeqOf
  <2>2. Hooks!Alphabet(manifest) \subseteq Hooks!Entry
    BY <1>2, AlphabetIs
  <2>3. n \in Nat /\ s \in [1 .. n -> Hooks!Entry]
    BY <2>1, <2>2
  <2> QED
    BY <2>3 DEF Texts
<1>4. <<>> \in Texts /\ Void \notin Texts /\ MaxHooks \in Nat /\ MaxEdits \in Nat
  BY PlainText, KeyFacts
<1>5. text \in FileTexts /\ others \in Texts
  <2>1. s \in Texts \cup {Void}
    BY <1>3
  <2>2. IF s # Void /\ Hooks!Item("block") \in Hooks!Range(s) THEN <<>> \in Texts \cup {Void}
        ELSE Void \in Texts \cup {Void}
    BY <1>4
  <2>3. text \in FileTexts
    BY <1>1, <2>1, <2>2 DEF FileTexts
  <2>4. others \in Texts
    BY <1>1, <1>3, <1>4, ForeignPositions
  <2> QED
    BY <2>3, <2>4
<1>6. protected \in BOOLEAN /\ readonly \in BOOLEAN /\ windows \in BOOLEAN
  BY <1>1, <1>2
<1>7. HookTypes
  <2>1. hook \in [Runner -> Hook]
    BY <1>2, NoHookIs
  <2>2. hooks \in 0 .. MaxHooks /\ edits \in 0 .. MaxEdits
    BY <1>2, <1>4
  <2> QED
    BY <1>2, <1>5, <1>6, <2>1, <2>2 DEF HookTypes
<1>8. s # Void /\ HasBlock(s) => text.written # Void
  <2> SUFFICES ASSUME s # Void, HasBlock(s) PROVE text.written # Void
    OBVIOUS
  <2>1. PICK i \in 1 .. Len(s) : s[i].kind = "block"
    BY DEF HasBlock
  <2>2. i \in DOMAIN s
    BY <1>3, TextFacts
  <2>3. s[i] \in Hooks!Alphabet(manifest)
    BY <1>1, <2>2 DEF Hooks!SeqOf
  <2>4. s[i] = Hooks!Item("block")
    BY <1>2, <2>1, <2>3, AlphabetIs
  <2>5. Hooks!Item("block") \in Hooks!Range(s)
    BY <2>2, <2>4 DEF Hooks!Range
  <2> QED
    BY <1>1, <1>4, <2>5
<1>9. TextInv
  BY <1>1, <1>2, <1>8 DEF TextInv, ForeignIn
<1>10. CleanInv
  BY <1>2, NoHookIs DEF CleanInv
<1>11. OneHookInv
  BY <1>2, NoHookIs DEF OneHookInv
<1>12. ProtectInv
  BY <1>1, <1>2, NoHookIs DEF ProtectInv
<1> QED
  BY <1>7, <1>9, <1>10, <1>11, <1>12 DEF HookInv

\* A step of a hook that leaves the files alone: what is new is about the hook itself.
LEMMA HookMoves ==
  ASSUME HookInv, NEW r \in Runner, NEW h \in Hook, hook[r].step # "idle",
         hook' = [hook EXCEPT ![r] = h],
         UNCHANGED <<text, readonly, windows, manifest, credentials, hooks, edits, others, raced>>,
         protected' \in BOOLEAN, stopped' \in BOOLEAN, delivered' \in Credential \cup {Void},
         Clean(h, text, manifest),
         h.step # "idle" /\ h.alone => hook[r].alone,
         delivered' # Void =>
           /\ h.step = "idle" /\ hook[r].alone
           /\ \A i \in 1 .. Len(manifest) : Through(manifest[i], text, delivered')
  PROVE  HookTypes' /\ TextInv' /\ CleanInv' /\ OneHookInv'
<1>1. hook \in [Runner -> Hook]
  BY DEF HookInv, HookTypes
<1>2. hook'[r] = h /\ \A q \in Runner \ {r} : hook'[q] = hook[q]
  BY <1>1
<1>3. HookTypes'
  BY <1>1 DEF HookInv, HookTypes
<1>4. TextInv'
  BY DEF HookInv, TextInv
<1>5. CleanInv'
  BY <1>2 DEF HookInv, CleanInv
<1>6. OneHookInv'
  <2>1. ASSUME NEW p \in Runner, hook'[p].step # "idle", hook'[p].alone, NEW q \in Runner \ {p}
        PROVE  hook'[q].step = "idle"
    BY <1>2, <2>1 DEF HookInv, OneHookInv
  <2>2. ASSUME delivered' # Void, NEW p \in Runner PROVE hook'[p].step = "idle"
    BY <1>2, <2>2 DEF HookInv, OneHookInv
  <2> QED
    BY <2>1, <2>2 DEF OneHookInv
<1> QED
  BY <1>3, <1>4, <1>5, <1>6

\* A hook that ends otherwise than well.
LEMMA HookEnds ==
  ASSUME HookInv, NEW r \in Runner, hook[r].step # "idle", Hooks!Leave(r, FALSE),
         UNCHANGED <<text, readonly, windows, manifest, credentials, hooks, edits, others, raced>>,
         protected' \in BOOLEAN, stopped' \in BOOLEAN
  PROVE  HookTypes' /\ TextInv' /\ CleanInv' /\ OneHookInv'
<1>1. hook' = [hook EXCEPT ![r] = Hooks!NoHook] /\ delivered' = Void
  BY DEF Hooks!Leave
<1>2. manifest \in Hooks!Manifest
  BY DEF HookInv, HookTypes
<1>3. Clean(Hooks!NoHook, text, manifest)
  BY <1>2, NoHookIs
<1> QED
  BY <1>1, <1>3, NoHookIs, HookMoves

-----------------------------------------------------------------------------
(* The steps of a hook. *)

HookFacts(r) ==
  /\ hook \in [Runner -> Hook] /\ hook[r] \in Hook /\ text \in FileTexts
  /\ text.edited \in Texts \cup {Void} /\ text.written \in Texts \cup {Void}
  /\ manifest \in Hooks!Manifest /\ credentials \in Credential
  /\ hook[r].action \in 1 .. Len(manifest) /\ manifest[hook[r].action] \in Types
  /\ Clean(hook[r], text, manifest)
  /\ protected \in BOOLEAN /\ readonly \in BOOLEAN /\ windows \in BOOLEAN /\ stopped \in BOOLEAN
  /\ delivered \in Credential \cup {Void} /\ raced \in BOOLEAN
  /\ hook[r].step # "idle" => delivered = Void

LEMMA HookNow ==
  ASSUME HookInv, NEW r \in Runner
  PROVE  HookFacts(r)
<1>1. HookTypes /\ CleanInv /\ OneHookInv
  BY DEF HookInv
<1>2. Clean(hook[r], text, manifest) /\ hook[r] \in Hook
  BY <1>1 DEF CleanInv, HookTypes
<1>3. hook[r].action \in 1 .. Len(manifest)
  BY <1>2 DEF Clean
<1>4. manifest[hook[r].action] \in Types
  BY <1>1, <1>3, ManifestIs DEF HookTypes
<1>5. text.edited \in Texts \cup {Void} /\ text.written \in Texts \cup {Void}
  BY <1>1 DEF HookTypes, FileTexts
<1>6. hook[r].step # "idle" => delivered = Void
  BY <1>1 DEF OneHookInv
<1> QED
  BY <1>1, <1>2, <1>3, <1>4, <1>5, <1>6 DEF HookTypes, HookFacts

\* What runFrameworkAction starts from has the file's foreign items and its block, if any.
LEMMA SourceIs ==
  ASSUME text \in FileTexts, NEW type \in Types \ {"write-file"}, NEW s \in Hooks!Source(type)
  PROVE  /\ s \in Texts /\ Hooks!Foreigns(s) = ForeignIn(text.edited)
         /\ HasBlock(s) => text.edited # Void /\ HasBlock(text.edited)
<1>1. CASE text.edited # Void
  <2>1. s = text.edited
    BY <1>1 DEF Hooks!Source
  <2>2. text.edited \in Texts
    BY <1>1 DEF FileTexts
  <2> QED
    BY <1>1, <2>1, <2>2 DEF ForeignIn
<1>2. CASE text.edited = Void
  <2>1. Own \in Credential \cup {Own} /\ Keys[1] \in KeySet
    BY KeyFacts
  <2>2. /\ Hooks!Set(Keys[1], Own) \in Hooks!Entry /\ Hooks!Set(Keys[1], Own).kind = "set"
        /\ ~Hooks!Foreign(Hooks!Set(Keys[1], Own))
        /\ Hooks!Comment(Keys[1]) \in Hooks!Entry /\ Hooks!Comment(Keys[1]).kind = "comment"
        /\ ~Hooks!Foreign(Hooks!Comment(Keys[1]))
    BY <2>1, SetIs, CommentIs
  <2>3. s \in {<<>>, <<Hooks!Comment(Keys[1])>>, <<Hooks!Set(Keys[1], Own)>>}
    <3>1. type \in {"dotenv", "php-array", "php-constants", "php-include"}
      BY DEF Types
    <3> QED
      BY <1>2, <3>1 DEF Hooks!Source
  <2>4. s \in Texts /\ Hooks!Foreigns(s) = <<>> /\ ~HasBlock(s)
    <3>1. CASE s = <<>>
      BY <3>1, PlainText
    <3>2. CASE s = <<Hooks!Comment(Keys[1])>>
      <4>1. Hooks!Comment(Keys[1]).kind # "block"
        BY <2>2
      <4> QED
        BY <3>2, <4>1, <2>2, PlainText
    <3>3. CASE s = <<Hooks!Set(Keys[1], Own)>>
      <4>1. Hooks!Set(Keys[1], Own).kind # "block"
        BY <2>2
      <4> QED
        BY <3>3, <4>1, <2>2, PlainText
    <3> QED
      BY <2>3, <3>1, <3>2, <3>3
  <2> QED
    BY <1>2, <2>4 DEF ForeignIn
<1> QED
  BY <1>1, <1>2

HookStepped == HookTypes' /\ TextInv' /\ CleanInv' /\ OneHookInv'

LEMMA BeginHookKeeps ==
  ASSUME HookInv, NEW r \in Runner, Hooks!BeginHook(r)
  PROVE  HookStepped /\ ProtectInv'
<1> DEFINE new == [Hooks!NoHook EXCEPT !.step = "read", !.value = credentials, !.alone = Hooks!Busy = {}]
           other(q) == [hook[q] EXCEPT !.alone = @ /\ q \notin Hooks!Busy]
<1>1. /\ hook[r].step = "idle" /\ hooks < MaxHooks /\ hooks' = hooks + 1
      /\ hook' = [q \in Runner |-> IF q = r THEN new ELSE other(q)]
      /\ delivered' = Void
      /\ UNCHANGED <<text, protected, readonly, windows, manifest, credentials, edits, others, raced, stopped>>
  BY DEF Hooks!BeginHook, Hooks!On
<1>2. HookTypes /\ TextInv /\ CleanInv /\ OneHookInv /\ ProtectInv
  BY DEF HookInv
<1>3. /\ new \in Hook /\ new.step = "read" /\ new.action = 1 /\ new.value = credentials
      /\ new.alone = (Hooks!Busy = {}) /\ new.open = FALSE
  <2>1. Hooks!NoHook \in Hook /\ credentials \in Credential
    BY <1>2, NoHookIs DEF HookTypes
  <2> QED
    BY <2>1, NoHookIs DEF Hook, HookSteps
<1>4. ASSUME NEW q \in Runner
      PROVE  /\ other(q) \in Hook /\ other(q).step = hook[q].step /\ other(q).action = hook[q].action
             /\ other(q).value = hook[q].value /\ other(q).read = hook[q].read
             /\ other(q).result = hook[q].result /\ other(q).open = hook[q].open
             /\ other(q).alone = (hook[q].alone /\ q \notin Hooks!Busy)
  <2>1. hook[q] \in Hook
    BY <1>2 DEF HookTypes
  <2> QED
    BY <2>1 DEF Hook
<1> HIDE DEF new, other
<1>5. /\ hook'[r] = new
      /\ \A q \in Runner \ {r} : hook'[q] = other(q)
  BY <1>1
<1>6. \A q \in Runner : q \notin Hooks!Busy <=> hook[q].step = "idle"
  BY DEF Hooks!Busy, Hooks!On
<1>7. HookTypes'
  <2>1. hook' \in [Runner -> Hook]
    BY <1>1, <1>3, <1>4
  <2>2. hooks' \in 0 .. MaxHooks
    BY <1>1, <1>2, KeyFacts DEF HookTypes
  <2> QED
    BY <1>1, <1>2, <2>1, <2>2 DEF HookTypes
<1>8. TextInv'
  BY <1>1, <1>2 DEF TextInv
<1>9. CleanInv'
  <2>1. Clean(new, text, manifest)
    <3>1. manifest \in Hooks!Manifest /\ credentials \in Credential
      BY <1>2 DEF HookTypes
    <3>2. 1 \in 1 .. Len(manifest) /\ manifest[1] # "php-include"
      BY <3>1, ManifestIs
    <3> QED
      BY <1>3, <3>1, <3>2 DEF Clean
  <2>2. ASSUME NEW q \in Runner PROVE Clean(other(q), text, manifest)
    <3>1. Clean(hook[q], text, manifest)
      BY <1>2 DEF CleanInv
    <3> QED
      BY <1>4, <3>1 DEF Clean
  <2> QED
    BY <1>1, <1>5, <2>1, <2>2 DEF CleanInv
<1>10. OneHookInv'
  <2>1. ASSUME NEW p \in Runner, hook'[p].step # "idle", hook'[p].alone, NEW q \in Runner \ {p}
        PROVE  hook'[q].step = "idle"
    <3>1. p = r
      BY <1>4, <1>5, <1>6, <2>1
    <3>2. hook[q].step = "idle"
      BY <1>3, <1>5, <1>6, <2>1, <3>1
    <3> QED
      BY <1>4, <1>5, <3>1, <3>2
  <2> QED
    BY <1>1, <2>1 DEF OneHookInv
<1>11. ProtectInv'
  <2>1. ~hook[r].open
    BY <1>1, <1>2 DEF ProtectInv
  <2>2. \A q \in Runner : hook'[q].open = hook[q].open /\ (hook[q].open => hook'[q].step = hook[q].step)
    <3>1. hook'[r].open = hook[r].open
      <4>1. hook[r].open = FALSE
        BY <1>2, <2>1 DEF HookTypes, Hook
      <4> QED
        BY <1>3, <1>5, <4>1
    <3>2. ASSUME NEW q \in Runner \ {r}
          PROVE  hook'[q].open = hook[q].open /\ hook'[q].step = hook[q].step
      BY <1>4, <1>5
    <3> QED
      BY <2>1, <3>1, <3>2
  <2> QED
    BY <1>1, <1>2, <2>2 DEF ProtectInv
<1> QED
  BY <1>7, <1>8, <1>9, <1>10, <1>11 DEF HookStepped

\* Steps that keep who has the attribute open, and the attribute itself.
LEMMA ProtectStays ==
  ASSUME HookInv, UNCHANGED <<protected, readonly, windows, stopped>>,
         \A q \in Runner : hook'[q].open = hook[q].open
                           /\ (hook[q].open => hook'[q].step \in {"replace", "restore"})
  PROVE  ProtectInv'
BY DEF HookInv, ProtectInv

LEMMA EditTextKeeps ==
  ASSUME HookInv, NEW r \in Runner, Hooks!EditText(r)
  PROVE  HookStepped /\ ProtectInv'
<1>1. /\ hook[r].step = "read"
      /\ UNCHANGED <<text, protected, others, raced, stopped>>
      /\ UNCHANGED <<readonly, windows, manifest, credentials, hooks, edits>>
  BY DEF Hooks!EditText, Hooks!On, Hooks!Kept
<1>2. HookFacts(r) /\ TextInv /\ ProtectInv
  BY HookNow DEF HookInv
<1> DEFINE type == manifest[hook[r].action]
           v == hook[r].value
<1>3. type \in Types /\ v \in Credential /\ (type = "php-include" => text.written # Void)
  BY <1>1, <1>2 DEF HookFacts, Clean
<1>4. PICK s \in Hooks!Source(type) :
        IF Hooks!Refused(type, s) THEN Hooks!Leave(r, FALSE)
        ELSE /\ hook' = [hook EXCEPT ![r].step = "stage", ![r].read = text[Hooks!File(r)],
                                     ![r].result = Hooks!Edited(type, s, v)]
             /\ UNCHANGED delivered
  BY DEF Hooks!EditText, Hooks!Action
<1>5. hook[r].open = FALSE
  BY <1>1, <1>2 DEF HookFacts, Hook, ProtectInv
<1>6. CASE Hooks!Refused(type, s)
  <2>1. Hooks!Leave(r, FALSE)
    BY <1>4, <1>6
  <2>2. HookStepped
    BY <1>1, <1>2, <2>1, HookEnds DEF HookFacts, HookStepped
  <2>3. hook' = [hook EXCEPT ![r] = Hooks!NoHook]
    BY <2>1 DEF Hooks!Leave
  <2>4. /\ hook'[r] = Hooks!NoHook
        /\ \A q \in Runner \ {r} : hook'[q] = hook[q]
    BY <1>2, <2>3 DEF HookFacts
  <2>5. ProtectInv'
    BY <1>1, <1>2, <1>5, <2>4, NoHookIs, ProtectStays DEF ProtectInv
  <2> QED
    BY <2>2, <2>5
<1>7. CASE ~Hooks!Refused(type, s)
  <2> DEFINE e == Hooks!Edited(type, s, v)
             h == [hook[r] EXCEPT !.step = "stage", !.read = text[Hooks!File(r)], !.result = e]
  <2>1. hook' = [hook EXCEPT ![r] = h] /\ UNCHANGED delivered
    BY <1>4, <1>7
  <2>2. /\ Settled(type, e, v)
        /\ type # "write-file" => /\ Hooks!Foreigns(e) = ForeignIn(text.edited)
                                  /\ HasBlock(e) => text.written # Void
    <3>1. CASE type = "write-file"
      BY <1>3, <3>1, WriteSettles
    <3>2. CASE type # "write-file"
      <4>1. type \in Types \ {"write-file"} /\ text \in FileTexts
        BY <1>2, <1>3, <3>2 DEF HookFacts
      <4>2. /\ s \in Texts /\ Hooks!Foreigns(s) = ForeignIn(text.edited)
            /\ HasBlock(s) => text.edited # Void /\ HasBlock(text.edited)
        BY <1>4, <4>1, SourceIs
      <4>3. EditedFrom(type, s, e, v)
        BY <1>3, <1>7, <4>1, <4>2, EditsAre
      <4> QED
        BY <1>2, <1>3, <4>2, <4>3 DEF EditedFrom, TextInv
    <3> QED
      BY <3>1, <3>2
  <2>3. /\ text[Hooks!File(r)] \in Texts \cup {Void}
        /\ type # "write-file" => text[Hooks!File(r)] = text.edited
    BY <1>2 DEF HookFacts, Hooks!File, Hooks!Action
  <2>4. e \in Texts
    BY <2>2 DEF Settled
  <2>5. /\ h \in Hook /\ h.step = "stage" /\ h.result = e /\ h.read = text[Hooks!File(r)]
        /\ h.action = hook[r].action /\ h.value = v /\ h.alone = hook[r].alone /\ h.open = hook[r].open
    <3>1. hook[r] \in Hook
      BY <1>2 DEF HookFacts
    <3> HIDE DEF e
    <3> QED
      BY <2>3, <2>4, <3>1 DEF Hook, HookSteps
  <2> HIDE DEF h, e
  <2>6. Clean(h, text, manifest)
    <3>1. Clean(hook[r], text, manifest)
      BY <1>2 DEF HookFacts
    <3> QED
      BY <1>1, <1>3, <2>2, <2>3, <2>5, <3>1 DEF Clean
  <2>7. HookStepped
    BY <1>1, <1>2, <2>1, <2>5, <2>6, HookMoves DEF HookFacts, HookStepped
  <2>8. /\ hook'[r] = h
        /\ \A q \in Runner \ {r} : hook'[q] = hook[q]
    BY <1>2, <2>1 DEF HookFacts
  <2>9. ProtectInv'
    BY <1>1, <1>2, <1>5, <2>5, <2>8, ProtectStays DEF ProtectInv
  <2> QED
    BY <2>7, <2>9
<1> QED
  BY <1>6, <1>7

LEMMA StageTextKeeps ==
  ASSUME HookInv, NEW r \in Runner, Hooks!StageText(r)
  PROVE  HookStepped /\ ProtectInv'
<1>1. /\ hook[r].step = "stage"
      /\ UNCHANGED <<text, protected, others, raced, stopped>>
      /\ UNCHANGED <<readonly, windows, manifest, credentials, hooks, edits>>
      /\ \/ Hooks!Leave(r, FALSE)
         \/ hook' = [hook EXCEPT ![r].step = "replace"] /\ UNCHANGED delivered
  BY DEF Hooks!StageText, Hooks!On, Hooks!Kept
<1>2. HookFacts(r) /\ TextInv /\ ProtectInv
  BY HookNow DEF HookInv
<1>3. hook[r].open = FALSE
  BY <1>1, <1>2 DEF HookFacts, Hook, ProtectInv
<1>4. CASE Hooks!Leave(r, FALSE)
  <2>1. HookStepped
    BY <1>1, <1>2, <1>4, HookEnds DEF HookFacts, HookStepped
  <2>2. hook' = [hook EXCEPT ![r] = Hooks!NoHook]
    BY <1>4 DEF Hooks!Leave
  <2>3. /\ hook'[r] = Hooks!NoHook
        /\ \A q \in Runner \ {r} : hook'[q] = hook[q]
    BY <1>2, <2>2 DEF HookFacts
  <2>4. ProtectInv'
    BY <1>1, <1>2, <1>3, <2>3, NoHookIs, ProtectStays DEF ProtectInv
  <2> QED
    BY <2>1, <2>4
<1>5. CASE hook' = [hook EXCEPT ![r].step = "replace"] /\ UNCHANGED delivered
  <2> DEFINE h == [hook[r] EXCEPT !.step = "replace"]
  <2>1. hook' = [hook EXCEPT ![r] = h] /\ UNCHANGED delivered
    BY <1>5
  <2>2. /\ h \in Hook /\ h.step = "replace" /\ h.result = hook[r].result /\ h.read = hook[r].read
        /\ h.action = hook[r].action /\ h.value = hook[r].value /\ h.alone = hook[r].alone
        /\ h.open = hook[r].open
    BY <1>2 DEF HookFacts, Hook, HookSteps
  <2> HIDE DEF h
  <2>3. Clean(h, text, manifest)
    <3>1. Clean(hook[r], text, manifest)
      BY <1>2 DEF HookFacts
    <3> QED
      BY <1>1, <2>2, <3>1 DEF Clean
  <2>4. HookStepped
    BY <1>1, <1>2, <2>1, <2>2, <2>3, HookMoves DEF HookFacts, HookStepped
  <2>5. /\ hook'[r] = h
        /\ \A q \in Runner \ {r} : hook'[q] = hook[q]
    BY <1>2, <2>1 DEF HookFacts
  <2>6. ProtectInv'
    BY <1>1, <1>2, <1>3, <2>2, <2>5, ProtectStays DEF ProtectInv
  <2> QED
    BY <2>4, <2>6
<1> QED
  BY <1>1, <1>4, <1>5

LEMMA UnprotectKeeps ==
  ASSUME HookInv, NEW r \in Runner, Hooks!Unprotect(r)
  PROVE  HookStepped /\ ProtectInv'
<1>1. /\ hook[r].step = "replace" /\ windows /\ protected /\ protected' = FALSE
      /\ UNCHANGED <<text, others, raced, stopped, delivered>>
      /\ UNCHANGED <<readonly, windows, manifest, credentials, hooks, edits>>
      /\ hook' = [hook EXCEPT ![r].open = TRUE]
  BY DEF Hooks!Unprotect, Hooks!On, Hooks!Kept
<1>2. HookFacts(r) /\ TextInv /\ ProtectInv
  BY HookNow DEF HookInv
<1> DEFINE h == [hook[r] EXCEPT !.open = TRUE]
<1>3. hook' = [hook EXCEPT ![r] = h]
  BY <1>1
<1>4. /\ h \in Hook /\ h.step = "replace" /\ h.result = hook[r].result /\ h.read = hook[r].read
      /\ h.action = hook[r].action /\ h.value = hook[r].value /\ h.alone = hook[r].alone
      /\ h.open = TRUE
  BY <1>1, <1>2 DEF HookFacts, Hook, HookSteps
<1> HIDE DEF h
<1>5. Clean(h, text, manifest)
  <2>1. Clean(hook[r], text, manifest)
    BY <1>2 DEF HookFacts
  <2> QED
    BY <1>1, <1>4, <2>1 DEF Clean
<1>6. HookStepped
  BY <1>1, <1>2, <1>3, <1>4, <1>5, HookMoves DEF HookFacts, HookStepped
<1>7. /\ hook'[r] = h
      /\ \A q \in Runner \ {r} : hook'[q] = hook[q]
  BY <1>2, <1>3 DEF HookFacts
<1>8. ProtectInv'
  BY <1>1, <1>2, <1>4, <1>7 DEF ProtectInv
<1> QED
  BY <1>6, <1>8

LEMMA ReplaceKeeps ==
  ASSUME HookInv, NEW r \in Runner, Hooks!Replace(r)
  PROVE  HookStepped /\ ProtectInv'
<1>1. /\ hook[r].step = "replace"
      /\ text' = [text EXCEPT ![Hooks!File(r)] = hook[r].result]
      /\ hook' = [hook EXCEPT ![r].step = "restore"]
      /\ raced' = (raced \/ (Hooks!File(r) = "edited" /\ text.edited # hook[r].read))
      /\ protected' = (protected /\ (Hooks!File(r) # "edited" \/ windows))
      /\ UNCHANGED <<others, stopped, delivered>>
      /\ UNCHANGED <<readonly, windows, manifest, credentials, hooks, edits>>
  BY DEF Hooks!Replace, Hooks!On, Hooks!Kept
<1>2. HookFacts(r) /\ HookTypes /\ TextInv /\ CleanInv /\ OneHookInv /\ ProtectInv
  BY HookNow DEF HookInv
<1> DEFINE type == manifest[hook[r].action]
           v == hook[r].value
           h == [hook[r] EXCEPT !.step = "restore"]
           result == hook[r].result
<1>3. /\ type \in Types /\ v \in Credential /\ Settled(type, result, v)
      /\ type = "php-include" => text.written # Void
      /\ type # "write-file" => /\ Hooks!Foreigns(result) = ForeignIn(hook[r].read)
                                /\ HasBlock(result) => text.written # Void
  BY <1>1, <1>2 DEF HookFacts, Clean
<1>4. result \in Texts /\ result # Void
  BY <1>3, KeyFacts DEF Settled
<1>5. Hooks!File(r) = IF type = "write-file" THEN "written" ELSE "edited"
  BY DEF Hooks!File, Hooks!Action
<1>6. /\ text' \in FileTexts
      /\ text'.edited = (IF type = "write-file" THEN text.edited ELSE result)
      /\ text'.written = (IF type = "write-file" THEN result ELSE text.written)
  BY <1>1, <1>2, <1>4, <1>5 DEF HookFacts, FileTexts
<1>7. /\ h \in Hook /\ h.step = "restore" /\ h.result = result /\ h.read = hook[r].read
      /\ h.action = hook[r].action /\ h.value = v /\ h.alone = hook[r].alone
      /\ h.open = hook[r].open
  BY <1>2 DEF HookFacts, Hook, HookSteps
<1>8. hook' = [hook EXCEPT ![r] = h]
  BY <1>1
<1> HIDE DEF h, result
<1>9. /\ hook'[r] = h /\ hook' \in [Runner -> Hook]
      /\ \A q \in Runner \ {r} : hook'[q] = hook[q]
  BY <1>2, <1>7, <1>8 DEF HookFacts
<1>10. HookTypes'
  BY <1>1, <1>2, <1>6, <1>9 DEF HookTypes, HookFacts
<1>11. delivered' = Void
  BY <1>1, <1>2 DEF HookFacts
<1>12. TextInv'
  <2>1. ~raced' \/ text'.edited = Void => ForeignIn(text'.edited) = others'
    <3>1. CASE type = "write-file"
      BY <1>1, <1>2, <1>5, <1>6, <3>1 DEF TextInv
    <3>2. CASE type # "write-file"
      <4> SUFFICES ASSUME ~raced' PROVE ForeignIn(result) = others
        BY <1>1, <1>4, <1>6, <3>2
      <4>1. ~raced /\ text.edited = hook[r].read
        BY <1>1, <1>5, <3>2
      <4>2. ForeignIn(hook[r].read) = others
        BY <1>2, <4>1 DEF TextInv
      <4>3. ForeignIn(result) = Hooks!Foreigns(result)
        BY <1>4 DEF ForeignIn
      <4> QED
        BY <1>3, <3>2, <4>2, <4>3 DEF result
    <3> QED
      BY <3>1, <3>2
  <2>2. text'.edited # Void /\ HasBlock(text'.edited) => text'.written # Void
    BY <1>2, <1>3, <1>4, <1>6 DEF TextInv, result
  <2> QED
    BY <1>11, <2>1, <2>2 DEF TextInv
<1>13. CleanInv'
  <2>1. text.written # Void => text'.written # Void
    BY <1>4, <1>6
  <2>2. ASSUME NEW q \in Runner \ {r} PROVE Clean(hook[q], text', manifest)
    <3>1. Clean(hook[q], text, manifest)
      BY <1>2 DEF CleanInv
    <3>2. hook[q].step # "idle" => ~hook[q].alone
      BY <1>1, <1>2 DEF OneHookInv
    <3> QED
      BY <2>1, <3>1, <3>2 DEF Clean
  <2>3. Clean(h, text', manifest)
    <3>1. Clean(hook[r], text, manifest)
      BY <1>2 DEF HookFacts
    <3>2. Through(type, text', v)
      BY <1>3, <1>4, <1>6 DEF Through, FileOf, result
    <3>3. ASSUME hook[r].alone, NEW i \in 1 .. hook[r].action - 1
          PROVE  Through(manifest[i], text', v)
      <4>1. Through(manifest[i], text, v)
        BY <1>1, <3>1, <3>3 DEF Clean
      <4>2. manifest[i] = "write-file" /\ type = "php-include"
        <5>1. manifest \in Hooks!Manifest /\ hook[r].action \in 1 .. Len(manifest)
          BY <1>2 DEF HookFacts
        <5>2. Len(manifest) \in {1, 2} /\ (Len(manifest) = 2 => manifest[1] = "write-file" /\ manifest[2] = "php-include")
          BY <5>1, ManifestIs
        <5>3. hook[r].action \in {1, 2}
          BY <1>2 DEF HookFacts, Hook
        <5>4. i = 1 /\ hook[r].action = 2
          BY <3>3, <5>3
        <5>5. Len(manifest) = 2
          BY <5>1, <5>2, <5>4
        <5> QED
          BY <5>2, <5>4, <5>5
      <4> QED
        BY <1>6, <4>1, <4>2 DEF Through, FileOf
    <3>4. type = "write-file" => text'.written # Void
      BY <1>4, <1>6
    <3>5. type = "php-include" => text'.written # Void
      BY <1>3, <2>1
    <3>6. hook[r].action \in 1 .. Len(manifest)
      BY <1>2 DEF HookFacts
    <3> QED
      BY <1>3, <1>7, <3>2, <3>3, <3>4, <3>5, <3>6 DEF Clean
  <2>4. manifest' = manifest
    BY <1>1
  <2> QED
    BY <1>9, <2>2, <2>3, <2>4 DEF CleanInv
<1>14. OneHookInv'
  BY <1>1, <1>2, <1>7, <1>9, <1>11 DEF OneHookInv
<1>15. ProtectInv'
  <2>1. \A q \in Runner : hook'[q].open = hook[q].open
                          /\ (hook[q].open => hook'[q].step \in {"replace", "restore"})
    BY <1>2, <1>7, <1>9 DEF ProtectInv
  <2>2. windows => protected' = protected
    BY <1>1, <1>2 DEF HookFacts
  <2>3. protected' => protected
    BY <1>1, <1>2 DEF HookFacts
  <2>4. UNCHANGED <<readonly, windows, stopped>>
    BY <1>1
  <2> QED
    BY <1>2, <2>1, <2>2, <2>3, <2>4 DEF ProtectInv
<1> QED
  BY <1>10, <1>12, <1>13, <1>14, <1>15 DEF HookStepped

\* The end of a hook, whatever happens to the attribute.
LEMMA EndKeeps ==
  ASSUME HookInv, NEW r \in Runner, hook[r].step # "idle", Hooks!Leave(r, FALSE),
         UNCHANGED <<text, readonly, windows, manifest, credentials, hooks, edits, others, raced>>,
         \/ protected' = (protected \/ hook[r].open) /\ stopped' = stopped
         \/ protected' = protected /\ stopped' = TRUE
  PROVE  HookStepped /\ ProtectInv'
<1>1. HookFacts(r) /\ ProtectInv
  BY HookNow DEF HookInv
<1>2. hook[r].open \in BOOLEAN
  BY <1>1 DEF HookFacts, Hook
<1>3. protected' \in BOOLEAN /\ stopped' \in BOOLEAN
  BY <1>1, <1>2 DEF HookFacts
<1>4. HookStepped
  BY <1>3, HookEnds DEF HookStepped
<1>5. hook' = [hook EXCEPT ![r] = Hooks!NoHook]
  BY DEF Hooks!Leave
<1>6. /\ hook'[r] = Hooks!NoHook
      /\ \A q \in Runner \ {r} : hook'[q] = hook[q]
  BY <1>1, <1>5 DEF HookFacts
<1>7. hook'[r].open = FALSE
  BY <1>6, NoHookIs
<1>8. ProtectInv'
  <2>1. windows' \/ protected' => readonly'
    BY <1>1, <1>2 DEF ProtectInv, HookFacts
  <2>2. ASSUME windows', ~stopped', ~protected' PROVE \E q \in Runner : hook'[q].open
    <3>1. ~protected /\ ~hook[r].open /\ ~stopped /\ windows
      BY <1>1, <1>2, <2>2 DEF HookFacts
    <3>2. PICK q \in Runner : hook[q].open
      BY <1>1, <3>1 DEF ProtectInv
    <3> QED
      BY <1>6, <3>1, <3>2
  <2>3. ASSUME NEW q \in Runner, hook'[q].open
        PROVE  readonly' /\ hook'[q].step \in {"replace", "restore"}
    BY <1>1, <1>6, <1>7, <2>3 DEF ProtectInv
  <2> QED
    BY <2>1, <2>2, <2>3 DEF ProtectInv
<1> QED
  BY <1>4, <1>8

LEMMA ReplaceFailsKeeps ==
  ASSUME HookInv, NEW r \in Runner, Hooks!ReplaceFails(r)
  PROVE  HookStepped /\ ProtectInv'
BY EndKeeps DEF Hooks!ReplaceFails, Hooks!On, Hooks!Kept

LEMMA KillKeeps ==
  ASSUME HookInv, NEW r \in Runner, Hooks!Kill(r)
  PROVE  HookStepped /\ ProtectInv'
BY EndKeeps DEF Hooks!Kill, Hooks!On, Hooks!Kept

LEMMA RestoreKeeps ==
  ASSUME HookInv, NEW r \in Runner, Hooks!Restore(r)
  PROVE  HookStepped /\ ProtectInv'
<1>1. /\ hook[r].step = "restore"
      /\ protected' = (protected \/ hook[r].open)
      /\ IF hook[r].action < Len(manifest)
         THEN /\ hook' = [hook EXCEPT ![r].step = "read", ![r].action = @ + 1, ![r].read = Void,
                                      ![r].result = <<>>, ![r].open = FALSE]
              /\ UNCHANGED delivered
         ELSE Hooks!Leave(r, TRUE)
      /\ UNCHANGED <<text, others, raced, stopped>>
      /\ UNCHANGED <<readonly, windows, manifest, credentials, hooks, edits>>
  BY DEF Hooks!Restore, Hooks!On, Hooks!Kept
<1>2. HookFacts(r) /\ TextInv /\ ProtectInv
  BY HookNow DEF HookInv
<1>3. Clean(hook[r], text, manifest) /\ hook[r].open \in BOOLEAN
  BY <1>2 DEF HookFacts, Hook
<1>4. protected' \in BOOLEAN /\ stopped' \in BOOLEAN
  BY <1>1, <1>2, <1>3 DEF HookFacts
<1>5. ASSUME NEW h, hook' = [hook EXCEPT ![r] = h], h.open = FALSE
      PROVE  ProtectInv'
  <2>1. /\ hook'[r] = h
        /\ \A q \in Runner \ {r} : hook'[q] = hook[q]
    BY <1>2, <1>5 DEF HookFacts
  <2>2. windows' \/ protected' => readonly'
    BY <1>1, <1>2, <1>3 DEF ProtectInv, HookFacts
  <2>3. ASSUME windows', ~stopped', ~protected' PROVE \E q \in Runner : hook'[q].open
    <3>1. ~protected /\ ~hook[r].open /\ ~stopped /\ windows
      BY <1>1, <1>2, <1>3, <2>3 DEF HookFacts
    <3>2. PICK q \in Runner : hook[q].open
      BY <1>2, <3>1 DEF ProtectInv
    <3> QED
      BY <2>1, <3>1, <3>2
  <2>4. ASSUME NEW q \in Runner, hook'[q].open
        PROVE  readonly' /\ hook'[q].step \in {"replace", "restore"}
    BY <1>1, <1>2, <1>5, <2>1, <2>4 DEF ProtectInv
  <2> QED
    BY <2>2, <2>3, <2>4 DEF ProtectInv
<1>6. CASE hook[r].action < Len(manifest)
  <2> DEFINE h == [hook[r] EXCEPT !.step = "read", !.action = @ + 1, !.read = Void,
                                  !.result = <<>>, !.open = FALSE]
  <2>1. hook' = [hook EXCEPT ![r] = h] /\ UNCHANGED delivered
    BY <1>1, <1>6
  <2>2. /\ hook[r].action = 1 /\ Len(manifest) = 2 /\ manifest[1] = "write-file"
        /\ manifest[2] = "php-include"
    <3>1. manifest \in Hooks!Manifest /\ hook[r].action \in {1, 2}
      BY <1>2 DEF HookFacts, Hook
    <3>2. Len(manifest) \in {1, 2} /\ (Len(manifest) = 2 => manifest[1] = "write-file" /\ manifest[2] = "php-include")
      BY <3>1, ManifestIs
    <3>3. ASSUME NEW a \in {1, 2}, NEW n \in {1, 2}, a < n PROVE a = 1 /\ n = 2
      BY <3>3
    <3>4. hook[r].action = 1 /\ Len(manifest) = 2
      BY <1>6, <3>1, <3>2, <3>3
    <3> QED
      BY <3>2, <3>4
  <2>3. /\ h \in Hook /\ h.step = "read" /\ h.action = 2 /\ h.value = hook[r].value
        /\ h.alone = hook[r].alone /\ h.open = FALSE
    <3>1. hook[r] \in Hook /\ <<>> \in Texts
      BY <1>2, PlainText DEF HookFacts
    <3>2. hook[r].action + 1 = 2 /\ 2 \in 1 .. 2
      BY <2>2
    <3> QED
      BY <3>1, <3>2 DEF Hook, HookSteps
  <2> HIDE DEF h
  <2>4. Clean(h, text, manifest)
    <3>1. /\ hook[r].value \in Credential /\ text.written # Void
          /\ hook[r].alone => Through("write-file", text, hook[r].value)
      BY <1>1, <1>3, <2>2 DEF Clean
    <3>2. \A i \in 1 .. h.action - 1 : i = 1
      BY <2>3
    <3>3. h.action \in 1 .. Len(manifest)
      BY <2>2, <2>3
    <3>4. manifest[h.action] = "php-include"
      BY <2>2, <2>3
    <3>5. h.alone => \A i \in 1 .. h.action - 1 : Through(manifest[i], text, h.value)
      BY <2>2, <2>3, <3>1, <3>2
    <3> QED
      BY <2>3, <3>1, <3>3, <3>4, <3>5 DEF Clean
  <2>5. delivered' = Void
    BY <1>1, <1>2, <2>1 DEF HookFacts
  <2>6. HookStepped
    BY <1>1, <1>4, <2>1, <2>3, <2>4, <2>5, HookMoves DEF HookStepped
  <2> QED
    BY <1>5, <2>1, <2>3, <2>6
<1>7. CASE ~(hook[r].action < Len(manifest))
  <2>1. /\ hook' = [hook EXCEPT ![r] = Hooks!NoHook]
        /\ delivered' = IF hook[r].alone THEN hook[r].value ELSE Void
    BY <1>1, <1>7 DEF Hooks!Leave
  <2>2. hook[r].value \in Credential
    BY <1>1, <1>3 DEF Clean
  <2>3. hook[r].action = Len(manifest)
    <3>1. manifest \in Hooks!Manifest /\ hook[r].action \in 1 .. Len(manifest)
      BY <1>2 DEF HookFacts
    <3>2. Len(manifest) \in {1, 2}
      BY <3>1, ManifestIs
    <3> QED
      BY <1>7, <3>1, <3>2
  <2>4. ASSUME delivered' # Void, NEW i \in 1 .. Len(manifest)
        PROVE  Through(manifest[i], text, delivered')
    <3>1. hook[r].alone /\ delivered' = hook[r].value
      BY <2>1, <2>4
    <3>2. i \in 1 .. hook[r].action - 1 \/ i = hook[r].action
      <4>1. Len(manifest) \in {1, 2}
        BY <1>2, ManifestIs DEF HookFacts
      <4> QED
        BY <2>3, <4>1
    <3> QED
      BY <1>1, <1>3, <3>1, <3>2 DEF Clean
  <2>5. delivered' \in Credential \cup {Void} /\ (delivered' # Void => hook[r].alone)
    BY <2>1, <2>2
  <2>6. Clean(Hooks!NoHook, text, manifest)
    BY <1>2, NoHookIs DEF HookFacts
  <2>7. HookStepped
    BY <1>1, <1>4, <2>1, <2>4, <2>5, <2>6, NoHookIs, HookMoves DEF HookStepped
  <2> QED
    BY <1>5, <2>1, <2>7, NoHookIs
<1> QED
  BY <1>6, <1>7

LEMMA EditByHandKeeps ==
  ASSUME HookInv, Hooks!EditByHand
  PROVE  HookStepped /\ ProtectInv'
<1> DEFINE h(q) == [hook[q] EXCEPT !.alone = @ /\ q \notin Hooks!Busy]
           line == Hooks!Text(1)
<1>1. /\ edits < MaxEdits /\ edits' = edits + 1 /\ text.edited # Void
      /\ text' = [text EXCEPT !.edited = Append(@, line)]
      /\ others' = Append(others, line)
      /\ hook' = [q \in Runner |-> h(q)] /\ delivered' = Void
      /\ UNCHANGED <<protected, readonly, windows, manifest, credentials, hooks, raced, stopped>>
  BY DEF Hooks!EditByHand, Hooks!Disturb
<1>2. HookTypes /\ TextInv /\ CleanInv /\ OneHookInv /\ ProtectInv
  BY DEF HookInv
<1>3. line \in Hooks!Entry /\ Hooks!Foreign(line) /\ line.kind = "text"
  BY TextIs
<1> HIDE DEF line
<1>4. ASSUME NEW q \in Runner
      PROVE  /\ h(q) \in Hook /\ h(q).step = hook[q].step /\ h(q).action = hook[q].action
             /\ h(q).value = hook[q].value /\ h(q).read = hook[q].read
             /\ h(q).result = hook[q].result /\ h(q).open = hook[q].open
             /\ (h(q).step # "idle" => ~h(q).alone)
  <2>1. hook[q] \in Hook
    BY <1>2 DEF HookTypes
  <2> QED
    BY <2>1 DEF Hook, Hooks!Busy, Hooks!On
<1> HIDE DEF h
<1>5. hook' \in [Runner -> Hook] /\ \A q \in Runner : hook'[q] = h(q)
  BY <1>1, <1>4
<1>6. text.edited \in Texts /\ text \in FileTexts
  BY <1>1, <1>2 DEF HookTypes, FileTexts
<1>7. /\ Append(text.edited, line) \in Texts /\ Append(text.edited, line) # Void
      /\ Hooks!Foreigns(Append(text.edited, line)) = Append(Hooks!Foreigns(text.edited), line)
  <2>1. Append(text.edited, line) \in Texts
    BY <1>3, <1>6 DEF Texts
  <2> QED
    BY <1>3, <1>6, <2>1, ForeignsMore, KeyFacts
<1>8. HasBlock(Append(text.edited, line)) => HasBlock(text.edited)
  <2> SUFFICES ASSUME NEW i \in 1 .. Len(Append(text.edited, line)),
                      Append(text.edited, line)[i].kind = "block"
               PROVE  HasBlock(text.edited)
    BY DEF HasBlock
  <2>1. Len(text.edited) \in Nat /\ Len(Append(text.edited, line)) = Len(text.edited) + 1
    BY <1>3, <1>6 DEF Texts
  <2>2. CASE i \in 1 .. Len(text.edited)
    <3>1. Append(text.edited, line)[i] = text.edited[i]
      BY <1>3, <1>6, <2>2 DEF Texts
    <3> QED
      BY <2>2, <3>1 DEF HasBlock
  <2>3. CASE i = Len(text.edited) + 1
    <3>1. Append(text.edited, line)[i] = line
      BY <1>3, <1>6, <2>3 DEF Texts
    <3> QED
      BY <1>3, <3>1
  <2> QED
    BY <2>1, <2>2, <2>3
<1>9. /\ text'.edited = Append(text.edited, line) /\ text'.written = text.written
      /\ text' \in FileTexts
  BY <1>1, <1>6, <1>7 DEF FileTexts
<1>10. HookTypes'
  <2>1. others' \in Texts
    BY <1>1, <1>2, <1>3 DEF HookTypes, Texts
  <2>2. edits' \in 0 .. MaxEdits
    BY <1>1, <1>2, KeyFacts DEF HookTypes
  <2> QED
    BY <1>1, <1>2, <1>5, <1>9, <2>1, <2>2 DEF HookTypes
<1>11. TextInv'
  BY <1>1, <1>2, <1>7, <1>8, <1>9 DEF TextInv, ForeignIn
<1>12. CleanInv'
  <2>1. ASSUME NEW q \in Runner PROVE Clean(h(q), text', manifest)
    <3>1. Clean(hook[q], text, manifest)
      BY <1>2 DEF CleanInv
    <3> QED
      BY <1>4, <1>9, <3>1 DEF Clean
  <2>2. manifest' = manifest
    BY <1>1
  <2> QED
    BY <1>5, <2>1, <2>2 DEF CleanInv
<1>13. OneHookInv'
  BY <1>1, <1>4, <1>5 DEF OneHookInv
<1>14. ProtectInv'
  <2>1. \A q \in Runner : hook'[q].open = hook[q].open /\ (hook[q].open => hook'[q].step \in {"replace", "restore"})
    BY <1>2, <1>4, <1>5 DEF ProtectInv
  <2>2. UNCHANGED <<protected, readonly, windows, stopped>>
    BY <1>1
  <2> QED
    BY <2>1, <2>2, ProtectStays
<1> QED
  BY <1>10, <1>11, <1>12, <1>13, <1>14 DEF HookStepped

LEMMA ChangeCredentialsKeeps ==
  ASSUME HookInv, Hooks!ChangeCredentials
  PROVE  HookStepped /\ ProtectInv'
<1>1. /\ edits < MaxEdits /\ edits' = edits + 1 /\ delivered' = Void
      /\ credentials' \in Credential
      /\ UNCHANGED <<text, protected, readonly, windows, manifest, hook, hooks, others, raced, stopped>>
  BY DEF Hooks!ChangeCredentials
<1>2. HookTypes /\ TextInv /\ CleanInv /\ OneHookInv /\ ProtectInv
  BY DEF HookInv
<1>3. edits' \in 0 .. MaxEdits
  BY <1>1, <1>2, KeyFacts DEF HookTypes
<1>4. HookTypes'
  BY <1>1, <1>2, <1>3 DEF HookTypes
<1>5. TextInv' /\ CleanInv' /\ OneHookInv' /\ ProtectInv'
  BY <1>1, <1>2 DEF TextInv, CleanInv, OneHookInv, ProtectInv
<1> QED
  BY <1>4, <1>5 DEF HookStepped

LEMMA HookStep == HookInv /\ [Hooks!FrameworkNext]_frameworkVars => HookInv'
<1> SUFFICES ASSUME HookInv, [Hooks!FrameworkNext]_frameworkVars
             PROVE  HookStepped /\ ProtectInv'
  BY DEF HookInv, HookStepped
<1>1. ASSUME NEW r \in Runner,
             \/ Hooks!BeginHook(r) \/ Hooks!EditText(r) \/ Hooks!StageText(r) \/ Hooks!Unprotect(r)
             \/ Hooks!Replace(r) \/ Hooks!ReplaceFails(r) \/ Hooks!Restore(r) \/ Hooks!Kill(r)
      PROVE  HookStepped /\ ProtectInv'
  BY <1>1, BeginHookKeeps, EditTextKeeps, StageTextKeeps, UnprotectKeeps, ReplaceKeeps,
     ReplaceFailsKeeps, RestoreKeeps, KillKeeps
<1>2. CASE Hooks!EditByHand
  BY <1>2, EditByHandKeeps
<1>3. CASE Hooks!ChangeCredentials
  BY <1>3, ChangeCredentialsKeeps
<1>4. CASE UNCHANGED frameworkVars
  <2>1. UNCHANGED <<text, protected, readonly, windows, manifest, credentials, hook, hooks, edits,
                    others, raced, stopped, delivered>>
    BY <1>4 DEF frameworkVars
  <2> QED
    BY <2>1 DEF HookInv, HookStepped, HookTypes, TextInv, CleanInv, OneHookInv, ProtectInv
<1> QED
  BY <1>1, <1>2, <1>3, <1>4 DEF Hooks!FrameworkNext

LEMMA HookFollows == HookInv => Hooks!ConfiguredAndKept
<1> SUFFICES ASSUME HookInv PROVE Hooks!ConfiguredAndKept
  OBVIOUS
<1>1. HookTypes /\ TextInv /\ CleanInv /\ OneHookInv /\ ProtectInv
  BY DEF HookInv
<1>2. text.edited \in Texts \cup {Void} /\ manifest \in Hooks!Manifest
  BY <1>1 DEF HookTypes, FileTexts
<1>3. ASSUME delivered # Void, NEW i \in DOMAIN manifest
      PROVE  LET s == Hooks!Target(manifest[i])
             IN  /\ s # Void /\ ~Hooks!Refused(manifest[i], s)
                 /\ Hooks!Edited(manifest[i], s, delivered) = s
                 /\ manifest[i] # "php-include" =>
                      \A k \in Hooks!Range(Keys) : Hooks!Values(s, k) = {delivered}
  <2>1. i \in 1 .. Len(manifest)
    BY <1>2, ManifestIs
  <2>2. Through(manifest[i], text, delivered)
    BY <1>1, <1>3, <2>1 DEF TextInv
  <2> QED
    BY <2>2 DEF Through, FileOf, Settled, Hooks!Target, KeySet
<1>4. ~raced /\ text.edited # Void => Hooks!Foreigns(text.edited) = others
  BY <1>1 DEF TextInv, ForeignIn
<1>5. ASSUME text.edited # Void, Hooks!Item("block") \in Hooks!Range(text.edited)
      PROVE  text.written # Void
  <2>1. PICK i \in DOMAIN text.edited : text.edited[i] = Hooks!Item("block")
    BY <1>5 DEF Hooks!Range
  <2>2. i \in 1 .. Len(text.edited)
    BY <1>2, <1>5, <2>1, TextFacts
  <2>3. HasBlock(text.edited)
    BY <2>1, <2>2, ItemIs DEF HasBlock
  <2> QED
    BY <1>1, <1>5, <2>3 DEF TextInv
<1>6. ASSUME windows, ~stopped, Hooks!Busy = {} PROVE protected = readonly
  <2>1. ASSUME NEW q \in Runner PROVE ~hook[q].open
    <3>1. hook[q].step = "idle"
      BY <1>6 DEF Hooks!Busy, Hooks!On
    <3> QED
      BY <1>1, <3>1 DEF ProtectInv
  <2> QED
    BY <1>1, <1>6, <2>1 DEF ProtectInv, HookTypes
<1> QED
  BY <1>3, <1>4, <1>5, <1>6 DEF Hooks!ConfiguredAndKept

LEMMA FrameworkTyped == HookInv => Hooks!FrameworkTypeOK
<1> SUFFICES ASSUME HookInv PROVE Hooks!FrameworkTypeOK
  OBVIOUS
<1>1. HookTypes /\ CleanInv
  BY DEF HookInv
<1>2. text \in FileTexts
  BY <1>1 DEF HookTypes
<1>3. DOMAIN text = {"edited", "written"}
  BY <1>2 DEF FileTexts
<1>4. ASSUME NEW f \in DOMAIN text, text[f] # Void, NEW i \in DOMAIN text[f]
      PROVE  DOMAIN text[f][i] = {"kind", "key", "value"}
  <2>1. text[f] \in Texts
    BY <1>2, <1>3, <1>4 DEF FileTexts
  <2>2. text[f][i] \in Hooks!Entry
    BY <1>4, <2>1, TextFacts
  <2> QED
    BY <2>2 DEF Hooks!Entry
<1>5. ASSUME NEW r \in Runner
      PROVE  /\ DOMAIN hook[r] = DOMAIN Hooks!NoHook
             /\ hook[r].step \in {"idle", "read", "stage", "replace", "restore"}
             /\ hook[r].action \in DOMAIN manifest /\ hook[r].value \in Credential \cup {Void}
  <2>1. hook[r] \in Hook
    BY <1>1, <1>5 DEF HookTypes
  <2>2. DOMAIN hook[r] = DOMAIN Hooks!NoHook
    BY <2>1 DEF Hook, Hooks!NoHook
  <2>3. hook[r].step \in HookSteps /\ hook[r].value \in Credential \cup {Void}
    BY <2>1 DEF Hook
  <2>4. hook[r].action \in 1 .. Len(manifest)
    BY <1>1, <1>5 DEF CleanInv, Clean
  <2>5. DOMAIN manifest = 1 .. Len(manifest)
    BY <1>1, ManifestIs DEF HookTypes
  <2> QED
    BY <2>2, <2>3, <2>4, <2>5 DEF HookSteps
<1> QED
  BY <1>1, <1>3, <1>4, <1>5 DEF HookTypes, Hooks!FrameworkTypeOK

-----------------------------------------------------------------------------
(* The behaviours of MCProject. *)

LEMMA DatabaseInvariant == Spec => [](part = "database" => DataInv)
<1>1. Init => (part = "database" => DataInv)
  BY DataInitInv DEF Init
<1>2. (part = "database" => DataInv) /\ [Next]_projectPartVars => (part = "database" => DataInv)'
  BY PartSteps, DataStep
<1> QED
  BY <1>1, <1>2, PTL DEF Spec

\* A server on record runs on data of the engine and version it was started for, with the
\* application's database, and accepts the password of the files, however many commands start
\* and stop it one after the other and fail, whatever engine and version the config then names
\* (StartDatabaseServer, bootstrapPostgreSQLDatabase, EnsureManagedDatabaseCredentialAssets).
THEOREM RunningDatabaseUsable == Spec => []DatabaseUsable
<1>1. (part = "database" => DataInv) => DatabaseUsable
  BY DEF DataInv, UsableInv, ServedInv, UsableServer, DatabaseUsable, Data!RunningIsUsable
<1> QED
  BY <1>1, DatabaseInvariant, PTL

\* No start removes a database while engine and version stay and no two commands meet, kills
\* and failures included (InitializeDatabaseServer, resetDatabaseDataDir); and only a command
\* with force replaces a payload that was compiled (existingBuild).
THEOREM NothingGivenUp == Spec => NotGivenUp
<1>1. PartInv /\ (part = "database" => DataInv) /\ [Next]_projectPartVars
      => [/\ part = "database" => Data!DataKeptStep
          /\ part = "build" => Built!ForcedStep]_<<dataVars, builtVars>>
  BY PartSteps, DataKept, Forced DEF PartInv, DataInv
<1> QED
  BY <1>1, PartInvariant, DatabaseInvariant, PTL DEF Spec, NotGivenUp

LEMMA FrameworkInvariant == Spec => [](part = "framework" => HookInv)
<1>1. Init => (part = "framework" => HookInv)
  BY HookStart DEF Init
<1>2. [Next]_projectPartVars => UNCHANGED part /\ (part = "framework" => [Hooks!FrameworkNext]_frameworkVars)
  BY DEF Next, projectPartVars
<1>3. (part = "framework" => HookInv) /\ [Next]_projectPartVars => (part = "framework" => HookInv)'
  BY <1>2, HookStep
<1> QED
  BY <1>1, <1>3, PTL DEF Spec

\* The framework's files, for any keys, credentials and texts and any number of commands that
\* run hooks: after a hook that nothing came in between of they have the credentials under each
\* key and nothing else, and a second hook would change nothing; what is not polka's stays, in
\* its order, unless it was written between a hook's reading of the file and its replacement;
\* the include block comes after the file that it includes; and a read-only file is read-only
\* again (runFrameworkAction, writeFrameworkFile).
THEOREM FrameworkStaysRight == Spec => []FrameworkRight
<1>1. (part = "framework" => HookInv) => FrameworkRight
  BY HookFollows DEF FrameworkRight
<1> QED
  BY <1>1, FrameworkInvariant, PTL

-----------------------------------------------------------------------------
(* The types of all parts. *)

TypesInv ==
  /\ part = "database" => DataBounds
  /\ part = "build" => NumbersBound
  /\ part = "one" => PairsBound
  /\ part = "two" => TogetherBound

LEMMA TypesBegin == Init /\ PartInv /\ (part = "database" => DataInv) => TypesInv
<1> SUFFICES ASSUME Init, PartInv, part = "database" => DataInv PROVE TypesInv
  OBVIOUS
<1>1. /\ part = "database" => Data!DatabaseInit
      /\ part = "build" => Built!BuildInit
  BY DEF Init
<1>2. /\ part = "one" => generated = 0 /\ accidents = 0
      /\ part = "two" => generated = 0 /\ accidents = 0
  BY DEF Init, One!CertificatesInit, Two!CertificatesInit
<1>3. (part = "one" => PairsBound) /\ (part = "two" => TogetherBound)
  BY <1>2, CertConstants DEF PairsBound, TogetherBound
<1>4. part = "database" => DataBounds
  BY <1>1, BoundsBegin DEF DataInv
<1> QED
  BY <1>1, <1>3, <1>4, NumbersBegin DEF TypesInv

LEMMA TypesStep ==
  ASSUME TypesInv, PartInv, PartInv', part = "database" => DataInv,
         (part = "database" => DataInv)', [Next]_projectPartVars
  PROVE  TypesInv'
<1>0. UNCHANGED part
  BY PartSteps
<1>1. ASSUME part = "database" PROVE DataBounds'
  <2>1. DataBounds /\ DataTypes' /\ [Data!DatabaseNext]_dataVars
    BY <1>0, <1>1, PartSteps DEF TypesInv, DataInv
  <2> QED
    BY <2>1, BoundsStep
<1>2. ASSUME part = "build" PROVE NumbersBound'
  <2>1. BuildBounds /\ [Built!BuildNext]_builtVars
    BY <1>2, PartSteps DEF TypesInv, PartInv, BuildBounds
  <2> QED
    BY <2>1, NumbersStep
<1>3. ASSUME part = "one" PROVE PairsBound'
  <2>1. CertInv(Lone) /\ CertInv(Lone)' /\ PairsBound /\ [One!CertificatesNext]_certificateVars
    BY <1>0, <1>3, PartSteps DEF TypesInv, PartInv
  <2> QED
    BY <2>1, PairsStep
<1>4. ASSUME part = "two" PROVE TogetherBound'
  <2>1. /\ CertInv(Holder) /\ CertInv(Holder)' /\ TogetherBound
        /\ [Two!CertificatesNext]_certificateVars
    BY <1>0, <1>4, PartSteps DEF TypesInv, PartInv
  <2> QED
    BY <2>1, TogetherBoundStep
<1> QED
  BY <1>0, <1>1, <1>2, <1>3, <1>4 DEF TypesInv

LEMMA TypesInvariant == Spec => []TypesInv
<1>1. TypesInv /\ PartInv /\ PartInv' /\ (part = "database" => DataInv)
      /\ (part = "database" => DataInv)' /\ [Next]_projectPartVars => TypesInv'
  BY TypesStep
<1> QED
  BY <1>1, TypesBegin, PartInvariant, DatabaseInvariant, PTL DEF Spec

\* What each part keeps is of its types, in which every bound on a number counts: a record of
\* a build names a build that began, a password one that was drawn, a certificate a pair that
\* was made, and what a hook, a download, a sync or a command is at exists (the types of the
\* code's records, and what their numbers and names refer to).
THEOREM TypesStayRight == Spec => []TypesOK
<1>1. TypesInv /\ PartInv /\ FilesInv /\ (part = "framework" => HookInv) => TypesOK
  <2> SUFFICES ASSUME TypesInv, PartInv, FilesInv, part = "framework" => HookInv PROVE TypesOK
    OBVIOUS
  <2>1. /\ part = "internal" => InternalTypeOK
        /\ part = "build" => Built!BuildTypeOK
        /\ part = "one" => One!CertificatesTypeOK
        /\ part = "two" => Two!CertificatesTypeOK
    BY InternalTyped, BuildTyped, PairsTyped, TogetherTyped DEF PartInv, TypesInv, BuildBounds
  <2>2. /\ part = "environments" => Project!EnvironmentTypeOK
        /\ part = "pecl" => Pecl!PeclTypeOK
        /\ part = "release" => Upstream!ReleaseTypeOK
        /\ part = "msvc" => Native!MSVCTypeOK
        /\ part = "php" => Runtime!PHPTypeOK
    BY EnvironmentsTyped, PeclTyped, ReleaseTyped, ToolchainTyped, PHPTyped DEF FilesInv
  <2>3. /\ part = "database" => Data!DatabaseTypeOK
        /\ part = "framework" => Hooks!FrameworkTypeOK
    BY DatabaseTyped, FrameworkTyped DEF TypesInv
  <2> QED
    BY <2>1, <2>2, <2>3 DEF TypesOK
<1> QED
  BY <1>1, TypesInvariant, PartInvariant, FilesInvariant, FrameworkInvariant, PTL
=============================================================================
