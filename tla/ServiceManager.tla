---------------------------- MODULE ServiceManager ----------------------------
(***************************************************************************)
(* polka start and polka stop as a whole (cli/command_serve.go,            *)
(* command_stop.go, hooks.go, service/manager.go): the services of an      *)
(* environment in the order in which Manager starts and stops them, the    *)
(* workers last and first, the webserver after and before everything.      *)
(* What one service does by itself is ManagedServer, Workers and Serve:    *)
(* here it is up, with a state file that names it, or it is not.           *)
(***************************************************************************)
EXTENDS Naturals, Sequences, SequencesExt

CONSTANTS Offered,        \* the services that an environment of the instance may have
          MaxManagerEdits \* bound: edits of the config

StartOrder == <<"database", "mailpit", "meilisearch", "redis", "rabbitmq", "traefik",
                "phpmyadmin", "workers", "webserver">>
StopOrder == <<"webserver", "workers", "phpmyadmin", "meilisearch", "redis", "rabbitmq",
               "traefik", "database", "mailpit">>

ManagerAssumption ==
  Offered \subseteq ToSet(StartOrder) \ {"webserver"} /\ MaxManagerEdits \in Nat

\* The webserver is not in the config: start always runs one.
Service == Offered \cup {"webserver"}

VARIABLES
  wanted,   \* the services in the config
  edited,   \* edits of it so far
  present,  \* those whose tools are installed
  engine,   \* the database: "mysql" or "postgresql"
  up,       \* the services that run
  command,  \* "start", "stop" or "none"; its place in its order; its copy of the config
  place,
  asked,
  ended,    \* how the last command ended: "none", "success" or "failure"
  warned    \* history: the last stop could not stop the workers

managerVars == <<wanted, edited, present, engine, up, command, place, asked, ended, warned>>

ManagerInit ==
  /\ wanted \in SUBSET Offered /\ edited = 0
  /\ present \in SUBSET Offered
  /\ engine \in (IF "database" \in Offered THEN {"mysql", "postgresql"} ELSE {"mysql"})
  /\ up = {}
  /\ command = "none" /\ place = 0 /\ asked = {} /\ ended = "none"
  /\ warned = FALSE

Config == UNCHANGED <<wanted, edited, present, engine>>

RunCommand(name) ==
  /\ command = "none"
  /\ command' = name /\ place' = 1 /\ asked' = wanted /\ ended' = "none"
  /\ warned' = FALSE /\ UNCHANGED up
  /\ Config

RunStart == RunCommand("start")
RunStop == RunCommand("stop")

Current ==
  LET order == IF command = "start" THEN StartOrder ELSE StopOrder
  IN  order[place]

Finish(how) ==
  command' = "none" /\ place' = 0 /\ asked' = {} /\ ended' = how

Advance ==
  IF place = Len(StartOrder) THEN Finish("success")
  ELSE place' = place + 1 /\ UNCHANGED <<command, asked, ended>>

-----------------------------------------------------------------------------
(* Manager.Start and the webserver. *)

\* The database is started as part of phpMyAdmin's storage too, unless it is configured
\* and not installed, or is PostgreSQL.
StorageNeedsDatabase ==
  "database" \in asked /\ engine # "postgresql" /\ "database" \in present

\* A service that is not configured, or whose tool is not installed, is passed over:
\* of the workers and the webserver nothing is installed.
Skipped(s) ==
  /\ s # "webserver"
  /\ s \notin asked \/ (s # "workers" /\ s \notin present)

SkipService ==
  /\ command = "start" /\ Skipped(Current)
  /\ Advance
  /\ UNCHANGED <<up, warned>>
  /\ Config

\* What has to be up for s: for phpMyAdmin its storage as well.
Brings(s) ==
  IF s = "phpmyadmin" /\ StorageNeedsDatabase THEN {"database", "phpmyadmin"} ELSE {s}

StartService ==
  /\ command = "start" /\ ~Skipped(Current)
  /\ up' = up \cup Brings(Current)
  /\ Advance
  /\ UNCHANGED warned
  /\ Config

\* The first error ends the command; what was started stays.  phpMyAdmin may fail with
\* its storage's database already up.  A failure of the workers is only warned about.
StartFails ==
  /\ command = "start" /\ ~Skipped(Current)
  /\ \E some \in SUBSET (Brings(Current) \cap {"database"}) : up' = up \cup some
  /\ IF Current = "workers" THEN Advance ELSE Finish("failure")
  /\ UNCHANGED warned
  /\ Config

-----------------------------------------------------------------------------
(* Manager.Stop: by the state files, whatever the config says now. *)

StopService ==
  /\ command = "stop"
  /\ up' = up \ {Current}
  /\ warned' = (warned /\ Current # "workers")
  /\ Advance
  /\ Config

\* Workers that cannot be stopped are warned about.
StopFails ==
  /\ command = "stop"
  /\ IF Current = "workers" THEN Advance /\ warned' = TRUE
                            ELSE Finish("failure") /\ UNCHANGED warned
  /\ UNCHANGED up
  /\ Config

-----------------------------------------------------------------------------

\* The command is killed; what it was starting may be left without a state file, which
\* is ManagedServer's subject.
KillManager ==
  /\ command # "none" /\ Finish("none")
  /\ UNCHANGED <<up, warned>>
  /\ Config

Crash(s) ==
  /\ s \in up /\ up' = up \ {s}
  /\ UNCHANGED <<command, place, asked, ended, warned>>
  /\ Config

\* A service is added to or removed from the config, with its tool or without.
EditServices ==
  /\ edited < MaxManagerEdits /\ edited' = edited + 1
  /\ \E s \in Offered :
        /\ wanted' = IF s \in wanted THEN wanted \ {s} ELSE wanted \cup {s}
        /\ present' \in {present, present \cup {s}, present \ {s}}
  /\ UNCHANGED <<engine, up, command, place, asked, ended, warned>>

ManagerNext ==
  \/ RunStart
  \/ RunStop
  \/ SkipService
  \/ StartService
  \/ StartFails
  \/ StopService
  \/ StopFails
  \/ KillManager
  \/ \E s \in Service : Crash(s)
  \/ EditServices

ManagerSpec == ManagerInit /\ [][ManagerNext]_managerVars

-----------------------------------------------------------------------------

\* The variables hold values of their types.
ManagerTypeOK ==
  /\ wanted \subseteq Offered /\ present \subseteq Offered /\ asked \subseteq Offered
  /\ engine \in {"mysql", "postgresql"} /\ edited \in 0 .. MaxManagerEdits
  /\ up \subseteq Service
  /\ command \in {"none", "start", "stop"} /\ place \in 0 .. Len(StartOrder)
  /\ (command = "none") <=> (place = 0)
  /\ ended \in {"none", "success", "failure"} /\ warned \in BOOLEAN

\* Stop is complete: a stop that ends with success leaves nothing of the environment
\* up, also what the config does not name any more, but for workers that it warned about.
CompleteStep ==
  command = "stop" /\ ended' = "success" => up' \subseteq (IF warned' THEN {"workers"} ELSE {})
StopIsComplete == [][CompleteStep]_managerVars
=============================================================================
