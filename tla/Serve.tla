--------------------------------- MODULE Serve ---------------------------------
(***************************************************************************)
(* The background webserver of one environment (cli/command_serve.go,      *)
(* hooks.go, serve_runtime.go, serve_nginx.go, serve_apache.go,            *)
(* serve_frankenphp.go, serve_php.go): a web process, for nginx and        *)
(* apache a php-cgi process behind it, the state file state.json that      *)
(* names both, and the route of the Traefik proxy.  phpMyAdmin's server    *)
(* (service/phpmyadmin.go) is started and stopped by the same code, with a *)
(* state file of its own.                                                  *)
(***************************************************************************)
EXTENDS Naturals

CONSTANTS ServeCommand,  \* processes that run polka commands
          ServePid,
          Address,
          NoRoute,       \* not an address
          MaxServeEdits  \* bound: edits of the config

ServerKind == {"php", "nginx", "apache", "frankenphp"}

ServeAssumption == NoRoute \notin Address /\ MaxServeEdits \in Nat

\* What a start is asked for.
Request == [kind : ServerKind, https : BOOLEAN, address : Address, docroot : {"public", "other"}]

\* A PID that is none.
None == "none"
NoFile == [at |-> "absent", web |-> None, cgi |-> None, request |-> "none"]
Damaged == [NoFile EXCEPT !.at = "garbled"]
Names(web, cgi, q) == [at |-> "names", web |-> web, cgi |-> cgi, request |-> q]

VARIABLES
  request,     \* the server part of the config and the docroot
  serveEdits,
  stateFile,   \* state.json
  task,        \* task[x]: "web", "cgi", "other" or "free"
  aim,         \* aim[x]: the address it listens on once it is open
  open,
  worked,      \* addresses that workers of a killed nginx or httpd still hold
  traefik,     \* Traefik runs; where its dynamic config leads
  route,
  stage,       \* stage[c]: where a command is; its request; its children or what it has read
  wish,
  hand,
  pardoned     \* history: web and cgi processes that a kill, a race or the end of the
               \* other process left unnamed

serveVars == <<request, serveEdits, stateFile, task, aim, open, worked, traefik, route,
               stage, wish, hand, pardoned>>

Paired(q) == q.kind \in {"nginx", "apache"}
Mine(x) == task[x] \in {"web", "cgi"}
Busy(c) == stage[c] \notin {"idle", "done"}
Held(c) == {hand[c].web, hand[c].cgi}
\* pingServeAddress.
Pings(address) == address \in worked \/ \E x \in open : aim[x] = address

ServeInit ==
  /\ request \in [kind : ServerKind, https : {FALSE}, address : Address, docroot : {"public"}]
  /\ serveEdits = 0
  /\ stateFile = NoFile
  /\ task = [x \in ServePid |-> "free"]
  /\ aim = [x \in ServePid |-> NoRoute] /\ open = {}
  /\ worked = {}
  /\ traefik \in BOOLEAN /\ route = NoRoute
  /\ stage = [c \in ServeCommand |-> "idle"]
  /\ wish = [c \in ServeCommand |-> request]
  /\ hand = [c \in ServeCommand |-> NoFile]
  /\ pardoned = {}

\* Processes that live while two commands run are pardoned; so are those in xs.
Pardon(xs) ==
  LET crowd == \E c, d \in ServeCommand : c # d /\ Busy(c) /\ Busy(d)
      seen  == xs \cup pardoned \cup (IF crowd THEN ServePid ELSE {})
  IN  pardoned' = {x \in seen \cap ServePid : task'[x] \in {"web", "cgi"}}

Gone(xs) ==
  /\ task' = [x \in ServePid |-> IF x \in xs THEN "free" ELSE task[x]]
  /\ aim' = [x \in ServePid |-> IF x \in xs THEN NoRoute ELSE aim[x]]
  /\ open' = open \ xs

World == UNCHANGED <<request, serveEdits, traefik>>
Processes == UNCHANGED <<task, aim, open, worked>>

Go(c, from, to, h) ==
  /\ stage[c] = from
  /\ stage' = [stage EXCEPT ![c] = to]
  /\ hand' = [hand EXCEPT ![c] = IF to \in {"idle", "done"} THEN NoFile ELSE h]
  /\ UNCHANGED wish
  /\ World

Enter(c, label) ==
  /\ ~Busy(c)
  /\ stage' = [stage EXCEPT ![c] = label]
  /\ wish' = [wish EXCEPT ![c] = request]
  /\ UNCHANGED <<stateFile, route, hand>>
  /\ World /\ Processes /\ Pardon({})

-----------------------------------------------------------------------------
(* polka start, after the services. *)

\* resolveServerEndpoint, resolveEnvironmentServerType, the docroot and the layout: a
\* request with HTTPS for the PHP webserver is refused.
BeginServe(c) == ~(request.kind = "php" /\ request.https) /\ Enter(c, "look")

\* serveStateMatches: kind, scheme, address and docroot.
ServeStateMatches(q, r) ==
  /\ q.kind = r.kind /\ q.https = r.https /\ q.address = r.address /\ q.docroot = r.docroot

\* loadWebServerState: unreadable; stale, and removed, if that can be done; or live.
LoadServe(c, from, none, live) ==
  /\ \/ stateFile.at = "garbled" /\ Go(c, from, "idle", NoFile) /\ UNCHANGED stateFile
     \/ stateFile.at = "absent" /\ Go(c, from, none, NoFile) /\ UNCHANGED stateFile
     \/ /\ stateFile.at = "names" /\ ~Pings(stateFile.request.address)
        /\ \/ Go(c, from, none, NoFile) /\ stateFile' = NoFile
           \/ Go(c, from, "idle", NoFile) /\ UNCHANGED stateFile
     \/ /\ stateFile.at = "names" /\ Pings(stateFile.request.address)
        /\ live /\ UNCHANGED stateFile
  /\ UNCHANGED route
  /\ Processes

\* When a stale state is removed, nobody names the php-cgi of a dead webserver any more.
Orphans == {stateFile.cgi}

LookServe(c) ==
  /\ LoadServe(c, "look", "route",
               Go(c, "look", IF ServeStateMatches(stateFile.request, wish[c])
                             THEN "done" ELSE "idle", NoFile))
  /\ Pardon(IF stateFile'.at # stateFile.at THEN Orphans ELSE {})

\* prepareTraefikServeProxy: only where Traefik runs; the certificate or the write may fail.
PrepareProxy(c) ==
  /\ \/ Go(c, "route", "launch", NoFile) /\ route' = IF traefik THEN wish[c].address ELSE route
     \/ traefik /\ Go(c, "route", "idle", NoFile) /\ UNCHANGED route
  /\ UNCHANGED stateFile
  /\ Processes /\ Pardon({})

\* The tools cannot be resolved, the runtime directory or its files cannot be written,
\* or the process cannot be started: php-cgi, if it runs already, is stopped.
Quit(c, from) ==
  /\ Go(c, from, "idle", NoFile)
  /\ Gone(Held(c))
  /\ \/ UNCHANGED worked
     \/ Paired(wish[c]) /\ worked' = worked \cup {aim[x] : x \in Held(c) \cap open}
  /\ UNCHANGED <<stateFile, route>>
  /\ Pardon({})

Child(c, from, to, role) ==
  \E x \in ServePid :
     /\ task[x] = "free" /\ \A d \in ServeCommand : x \notin Held(d)
     /\ task' = [task EXCEPT ![x] = role]
     /\ aim' = [aim EXCEPT ![x] = IF role = "web" THEN wish[c].address ELSE NoRoute]
     /\ Go(c, from, to, IF role = "web" THEN Names(x, hand[c].cgi, wish[c])
                                        ELSE Names(None, x, wish[c]))
     /\ UNCHANGED <<stateFile, open, worked, route>>
     /\ Pardon({})

\* startNginxServeInBackgroundAt and startApacheServeInBackgroundAt: php-cgi first.
LaunchCGI(c) == Paired(wish[c]) /\ Child(c, "launch", "upstream", "cgi")

\* Some process answers on the reserved port, which is free until php-cgi takes it;
\* another process may have been faster.
UpstreamAnswers(c) ==
  /\ Go(c, "upstream", "front", hand[c])
  /\ UNCHANGED <<stateFile, route>>
  /\ Processes /\ Pardon({})

LaunchFront(c) == Child(c, "front", "listen", "web")

\* startFrankenPHPServeInBackgroundAt and startPHPRuntimeServeInBackgroundAt.
LaunchFrankenPHP(c) == wish[c].kind = "frankenphp" /\ Child(c, "launch", "listen", "web")
LaunchPHP(c) == wish[c].kind = "php" /\ Child(c, "launch", "listen", "web")

\* waitForServeAddress: whoever answers.
AddressAnswers(c) ==
  /\ Pings(wish[c].address)
  /\ Go(c, "listen", "write", hand[c])
  /\ UNCHANGED <<stateFile, route>>
  /\ Processes
  /\ Pardon({hand[c].web} \ open)

\* stopServeProcess of all children, after a timeout, which needs no answer.
ListenTimeout(c) == ~Pings(wish[c].address) /\ Quit(c, "listen")

\* finishBackgroundWebserverStart: the file is emptied, then written; if either fails the
\* runtime is stopped, and whether that worked is ignored.
WriteServeState(c) ==
  /\ \/ Go(c, "write", "fill", hand[c]) /\ stateFile' = Damaged
     \/ Go(c, "write", "undo", hand[c]) /\ UNCHANGED stateFile
  /\ UNCHANGED route
  /\ Processes /\ Pardon({})

FillServeState(c) ==
  /\ \/ Go(c, "fill", "done", NoFile) /\ stateFile' = hand[c]
     \/ Go(c, "fill", "undo", hand[c]) /\ UNCHANGED stateFile
  /\ UNCHANGED route
  /\ Processes /\ Pardon({})

UndoServe(c) == Quit(c, "undo")

-----------------------------------------------------------------------------
(* polka stop. *)

BeginStop(c) == Enter(c, "find")

FindServe(c) ==
  /\ LoadServe(c, "find", "done", Go(c, "find", "first", stateFile))
  /\ Pardon(IF stateFile'.at # stateFile.at THEN Orphans ELSE {})

\* polka status finds the webserver as a stop does, and only prints its address.
PrintAddress(c) ==
  /\ Go(c, "first", "done", NoFile)
  /\ UNCHANGED <<stateFile, route>>
  /\ Processes /\ Pardon({})

\* stopServePID: SIGTERM, a grace period, SIGKILL.  A process that ends in time leaves
\* nothing; a master that is killed leaves its workers with the socket; another user's
\* process cannot be signalled.
StopPID(c, from, to, x) ==
  \/ /\ Go(c, from, to, hand[c])
     /\ Gone({x})
     /\ \/ UNCHANGED worked
        \/ /\ x \in open /\ task[x] = "web" /\ Paired(hand[c].request)
           /\ worked' = worked \cup {aim[x]}
  \/ /\ x \in ServePid /\ task[x] = "other"
     /\ Go(c, from, "idle", NoFile)
     /\ Processes

StopPrimary(c) ==
  StopPID(c, "first", "second", hand[c].web) /\ UNCHANGED <<stateFile, route>> /\ Pardon({})
StopFrontOnly(c) ==
  /\ Go(c, "second", "close", hand[c])
  /\ UNCHANGED <<stateFile, route>> /\ Processes /\ Pardon({})
StopSecondary(c) ==
  StopPID(c, "second", "close", hand[c].cgi) /\ UNCHANGED <<stateFile, route>> /\ Pardon({})

\* The wait for the address to be closed, and its timeout.
AwaitClosed(c) ==
  /\ stage[c] = "close"
  /\ IF Pings(hand[c].request.address) THEN Go(c, "close", "idle", NoFile)
                                       ELSE Go(c, "close", "forget", NoFile)
  /\ UNCHANGED <<stateFile, route>>
  /\ Processes /\ Pardon({})

RemoveServeState(c) ==
  /\ \/ Go(c, "forget", "done", NoFile) /\ stateFile' = NoFile
     \/ Go(c, "forget", "idle", NoFile) /\ UNCHANGED stateFile
  /\ UNCHANGED route
  /\ Processes /\ Pardon({})

-----------------------------------------------------------------------------
(* Everything else. *)

KillServeCommand(c) ==
  /\ Busy(c)
  /\ stage' = [stage EXCEPT ![c] = "idle"] /\ hand' = [hand EXCEPT ![c] = NoFile]
  /\ UNCHANGED <<stateFile, route, wish>>
  /\ World /\ Processes
  /\ Pardon(Held(c))

Outside == UNCHANGED <<request, serveEdits, stateFile, route, stage, wish, hand>>

\* The web process opens its address, or ends because it is taken.
Opens(x) ==
  /\ task[x] = "web" /\ x \notin open
  /\ IF Pings(aim[x]) THEN Gone({x}) ELSE open' = open \cup {x} /\ UNCHANGED <<task, aim>>
  /\ UNCHANGED <<worked, traefik>>
  /\ Outside /\ Pardon({})

\* A process ends.  Its companion is not told.
Ends(x) ==
  /\ task[x] # "free"
  /\ Gone({x})
  /\ UNCHANGED <<worked, traefik>>
  /\ Outside /\ Pardon({})

WorkersEnd == worked # {} /\ worked' = {} /\ UNCHANGED <<task, aim, open, traefik>> /\ Outside /\ Pardon({})

\* A process of somebody else gets a PID, and maybe an address.
OtherBegins(x) ==
  /\ task[x] = "free" /\ \A c \in ServeCommand : x \notin Held(c)
  /\ \E a \in {NoRoute} \cup {b \in Address : ~Pings(b)} :
        aim' = [aim EXCEPT ![x] = a] /\ open' = IF a = NoRoute THEN open ELSE open \cup {x}
  /\ task' = [task EXCEPT ![x] = "other"]
  /\ UNCHANGED <<worked, traefik>>
  /\ Outside /\ Pardon({})

EditServe ==
  /\ serveEdits < MaxServeEdits /\ serveEdits' = serveEdits + 1
  /\ \E q \in Request, f \in DOMAIN request :
        q # request /\ (\A g \in DOMAIN request \ {f} : q[g] = request[g]) /\ request' = q
  /\ UNCHANGED <<stateFile, task, aim, open, worked, traefik, route, stage, wish, hand>>
  /\ Pardon({})

ServeNext ==
  \/ \E c \in ServeCommand :
        \/ BeginServe(c)
        \/ LookServe(c)
        \/ PrepareProxy(c)
        \/ LaunchCGI(c)
        \/ UpstreamAnswers(c)
        \/ LaunchFront(c)
        \/ LaunchFrankenPHP(c)
        \/ LaunchPHP(c)
        \/ \E from \in {"launch", "upstream", "front"} : Quit(c, from)
        \/ AddressAnswers(c)
        \/ ListenTimeout(c)
        \/ WriteServeState(c)
        \/ FillServeState(c)
        \/ UndoServe(c)
        \/ BeginStop(c)
        \/ FindServe(c)
        \/ PrintAddress(c)
        \/ StopPrimary(c)
        \/ StopSecondary(c)
        \/ AwaitClosed(c)
        \/ RemoveServeState(c)
        \/ KillServeCommand(c)
  \/ \E x \in ServePid : Opens(x) \/ Ends(x) \/ OtherBegins(x)
  \/ WorkersEnd
  \/ EditServe

ServeSpec == ServeInit /\ [][ServeNext]_serveVars

-----------------------------------------------------------------------------

\* The variables hold values of their types.
ServeTypeOK ==
  /\ request \in Request /\ serveEdits \in 0 .. MaxServeEdits
  /\ IF stateFile.at = "names"
     THEN stateFile \in [at : {"names"}, web : ServePid, cgi : ServePid \cup {None},
                         request : Request]
     ELSE stateFile \in {NoFile, Damaged}
  /\ task \in [ServePid -> {"web", "cgi", "other", "free"}]
  /\ aim \in [ServePid -> Address \cup {NoRoute}] /\ open \subseteq ServePid
  /\ worked \subseteq Address /\ traefik \in BOOLEAN /\ route \in Address \cup {NoRoute}
  /\ \A c \in ServeCommand : wish[c] \in Request /\ Held(c) \subseteq ServePid \cup {None}
  /\ pardoned \subseteq ServePid

\* No webserver and no php-cgi is lost: one that runs is named by the state file or in
\* the hands of a running command, unless a command was killed, two ran at once,
\* another process answered in the webserver's place when it was started, or the
\* webserver in front of a php-cgi ended by itself, after which the next command drops
\* the file that names both.
NoServeProcessLost ==
  \A x \in ServePid :
     Mine(x) => \/ stateFile.at = "names" /\ x \in {stateFile.web, stateFile.cgi}
                \/ \E c \in ServeCommand : x \in Held(c)
                \/ x \in pardoned
=============================================================================
