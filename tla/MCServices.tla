------------------------------ MODULE MCServices ------------------------------
(***************************************************************************)
(* The four specifications of an environment's services in one run: a      *)
(* behaviour is one of ManagedServer, of Workers, of ServiceManager or of  *)
(* Serve.  The variables of the other three keep the value Idle.           *)
(***************************************************************************)
EXTENDS ManagedServer, TLC

CONSTANTS Idle, \* the value of variables that are not used
          Worker, MaxReplicas, WorkerPid, Runner, NoProcess, Stranger, MaxWorkerEdits,
          Offered, MaxManagerEdits,
          ServeCommand, ServePid, Address, NoRoute, MaxServeEdits

VARIABLES
  part, \* which specification the behaviour is of
  workers, workerEdits, state, named, process, step, work, single, forgiven,
  wanted, edited, present, engine, up, command, place, asked, ended, warned,
  request, serveEdits, stateFile, task, aim, open, worked, traefik, route, stage, wish, hand,
  pardoned

Work  == INSTANCE Workers
Whole == INSTANCE ServiceManager
Web   == INSTANCE Serve

ASSUME ServicesAssumption ==
  Work!WorkersAssumption /\ Whole!ManagerAssumption /\ Web!ServeAssumption

workVars == <<workers, workerEdits, state, named, process, step, work, single, forgiven>>
wholeVars == <<wanted, edited, present, engine, up, command, place, asked, ended, warned>>
webVars == <<request, serveEdits, stateFile, task, aim, open, worked, traefik, route, stage,
             wish, hand, pardoned>>

NoServer ==
  /\ kind = Idle /\ config = Idle /\ edits = Idle /\ file = Idle /\ proc = Idle
  /\ defaults = Idle /\ at = Idle /\ job = Idle /\ alone = Idle /\ excused = Idle
NoWork ==
  /\ workers = Idle /\ workerEdits = Idle /\ state = Idle /\ named = Idle /\ process = Idle
  /\ step = Idle /\ work = Idle /\ single = Idle /\ forgiven = Idle
NoWhole ==
  /\ wanted = Idle /\ edited = Idle /\ present = Idle /\ engine = Idle /\ up = Idle
  /\ command = Idle /\ place = Idle /\ asked = Idle /\ ended = Idle /\ warned = Idle
NoWeb ==
  /\ request = Idle /\ serveEdits = Idle /\ stateFile = Idle /\ task = Idle /\ aim = Idle
  /\ open = Idle /\ worked = Idle /\ traefik = Idle /\ route = Idle /\ stage = Idle
  /\ wish = Idle /\ hand = Idle /\ pardoned = Idle

Init ==
  \/ part = "server" /\ ServerInit /\ NoWork /\ NoWhole /\ NoWeb
  \/ part = "workers" /\ NoServer /\ Work!WorkersInit /\ NoWhole /\ NoWeb
  \/ part = "manager" /\ NoServer /\ NoWork /\ Whole!ManagerInit /\ NoWeb
  \/ part = "serve" /\ NoServer /\ NoWork /\ NoWhole /\ Web!ServeInit

Next ==
  /\ UNCHANGED part
  /\ \/ part = "server" /\ ServerNext /\ UNCHANGED <<workVars, wholeVars, webVars>>
     \/ part = "workers" /\ Work!WorkersNext /\ UNCHANGED <<serverVars, wholeVars, webVars>>
     \/ part = "manager" /\ Whole!ManagerNext /\ UNCHANGED <<serverVars, workVars, webVars>>
     \/ part = "serve" /\ Web!ServeNext /\ UNCHANGED <<serverVars, workVars, wholeVars>>

Spec == Init /\ [][Next]_<<part, serverVars, workVars, wholeVars, webVars>>

\* The commands and the PIDs of the specifications are the same sets.
Symmetry == Permutations(Command) \cup Permutations(Pid)

-----------------------------------------------------------------------------

\* The type invariant of each specification.
TypesOK ==
  /\ part = "server" => ServerTypeOK
  /\ part = "workers" => Work!WorkersTypeOK
  /\ part = "manager" => Whole!ManagerTypeOK
  /\ part = "serve" => Web!ServeTypeOK

\* No server of a managed service is lost: see NoServerLost in ManagedServer
\* (EnsureManaged...Started, StopManaged...).
ServersKept == part = "server" => NoServerLost

\* No worker is lost or runs twice: see NoWorkerLost in Workers (workers.go).
WorkersKept == part = "workers" => Work!NoWorkerLost

\* No webserver and no php-cgi is lost: see NoServeProcessLost in Serve (serve_runtime.go).
WebserverKept == part = "serve" => Web!NoServeProcessLost

\* A success tells the truth, of one service as of all of them: see SuccessIsTrue in
\* ManagedServer (EnsureManaged...Started, StopManaged...) and StopIsComplete in
\* ServiceManager (Manager.Stop).
SuccessTrue ==
  [][/\ part = "server" => SuccessStep
     /\ part = "manager" => Whole!CompleteStep]_<<serverVars, wholeVars>>
===============================================================================
