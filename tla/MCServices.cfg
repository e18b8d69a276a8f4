CONSTANTS
  Idle = Idle
  Command = {c1, c2}
  Pid = {x1, x2}
  Port = {p1, p2}
  Nobody = Nobody
  NoPid = NoPid
  DefaultPort = p1
  DefaultSecond = p2
  MaxVersion = 1
  MaxEdits = 1
  MaxOthers = 1
  Worker = {w1}
  MaxReplicas = 1
  WorkerPid = {x1, x2}
  Runner = {c1, c2}
  NoProcess = NoProcess
  Stranger = Stranger
  MaxWorkerEdits = 2
  Offered = {"database", "phpmyadmin", "workers"}
  MaxManagerEdits = 1
  ServeCommand = {d1}
  ServePid = {x1, x2}
  Address = {a1, a2}
  NoRoute = NoRoute
  MaxServeEdits = 1
SPECIFICATION Spec
SYMMETRY Symmetry
INVARIANTS TypesOK ServersKept WorkersKept WebserverKept
PROPERTIES SuccessTrue
CHECK_DEADLOCK FALSE
