SPECIFICATION Spec
CONSTANTS
  Clients = {c1}
  CoreWorkers = {w1}
  ExtraWorkers = {x1}
  Tasks = {t1, t2}
  maxSize = 2
  Shutdown = TRUE
  Nobody = Nobody
  Jammed = Jammed
  Creator = Creator
  NoTask = NoTask
  NoWorker = NoWorker
  MaxDepth = 3
PROPERTY ShutdownCompletes
CHECK_DEADLOCK FALSE
