SPECIFICATION Spec
CONSTANTS
  Clients = {c1, c2}
  CoreWorkers = {w1, w2}
  ExtraWorkers = {x1, x2}
  Tasks = {t1, t2, t3}
  maxSize = 3
  Shutdown = FALSE
  Nobody = Nobody
  Jammed = Jammed
  Creator = Creator
  NoTask = NoTask
  NoWorker = NoWorker
  MaxDepth = 3
INVARIANTS
  TypeOK
  TaskInOnePlace
PROPERTY ExecutesTasks
