SPECIFICATION Spec
CONSTANTS
  Clients = {c1, c2}
  CoreWorkers = {w1}
  ExtraWorkers = {x1, x2}
  Tasks = {t1, t2, t3}
  maxSize = 2
  Shutdown = TRUE
  Nobody = Nobody
  Jammed = Jammed
  Creator = Creator
  NoTask = NoTask
  NoWorker = NoWorker
  MaxDepth = 3
SYMMETRY Symmetric
INVARIANTS
  TaskInOnePlace
  ThreadTakenOnce
  IdleThreadIsReady
  NoRefusedOffer
  NoLostWakeup
PROPERTY ExecutesTasksSafely
CHECK_DEADLOCK FALSE
