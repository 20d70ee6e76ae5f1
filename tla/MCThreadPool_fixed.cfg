SPECIFICATION Spec
CONSTANTS
  Clients = {c1, c2}
  CoreWorkers = {w1, w2}
  ExtraWorkers = {}
  Tasks = {t1, t2, t3, t4}
  maxSize = 2
  Shutdown = FALSE
  Nobody = Nobody
  Jammed = Jammed
  Creator = Creator
  NoTask = NoTask
  NoWorker = NoWorker
  MaxDepth = 3
SYMMETRY Symmetric
INVARIANTS
  ThreadTakenOnce
  NoRefusedOffer
  NoLostWakeup
CHECK_DEADLOCK FALSE
