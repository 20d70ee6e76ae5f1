SPECIFICATION Spec
CONSTANTS
  Clients = {c1}
  CoreWorkers = {w1}
  ExtraWorkers = {}
  Tasks = {t1, t2}
  maxSize = 1
  Shutdown = FALSE
  Nobody = Nobody
  Jammed = Jammed
  Creator = Creator
  NoTask = NoTask
  NoWorker = NoWorker
  MaxDepth = 3
PROPERTY TaskIsQueued
CHECK_DEADLOCK FALSE
