SPECIFICATION Spec
CONSTANTS
  c1 = c1
  c2 = c2
  c3 = c3
  Clients = {c1, c2}
  Users = {c1, c2}
  UserOf <- Own
  Lives <- Twice
  MaxGames = 3
  MaxIncoming = 1
  NoClient = NoClient
  NoRecord = NoRecord
PROPERTY
  EveryOrphanRegisters
CHECK_DEADLOCK FALSE
