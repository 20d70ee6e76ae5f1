SPECIFICATION Spec
CONSTANTS
  c1 = c1
  c2 = c2
  c3 = c3
  Clients = {c1, c2, c3}
  Users = {c1, c3}
  UserOf <- Shared
  Lives <- Once
  MaxGames = 2
  MaxIncoming = 1
  NoClient = NoClient
  NoRecord = NoRecord
INVARIANTS
  TypeOK
  HostKeepsGame
  MutualKnowledge
PROPERTIES
  OrphanRegisters
  HandshakeEnds
  StopUnregisters
CHECK_DEADLOCK FALSE
