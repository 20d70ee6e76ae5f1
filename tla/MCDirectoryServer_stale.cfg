SPECIFICATION Spec
CONSTANTS
  Users = {alice, bob}
  Sessions = {s1, s2}
  Addresses = {a1, a2}
  Games = {g1, g2}
  Requests = {k1, k2}
  Timeout = 1
  Nobody = Nobody
  Cleaner = Cleaner
  NoSession = NoSession
  NoGame = NoGame
  NoRow = NoRow
PROPERTY RemovedGameIsStale
