SPECIFICATION RecyclingSpec
CONSTANTS
  Users = {alice, bob}
  Sessions = {s1}
  Addresses = {a1, a2}
  Games = {g1, g2}
  Requests = {k1, k2}
  Timeout = 0
  Nobody = Nobody
  Cleaner = Cleaner
  NoSession = NoSession
  NoGame = NoGame
  NoRow = NoRow
PROPERTIES
  AbandonedGameCloses
  RequestAnswered
