\* A message stored while its receiver was away, another pushed during the login.
SPECIFICATION SafetySpec
CONSTANTS
  Conns = {c1, c2}
  Users = {u1, u2}
  Friends <- AllFriends
  NoConn = NoConn
  NoUser = NoUser
  Fittings <- AllShort
  MaxMessages = 2
INVARIANTS
  ReadMeansWritten
