\* A receiver that leaves, and another user that takes the connection.
SPECIFICATION SafetySpec
CONSTANTS
  Conns = {c1, c2}
  Users = {u1, u2, u3}
  Friends <- AllFriends
  NoConn = NoConn
  NoUser = NoUser
  Fittings <- AllShort
  MaxMessages = 1
INVARIANTS
  WrittenToReceiver
