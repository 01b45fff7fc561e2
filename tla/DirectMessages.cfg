\* Two users on three connections, every interleaving of up to two messages; no
\* symmetry, because of the liveness property.
SPECIFICATION Spec
CONSTANTS
  Conns = {c1, c2, c3}
  Users = {u1, u2}
  Friends <- AllFriends
  NoConn = NoConn
  NoUser = NoUser
  Fittings <- LongAndShort
  MaxMessages = 2
INVARIANTS
  DMTypeOK
  NoSilentBacklog
  OfflineMessageKept
PROPERTIES
  BacklogDelivered
