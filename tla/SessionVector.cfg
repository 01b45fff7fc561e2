\* Three connections and three users: a vector that grows 1, 2, 4 and holds a
\* session before and after the one that is looked for.
SPECIFICATION Spec
CONSTANTS
  Conns = {c1, c2, c3}
  Users = {u1, u2, u3}
  NoUser = NoUser
SYMMETRY Symmetry
INVARIANTS
  VectorTypeOK
  OwnSessionSeen
  StrangersRefused
PROPERTIES
  RegistrySpec
  RoomForAllIsSafe
