\* Two users, two names and up to two groups, one after the other or side by side.
SPECIFICATION Spec
CONSTANTS
  Users = {u1, u2}
  Names = {n1, n2}
  NoUser = NoUser
  NoName = NoName
  MaxGroups = 2
INVARIANTS
  GroupsTypeOK
  ActsOnNamedGroup
  OwnerCheckHolds
  NothingOutlivesGroup
  SenderWasMember
  OwnerIsMember
PROPERTIES
  OwnerStaysMember
