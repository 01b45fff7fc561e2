\* Three users, every interleaving of their handlers over up to two requests.
SPECIFICATION Spec
CONSTANTS
  Users = {u1, u2, u3}
  NoUser = NoUser
  MaxAsked = 2
CONSTRAINT FewRequests
INVARIANTS
  FriendsTypeOK
  InsertNeverConflicts
  FriendshipWasAsked
PROPERTIES
  CheckedRequestStays
