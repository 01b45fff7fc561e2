\* A user answers a request of its own.
SPECIFICATION Spec
CONSTANTS
  Users = {u1, u2}
  NoUser = NoUser
  MaxAsked = 2
CONSTRAINT FewRequests
INVARIANTS
  AcceptedWasAsked
