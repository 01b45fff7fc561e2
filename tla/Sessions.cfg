\* Two threads over three descriptors and two users, across one fault.  No
\* symmetry: two of the properties are about liveness.
SPECIFICATION Spec
CONSTANTS
  Threads = {t1, t2}
  Fds = {f1, f2, f3}
  Users = {u1, u2}
  NoThread = NoThread
  NoFd = NoFd
  NoUser = NoUser
  MaxFaults = 1
INVARIANTS
  TypeOK
  SessionsUnique
  SessionOwned
  NoGhostOnline
PROPERTIES
  RegistrySpec
  DisconnectCompletes
  HandlersReturn
