\* The statement the friend list makes, on the smallest instance that breaks it.
SPECIFICATION SafetySpec
CONSTANTS
  Threads = {t1, t2}
  Fds = {f1, f2}
  Users = {u1, u2}
  NoThread = NoThread
  NoFd = NoFd
  NoUser = NoUser
  MaxFaults = 0
INVARIANTS
  PresenceAccurate
