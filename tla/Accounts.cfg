\* Two threads, a banned account in the seed and two other names to register.
SPECIFICATION Spec
CONSTANTS
  Threads = {t1, t2}
  n1 = n1
  p1 = p1
  Names = {n1, n2, n3}
  Passwords = {p1, p2}
  Items = {i1}
  NoName = NoName
  NoPassword = NoPassword
  Seed <- OneBanned
  MaxAccounts = 3
SYMMETRY Symmetry
INVARIANTS
  AccountsTypeOK
  OneWinner
  OwnAnswer
