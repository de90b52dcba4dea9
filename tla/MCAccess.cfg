SPECIFICATION Spec
CONSTANTS
  u1 = u1
  a1 = a1
  a2 = a2
  w1 = w1
  w2 = w2
  Users = {u1}
  Admins = {a1,a2}
  NoOne = NoOne
  Threads = {w1,w2}
  MaxConcurrent = 1
  Idle = 1
  Life = 2
  TokenLife = 1
  MaxSessions = 3
  MaxBusy = 2
  MaxChanges = 1
INVARIANTS
  SessionCap
  InactiveHasNone
  OldSessionsAndKeysEnd
  SomeSuperAdmin
CHECK_DEADLOCK FALSE
SYMMETRY Sym
