SPECIFICATION Spec
CONSTANTS
  Url = {u1, u2}
  NoUrl = NoUrl
  Tp = {t1, t2}
  NoTp = NoTp
  Parallel = TRUE
  MaxSessions = 2
INVARIANTS
  KeepsTrying
CHECK_DEADLOCK FALSE
