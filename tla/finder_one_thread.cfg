SPECIFICATION Spec
CONSTANTS
  Url = {u1, u2}
  NoUrl = NoUrl
  Tp = {t1, t2, t3}
  NoTp = NoTp
  Parallel = FALSE
  MaxSessions = 4
SYMMETRY FinderSymmetry
INVARIANTS
  KeepsTrying
PROPERTIES
  SessSpec
CHECK_DEADLOCK FALSE
