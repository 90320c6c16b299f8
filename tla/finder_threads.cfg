SPECIFICATION Spec
CONSTANTS
  Url = {u1, u2}
  NoUrl = NoUrl
  Tp = {t1, t2, t3}
  NoTp = NoTp
  Parallel = TRUE
  MaxSessions = 4
SYMMETRY FinderSymmetry
INVARIANTS
  TypeOK
  OneEffort
PROPERTIES
  NothingAfterDestroy
CHECK_DEADLOCK FALSE
