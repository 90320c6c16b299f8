SPECIFICATION Spec
CONSTANTS
  Caller = {k1, k2}
  Conn = {c1, c2}
  NoConn = NoConn
  WndSize = 0
  HasTimeout = FALSE
  Slots = 2
  IdMod = 8
  Overlap = FALSE
  MaxMsg = 2
  MaxGrp = 3
SYMMETRY CallerSymmetry
INVARIANTS
  TypeOK
  ClosedMeansAnswered
  NoDeadEntries
  WndAccounting
  DispatcherAgrees
  NoOrphanGroup
PROPERTIES
  DiscardHarmless
CHECK_DEADLOCK FALSE
