SPECIFICATION Spec
CONSTANTS
  Caller = {k1, k2}
  Conn = {c1}
  NoConn = NoConn
  WndSize = 0
  HasTimeout = TRUE
  Slots = 1
  IdMod = 8
  Overlap = FALSE
  MaxMsg = 2
  MaxGrp = 1
PROPERTIES
  FullMeansFull
CHECK_DEADLOCK FALSE
