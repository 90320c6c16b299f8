SPECIFICATION FairSpec
CONSTANTS
  Caller = {k1, k2}
  Conn = {c1}
  NoConn = NoConn
  WndSize = 1
  HasTimeout = TRUE
  Slots = 1
  IdMod = 8
  Overlap = TRUE
  MaxMsg = 2
  MaxGrp = 2
INVARIANTS
  OwnReply
  ClosedMeansAnswered
PROPERTIES
  RpcSpec
  LostCallReturns
  EveryCallReturns
CHECK_DEADLOCK FALSE
