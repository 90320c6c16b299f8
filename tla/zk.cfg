SPECIFICATION FairSpec
CONSTANTS
  Key = {k1}
  Node = {n1, n2}
  MaxLosses = 1
  MaxChanges = 1
  MaxEvents = 2
INVARIANTS
  TypeOK
  OneHandle
PROPERTIES
  NodeComesBack
  WatchersHear
CHECK_DEADLOCK FALSE
