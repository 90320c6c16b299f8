SPECIFICATION FairSpec
CONSTANTS
  Key = {k1}
  Node = {n1}
  MaxLosses = 0
  MaxChanges = 1
  MaxEvents = 2
PROPERTIES
  AskedHear
CHECK_DEADLOCK FALSE
