SPECIFICATION FairSpec
CONSTANTS
  Service = {hprose, echo}
  Hprose = hprose
  Fixed = 2
  MaxNames = 1
  Body = {0, 2}
  LenMod = 5
  MaxPacks = {4, 5}
  MaxReqs = 2
INVARIANTS
  TypeOK
PROPERTIES
  ExchSpec
  NoStall
CHECK_DEADLOCK FALSE
