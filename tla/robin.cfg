SPECIFICATION Spec
CONSTANTS
  Getter = {g1, g2}
  Tp = {t1, t2}
  NoTp = NoTp
  Garbage = Garbage
  IdxMod = 4
  MaxLen = 3
INVARIANTS
  TypeOK
  Balanced
PROPERTIES
  DispSpec
