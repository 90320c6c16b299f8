SPECIFICATION Spec
CONSTANTS
  t1 = t1
  t2 = t2
  t3 = t3
  Tp = {t1, t2, t3}
  NoTp = NoTp
  RingSize = 8
  Ori = {1, 2, 3}
  Tags <- SomeTags
  VirCounts = {1, 2}
  DefaultVir = 2
  Points <- MCPoints
INVARIANTS
  TypeOK
  ListsPartitionRing
  ListsOfLive
PROPERTIES
  MovesAreMinimal
  DispSpec
