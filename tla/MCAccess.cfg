SPECIFICATION Spec
CONSTANTS
  w1 = w1
  w2 = w2
  c1 = c1
  t1 = t1
  t2 = t2
  i1 = i1
  i2 = i2
  i3 = i3
  Workers = {w1}
  Clis = {c1}
  Tokens <- MCTokens
  Admins = {t1}
  Inodes <- MCInodes
  NoTmp = no_tmp
  MaxCrashes = 1
  NoBucket = no_bucket
  Capacity = 1
  Cost = 2
INVARIANTS
  RevocationHolds
  BurstBound
PROPERTIES
  SoloIsAtomic
  UnseenUntilRename
CHECK_DEADLOCK FALSE
