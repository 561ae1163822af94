SPECIFICATION Spec
CONSTANTS
  w1 = w1
  w2 = w2
  c1 = c1
  t1 = t1
  t2 = t2
  i1 = i1
  i2 = i2
  i3 = i3
  Workers <- MCTwoWorkers
  Clis = {}
  Tokens <- MCTokens
  Admins = {t1}
  Inodes <- MCInodes
  NoTmp = no_tmp
  MaxCrashes = 0
  NoBucket = no_bucket
  Capacity = 1
  Cost = 1
PROPERTIES
  LiveUntilRevoked
CHECK_DEADLOCK FALSE
