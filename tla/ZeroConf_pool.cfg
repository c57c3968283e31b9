SPECIFICATION Spec
CONSTANTS
    t1 = t1
    t2 = t2
    c1 = c1
    c2 = c2
    Tx = {t1, t2}
    Coins = {c1, c2}
    Threads = {n1, n2}
    Shapes <- MCShapes
    MaxKey = 3
    MaxBlocks = 2
    MaxCrashes = 1
INVARIANTS
  KeysAreUnique
  PoolIsConsistent
  BalanceIsRight
PROPERTIES
  NoneForgotten
  EveryZCIsParsed
CHECK_DEADLOCK FALSE
