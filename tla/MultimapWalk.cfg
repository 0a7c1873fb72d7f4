\* Four ranks of keys, one of them at two addresses, a traversal among them,
\* and values under each comparator.
CONSTANTS
  Keys <- FiveKeys
  KeyRank <- FiveRanks
  Nums = {1, 2}
  Datas = {p}
  Orders = {"greater", "num", "less"}
  MaxKeys = 3
  MaxValues = 3
  NULL = NULL
  MallocMayFail = TRUE
  k1 = k1
  k2 = k2
  k2b = k2b
  k3 = k3
  k4 = k4
  p = p
SPECIFICATION Spec
INVARIANTS
  ValidMultimap
  SearchFindsEveryKey
PROPERTIES
  ImplementsMultimap
