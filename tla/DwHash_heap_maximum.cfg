SPECIFICATION Spec
CONSTANTS
  Key = {k1, k2, k3, root}
  Configs = {{root}}
  CacheSize = 4
  LeastCacheSize = 3
  StandardCacheSize = 6
  MinTtl = 2
  MaxTtl = 3
  FarFuture = 4
  Ttl = {0, 1, 9}
  MaxTime = 2
  HeapByte = {0, 1, 2}
INVARIANTS
  WithinMaximum
