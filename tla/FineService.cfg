\* A cached key and an uncached one, one caller and a refresher, time up to
\* past hardTTL.
SPECIFICATION FairSpec
CONSTANTS
  k1 = k1
  pba = pba
  c1 = c1
  r1 = r1
  f1 = f1
  f2 = f2
  Keys = {k1, pba}
  UncachedKeys = {pba}
  Callers = {c1}
  Refreshers = {r1}
  Calls = {f1, f2}
  SoftTTL = 0
  L1TTL = 1
  HardTTL = 2
  MaxTime = 3
  None = None
  Failed = Failed
INVARIANTS
  OneFetchPerKey
  NoOrphanFollower
PROPERTIES
  L2NeverRegresses
  ImplementsSingleFlight
  StaleIsRevalidated
  EveryCallReturns
