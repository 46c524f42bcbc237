CONSTANTS
  t1 = t1  a1 = a1  a2 = a2   i1 = i1  i2 = i2
  None = None
  Policies = {"Lru"}
  Threads = {t1}
  Args = {a1, a2}
  Ids = {i1, i2}
  Answers <- OneEach
  Oversized = {}
  MaxSize = 1
  Ttl = 0
  MaxVer = 0
  MaxCalls = 2
  MaxSpawns = 2
SPECIFICATION WFairSpec
INVARIANTS
  WorkerTypeOK
  StoredValueReadable
  HitHeld
PROPERTIES
  FailedSpawnIsForGood
  OverCapacityTrimmed
  DanglingBindingDropped
  ExpiredSwept
  WorkerEnds
  GaugeSettles
  EveryCallReturns
