CONSTANTS
  t1 = t1  a1 = a1  a2 = a2  a3 = a3  i1 = i1  i2 = i2  i3 = i3
  None = None
  Policies = {"Lru", "Mru", "Lfu", "Mfu", "Fifo"}
  Threads = {t1}
  Args = {a1, a2, a3}
  Ids = {i1, i2, i3}
  Answers <- AnyAnswers
  Oversized = {}
  MaxSize = 1
  Ttl = 0
  MaxVer = 0
  MaxCalls = 3
  MaxSpawns = 1
SPECIFICATION XSpec
SYMMETRY Symmetry
INVARIANTS
  
  
  SweepFollowsStrategy
  EntriesAccounted
PROPERTIES
  GrowthOnlyUnderWorker
  QueuedRemoveKept
  DeadAfterPoison
  MemoSpec
