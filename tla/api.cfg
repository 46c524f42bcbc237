CONSTANTS
  t1 = t1  t2 = t2  a1 = a1  a2 = a2  i1 = i1  i2 = i2  i3 = i3
  None = None
  Policies = {"Lru", "Mru", "Lfu", "Mfu", "Fifo"}
  Threads = {t1, t2}
  Args = {a1, a2}
  Ids = {i1, i2, i3}
  Answers <- AnyAnswers
  Oversized = {1}
  MaxSize = 2
  Ttl = 0
  MaxVer = 2
  MaxCalls = 4
SPECIFICATION Spec
SYMMETRY Symmetry
INVARIANTS
  TypeOK
  StoredValueReadable
  WithinCapacity
  VictimIsUnique
  PoisonOnlyByExpiry
PROPERTIES
  CanonicalCopyKept
  DeadAfterPoison
  MemoSpec
