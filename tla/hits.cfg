CONSTANTS
  t1 = t1  a1 = a1  a2 = a2  a3 = a3  i1 = i1  i2 = i2  i3 = i3
  None = None
  Policies = {"Lru"}
  Threads = {t1}
  Args = {a1}
  Ids = {i1}
  Answers <- AnyAnswers
  Oversized = {}
  MaxSize = 1
  Ttl = None
  MaxVer = 0
  MaxCalls = 2
  MaxSpawns = 1
SPECIFICATION XSpec
INVARIANT HitsAreGets
CHECK_DEADLOCK FALSE
