CONSTANTS
  t1 = t1  t2 = t2  a1 = a1  a2 = a2  i1 = i1  i2 = i2
  None = None
  Policies = {"Lru"}
  Threads = {t1, t2}
  Args = {a1, a2}
  Ids = {i1, i2}
  Answers <- MCAnswers2
  Oversized = {}
  MaxSize = 2
  Ttl = None
  MaxVer = 1
  MaxCalls = 3
SPECIFICATION HSpec
INVARIANT HitsFreshSinceRemoval
