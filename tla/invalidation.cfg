CONSTANTS
  t1 = t1  t2 = t2  s1 = s1  s2 = s2  a1 = a1  i1 = i1
  None = None  This = This  Rival = Rival  Channel = Channel
  Policies = {"Lru"}
  Threads = {t1, t2}
  Subs = {s1, s2}
  Channels = {Channel}
  Args = {a1}
  Ids = {i1}
  Answers <- MCAnswers
  Oversized = {}
  MaxSize = 1
  Ttl = 0
  MaxVer = 1
  MaxCalls = 2
SPECIFICATION IFairSpec
INVARIANTS InvalidationTypeOK StoredValueReadable AnnouncedIsRemoved
PROPERTIES InvalidationHandled EveryCallReturns MemoSpec
CHECK_DEADLOCK FALSE
