CONSTANTS
  t1 = t1  t2 = t2  s1 = s1  s2 = s2  a1 = a1  i1 = i1
  None = None  This = This  Rival = Rival  Channel = Channel
  Policies = {"Lru"}
  Threads = {t1}
  Subs = {s1}
  Channels = {Channel}
  Args = {a1}
  Ids = {i1}
  Answers <- MCAnswers
  Oversized = {}
  MaxSize = 1
  Ttl = None
  MaxVer = 1
  MaxCalls = 1
SPECIFICATION ISpec
PROPERTY PublishReachesSubscriber
CHECK_DEADLOCK FALSE
