CONSTANTS
  p1 = p1  p2 = p2  t1 = t1  t2 = t2  t3 = t3  s1 = s1  s2 = s2  s3 = s3  T1 = T1  T2 = T2  c1 = c1  c2 = c2
  a1 = a1  a2 = a2  i1 = i1
  None = None
  Pods = {p1}
  Threads = {t1}
  PodOf <- OnePodOf
  Subs = {s1}
  SubPod <- OneSubPod
  Channels = {c1}
  Types = {T1}
  ChannelOf <- MCChannelOf
  Args = {a1, a2}
  Ids = {i1}
  Answers <- MCAnswers
  MaxSize = 1
  Ttl = None
  MaxSpawns = 2
  MaxVer = 1
  MaxCalls = 3
SPECIFICATION CHSpec
INVARIANT NextReadFresh
CHECK_DEADLOCK FALSE
