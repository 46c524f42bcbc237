CONSTANTS
  p1 = p1  p2 = p2  t1 = t1  t2 = t2  t3 = t3  s1 = s1  s2 = s2  s3 = s3  T1 = T1  T2 = T2  c1 = c1  c2 = c2
  a1 = a1  a2 = a2  i1 = i1
  None = None
  Pods = {p1, p2}
  Threads = {t1, t2, t3}
  PodOf <- TwoPodOf
  Subs = {s1, s2, s3}
  SubPod <- TwoSubPod
  Channels = {c1, c2}
  Types = {T1, T2}
  ChannelOf <- MCChannelOf
  Args = {a1}
  Ids = {i1}
  Answers <- MCAnswers
  MaxSize = 1
  Ttl = 0
  MaxSpawns = 2
  MaxVer = 0
  MaxCalls = 2
SPECIFICATION CHSpec
INVARIANTS CTypeOK StoredWhilePublishing PodPoisonOnlyByExpiry BindingIsAnnounced
PROPERTIES StuckForGood PodDeadAfterPoison BroadcastSpec
SYMMETRY Symmetry
CHECK_DEADLOCK FALSE
