---------------------- MODULE ImcInvalidation_proofs ----------------------
(***************************************************************************)
(* What the cache keeps when Redis subscribers remove identities from it   *)
(* beside its callers, for every number of threads, subscribers and        *)
(* identities.  The inductive invariant SubInv adds to LockInv of          *)
(* ImcApi_proofs the subscribers' types, that only a subscriber which reads*)
(* or handles messages is connected, that its snapshot then knows the      *)
(* channel, and AnnouncedIsRemoved itself.                                 *)
(***************************************************************************)
EXTENDS ImcInvalidation, ImcApi_proofs, RedisPubSub_proofs

\* InvalidationTypeOK but for TypeOK, in two parts: the registry, ...
RegistryTypes ==
  /\ created \in BOOLEAN /\ owner \in {None, This, Rival}
  /\ created => owner # None
  /\ Cached(data) # {} => created

\* ... and the subscribers, with their connections.
SubscriberTypes ==
  /\ chanMap \in [Subs -> {None, This, Rival}]
  /\ spc \in [Subs -> SubSteps]
  /\ msg \in [Subs -> Ids \cup {None}]
  /\ \A s \in Subs : msg[s] # None <=> spc[s] = "handling"
  /\ Connections(Ids)
  /\ \A s \in Subs : listening[s] # {} => chanMap[s] # None
  /\ \A s \in Subs : spc[s] \notin {"listening", "reading", "handling"} => listening[s] = {}

PublisherTypes ==
  /\ unannounced \subseteq Ids /\ missed \subseteq Ids
  /\ announced \in [Ids -> Nat]

SubInv ==
  /\ LockInv /\ RegistryTypes /\ SubscriberTypes /\ PublisherTypes
  /\ AnnouncedIsRemoved

-----------------------------------------------------------------------------
\* A hit, a read back and time change no version, and nobody but a store adds an
\* entry.
LEMMA VersionsKept ==
  ASSUME LockInv,
         \/ \E t \in Threads :
              \/ (\E a \in Args : ThroughImc(t, a))
              \/ LookupHit(t) \/ TickHit(t) \/ StampHit(t) \/ LookupMiss(t)
              \/ Compute(t) \/ ReadBack(t) \/ ReadBackPanics(t) \/ LockPanics(t)
         \/ TimePasses \/ (\E i \in Ids : DbUpdate(i))
  PROVE  \A j \in Ids : data'[j] # None => data[j] # None /\ data'[j].ver = data[j].ver
<1> DEFINE Kept == \A j \in Ids : data'[j] # None => data[j] # None /\ data'[j].ver = data[j].ver
<1>1. data \in DataMap /\ clock \in Nat /\ call \in [Threads -> Locals]
  BY DEF LockInv, TypeOK
<1>2. ASSUME NEW i \in Ids, NEW e, data[i] # None, e.ver = data[i].ver, data' = [data EXCEPT ![i] = e]
      PROVE  Kept
  BY <1>1, <1>2 DEF DataMap
<1>3. ASSUME NEW t \in Threads, LookupHit(t)
      PROVE  Kept
  <2> DEFINE i == index[call[t].args]
             e == [data[i] EXCEPT !.count = @ + 1]
  <2>1. i \in Ids /\ data[i] \in Entry /\ data[i] # None /\ data' = [data EXCEPT ![i] = e]
    BY <1>1, <1>3 DEF LockInv, TypeOK, LocalsOK, LookupHit, Hit, DataMap, IndexMap
  <2>2. e.ver = data[i].ver
    BY <2>1 DEF Entry
  <2> HIDE DEF i, e
  <2> QED BY <1>2, <2>1, <2>2
<1>4. ASSUME NEW t \in Threads, StampHit(t)
      PROVE  Kept
  <2> DEFINE i == call[t].id
             e == [data[i] EXCEPT !.last = call[t].stamp]
  <2>1. i \in Ids /\ data[i] \in Entry /\ data[i] # None /\ data' = [data EXCEPT ![i] = e]
    BY <1>1, <1>4 DEF LockInv, LocalsOK, HitHeld, StampHit, DataMap
  <2>2. e.ver = data[i].ver
    BY <2>1 DEF Entry
  <2> HIDE DEF i, e
  <2> QED BY <1>2, <2>1, <2>2
<1>5. ASSUME NEW t \in Threads, ReadBack(t)
      PROVE  Kept
  <2> DEFINE i == index[call[t].args]
             e == Accessed(data[i], clock)
  <2>1. i \in Ids /\ data[i] \in Entry /\ data[i] # None /\ data' = [data EXCEPT ![i] = e]
    BY <1>1, <1>5 DEF LockInv, TypeOK, LocalsOK, ReadBack, Hit, DataMap, IndexMap
  <2>2. e.ver = data[i].ver
    BY <1>1, <2>1, AccessedFacts
  <2> HIDE DEF i, e
  <2> QED BY <1>2, <2>1, <2>2
<1>6. ASSUME TimePasses
      PROVE  Kept
  BY <1>1, <1>6, AgedFacts DEF TimePasses
<1>7. ASSUME NEW t \in Threads,
             \/ (\E a \in Args : ThroughImc(t, a)) \/ TickHit(t) \/ LookupMiss(t)
             \/ Compute(t) \/ ReadBackPanics(t) \/ LockPanics(t)
      PROVE  data' = data
  BY <1>7 DEF ThroughImc, TickHit, LookupMiss, Compute, ReadBackPanics, LockPanics, cacheVars
<1>8. (\E i \in Ids : DbUpdate(i)) => data' = data
  BY DEF DbUpdate, cacheVars
<1> QED BY <1>3, <1>4, <1>5, <1>6, <1>7, <1>8

\* A store leaves other entries as they are or evicts them, and its own is the
\* value computed, unless the identity has a copy.
LEMMA StoreVersions ==
  ASSUME LockInv, NEW t \in Threads, StoreValue(t)
  PROVE  LET i == call[t].id IN
         /\ i \in Ids
         /\ SetInserts(data, i) => data'[i].ver = call[t].ver
         /\ \A j \in Ids : (j # i \/ ~SetInserts(data, i)) /\ data'[j] # None =>
              data[j] # None /\ data'[j].ver = data[j].ver
<1>1. /\ call[t].id \in Ids /\ call[t].ver \in Nat /\ clock \in Nat /\ data \in DataMap
      /\ data' \in SetOutcomes(data, call[t].id, call[t].ver, clock, strategy, ~workerTx)
  BY DEF LockInv, TypeOK, LocalsOK, Locals, StoreValue
<1>2. /\ \A j \in Ids : j # call[t].id => data'[j] = data[j] \/ data'[j] = None
      /\ ~SetInserts(data, call[t].id) => data' = data
      /\ SetInserts(data, call[t].id) => data'[call[t].id] = NewEntry(call[t].ver, clock)
  BY <1>1, SetFacts
<1> QED BY <1>1, <1>2 DEF NewEntry

-----------------------------------------------------------------------------
\* Which steps of this module are steps of ImcApi, and what the others leave.
LEMMA ApiSteps ==
  ASSUME NEW t \in Threads, Begin(t) \/ Caller(t)
  PROVE  Next
BY DEF Begin, Caller, ApiStep, StoreAndRegister, Next, Proceed

LEMMA SubscriberKeeps ==
  ASSUME NEW s \in Subs,
         \/ EnterLoop(s) \/ StopSubscriber(s) \/ Connect(s) \/ AwaitMessage(s)
         \/ TakeMessage(s) \/ RemovePanics(s) \/ ConnectionFails(s) \/ ReadTimeout(s)
  PROVE  UNCHANGED <<vars, created, owner, chanMap, unannounced, announced>>
BY DEF EnterLoop, StopSubscriber, Connect, AwaitMessage, TakeMessage, RemovePanics,
   ConnectionFails, ReadTimeout, Leave, SubGoto, pubVars

\* Nothing a subscriber does is felt in the lock: it removes when nobody is in it.
LEMMA LockInvStep ==
  ASSUME LockInv, [INext]_ivars
  PROVE  LockInv'
<1>1. ASSUME [Next]_vars
      PROVE  LockInv'
  BY <1>1, LockStep
<1>2. ASSUME NEW t \in Threads, Begin(t) \/ Caller(t)
      PROVE  LockInv'
  BY <1>1, <1>2, ApiSteps
<1>3. ASSUME NEW s \in Subs, RemoveAnnounced(s)
      PROVE  LockInv'
  <2>1. /\ CanWrite /\ UNCHANGED <<strategy, index, clock, lockVars, workerTx, db, pc, call, calls>>
        /\ data' = RemoveData(data, msg[s]) \/ data' = data
    BY <1>3 DEF RemoveAnnounced
  <2>2. data' \in DataMap
    BY <2>1 DEF LockInv, TypeOK, RemoveData, DataMap
  <2>3. TypeOK' /\ LocalsOK'
    BY <2>1, <2>2, LockKept DEF LockInv, TypeOK
  <2>4. HitHeld' /\ StoredValueReadable'
    BY <2>1, HeldByNone
  <2> QED BY <2>3, <2>4 DEF LockInv
<1>4. ASSUME UNCHANGED <<cacheVars, lockVars, db, pc, call, calls>>, workerTx' \in BOOLEAN
      PROVE  LockInv'
  <2>1. TypeOK' /\ LocalsOK'
    BY <1>4, LockKept DEF LockInv, TypeOK, cacheVars
  <2>2. HitHeld' /\ StoredValueReadable'
    BY <1>4 DEF LockInv, HitHeld, StoredValueReadable, cacheVars
  <2> QED BY <2>1, <2>2 DEF LockInv
<1>5. ASSUME (\E s \in Subs : SpawnWorker(s)) \/ DropWorker
      PROVE  LockInv'
  BY <1>4, <1>5 DEF SpawnWorker, DropWorker
<1>6. ASSUME NEW s \in Subs,
             \/ EnterLoop(s) \/ StopSubscriber(s) \/ Connect(s) \/ AwaitMessage(s)
             \/ TakeMessage(s) \/ RemovePanics(s) \/ ConnectionFails(s) \/ ReadTimeout(s)
      PROVE  LockInv'
  BY <1>1, <1>6, SubscriberKeeps
<1>7. ASSUME NEW i \in Ids, Update(i) \/ PublishUpdate(i)
      PROVE  LockInv'
  BY <1>1, <1>7 DEF Update, PublishUpdate, Next
<1>8. RivalRegisters \/ UNCHANGED ivars => UNCHANGED vars
  BY DEF RivalRegisters, ivars
<1>9. Time => Next
  BY DEF Time, Next
<1> QED BY <1>1, <1>2, <1>3, <1>5, <1>6, <1>7, <1>8, <1>9 DEF INext, Subscriber

-----------------------------------------------------------------------------
\* A namespace is created, and its channel claimed, with its first entry.
LEMMA RegistryStep ==
  ASSUME LockInv, RegistryTypes, [INext]_ivars
  PROVE  RegistryTypes'
<1> USE DEF RegistryTypes
<1>1. ASSUME UNCHANGED <<created, owner>>, \A i \in Ids : data'[i] # None => data[i] # None
      PROVE  RegistryTypes'
  BY <1>1 DEF Cached
<1>2. ASSUME NEW t \in Threads, StoreAndRegister(t)
      PROVE  RegistryTypes'
  BY <1>2, InvalidationAssumption DEF StoreAndRegister, Create
<1>3. ASSUME NEW t \in Threads, Begin(t) \/ ApiStep(t)
      PROVE  RegistryTypes'
  <2>1. \A j \in Ids : data'[j] # None => data[j] # None
    BY <1>3, VersionsKept DEF Begin, ApiStep
  <2> QED BY <1>1, <1>3, <2>1 DEF Begin, ApiStep, subVars
<1>4. ASSUME NEW s \in Subs, RemoveAnnounced(s)
      PROVE  RegistryTypes'
  <2>1. \A i \in Ids : data'[i] # None => data[i] # None
    BY <1>4 DEF RemoveAnnounced, RemoveData, LockInv, TypeOK, DataMap
  <2> QED BY <1>1, <1>4, <2>1 DEF RemoveAnnounced, SubGoto
<1>5. ASSUME NEW s \in Subs,
             \/ EnterLoop(s) \/ StopSubscriber(s) \/ Connect(s) \/ AwaitMessage(s)
             \/ TakeMessage(s) \/ RemovePanics(s) \/ ConnectionFails(s) \/ ReadTimeout(s)
      PROVE  RegistryTypes'
  BY <1>1, <1>5, SubscriberKeeps DEF vars, cacheVars
<1>6. ASSUME NEW s \in Subs, SpawnWorker(s)
      PROVE  RegistryTypes'
  BY <1>1, <1>6 DEF SpawnWorker, cacheVars
<1>7. ASSUME DropWorker \/ UNCHANGED ivars
      PROVE  RegistryTypes'
  BY <1>1, <1>7 DEF DropWorker, ivars, vars, subVars, cacheVars
<1>8. ASSUME RivalRegisters
      PROVE  RegistryTypes'
  BY <1>8, InvalidationAssumption DEF RivalRegisters, vars, cacheVars
<1>9. ASSUME NEW i \in Ids, Update(i) \/ PublishUpdate(i)
      PROVE  RegistryTypes'
  BY <1>1, <1>9 DEF Update, PublishUpdate, DbUpdate, vars, subVars, cacheVars
<1>10. ASSUME Time
       PROVE  RegistryTypes'
  BY <1>1, <1>10, VersionsKept DEF Time, subVars
<1> QED BY <1>2, <1>3, <1>4, <1>5, <1>6, <1>7, <1>8, <1>9, <1>10 DEF INext, Caller, Subscriber

-----------------------------------------------------------------------------
\* Callers, the worker's owner, the rival, time and updates leave the subscribers alone ...
LEMMA OthersKeep ==
  ASSUME \/ \E t \in Threads : Begin(t) \/ Caller(t)
         \/ DropWorker \/ RivalRegisters \/ (\E i \in Ids : Update(i)) \/ Time
         \/ UNCHANGED ivars
  PROVE  UNCHANGED <<redisVars, chanMap, spc, msg, announced>>
<1>1. ASSUME NEW t \in Threads, Begin(t) \/ Caller(t)
      PROVE  UNCHANGED <<redisVars, chanMap, spc, msg, announced>>
  BY <1>1 DEF Begin, Caller, ApiStep, StoreAndRegister, subVars, pubVars
<1>2. DropWorker \/ RivalRegisters \/ (\E i \in Ids : Update(i)) \/ Time \/ UNCHANGED ivars
        => UNCHANGED <<redisVars, chanMap, spc, msg, announced>>
  BY DEF DropWorker, RivalRegisters, Update, Time, ivars, subVars, pubVars
<1> QED BY <1>1, <1>2

\* ... and a subscriber is connected only while it reads or handles messages, with
\* a snapshot that knows the channel.
LEMMA SubscriberStep ==
  ASSUME RegistryTypes, SubscriberTypes, [INext]_ivars
  PROVE  SubscriberTypes'
<1> USE DEF SubscriberTypes
<1>0. None \notin Ids
  BY CacheAssumption
<1>1. ASSUME UNCHANGED redisVars
      PROVE  Connections(Ids)' /\ listening' = listening
  BY <1>1 DEF redisVars, Connections, RedisTypes, OnlySubscribedRead
<1>2. ASSUME UNCHANGED <<redisVars, chanMap, spc, msg>>
      PROVE  SubscriberTypes'
  BY <1>1, <1>2
<1>3. ASSUME NEW s \in Subs, NEW step \in SubSteps, spc' = [spc EXCEPT ![s] = step],
             \A r \in Subs : r # s => listening'[r] = listening[r],
             NEW m \in Ids \cup {None}, msg' = [msg EXCEPT ![s] = m],
             m # None <=> step = "handling",
             chanMap' = chanMap, Connections(Ids)',
             listening'[s] # {} => chanMap[s] # None,
             step \notin {"listening", "reading", "handling"} => listening'[s] = {}
      PROVE  SubscriberTypes'
  BY <1>3
<1>4. ASSUME NEW s \in Subs, SpawnWorker(s)
      PROVE  SubscriberTypes'
  <2>1. /\ UNCHANGED <<redisVars, msg>> /\ spc[s] = "unborn"
        /\ spc' = [spc EXCEPT ![s] = "loop"] /\ chanMap' = [chanMap EXCEPT ![s] = owner]
    BY <1>4 DEF SpawnWorker
  <2>2. "loop" \in SubSteps /\ listening[s] = {} /\ msg[s] = None
    BY <2>1 DEF SubSteps
  <2>3. chanMap' \in [Subs -> {None, This, Rival}] /\ spc' \in [Subs -> SubSteps]
    BY <2>1, <2>2 DEF RegistryTypes
  <2> QED BY <1>1, <2>1, <2>2, <2>3
<1>5. ASSUME NEW s \in Subs, NEW step \in {"ended", "loop", "died"}, Leave(s, step)
      PROVE  SubscriberTypes'
  <2>1. /\ Disconnect(s) /\ chanMap' = chanMap
        /\ spc' = [spc EXCEPT ![s] = step] /\ msg' = [msg EXCEPT ![s] = None]
    BY <1>5 DEF Leave, SubGoto
  <2>2. /\ Connections(Ids)' /\ listening'[s] = {}
        /\ \A r \in Subs : r # s => listening'[r] = listening[r]
    BY <2>1, ConnectionFacts
  <2>3. step \in SubSteps /\ step # "handling"
    BY DEF SubSteps
  <2> QED BY <1>3, <2>1, <2>2, <2>3
<1>6. ASSUME NEW s \in Subs, Connect(s)
      PROVE  SubscriberTypes'
  <2> DEFINE cs == IF chanMap[s] = None THEN {} ELSE {Channel}
  <2>1. /\ Subscribe(s, cs) /\ spc[s] = "connect" /\ UNCHANGED <<chanMap, msg>>
        /\ spc' = [spc EXCEPT ![s] = "reading"]
    BY <1>6 DEF Connect, SubGoto
  <2>2. cs \in SUBSET Channels /\ (cs # {} => chanMap[s] # None)
    BY InvalidationAssumption
  <2> HIDE DEF cs
  <2>3. /\ Connections(Ids)' /\ listening'[s] = cs
        /\ \A r \in Subs : r # s => listening'[r] = listening[r]
    BY <2>1, <2>2, ConnectionFacts
  <2>4. "reading" \in SubSteps /\ msg' = [msg EXCEPT ![s] = None]
    BY <2>1 DEF SubSteps
  <2> QED BY <1>3, <2>1, <2>2, <2>3, <2>4
<1>7. ASSUME NEW s \in Subs, EnterLoop(s) \/ AwaitMessage(s) \/ ReadTimeout(s)
      PROVE  SubscriberTypes'
  <2>1. /\ UNCHANGED <<redisVars, chanMap, msg>>
        /\ \/ spc[s] = "loop" /\ spc' = [spc EXCEPT ![s] = "connect"]
           \/ spc[s] = "listening" /\ spc' = [spc EXCEPT ![s] = "reading"]
           \/ spc[s] = "reading" /\ spc' = [spc EXCEPT ![s] = "listening"]
    BY <1>7 DEF EnterLoop, AwaitMessage, ReadTimeout, SubGoto
  <2>2. {"connect", "reading", "listening"} \subseteq SubSteps /\ msg' = [msg EXCEPT ![s] = None]
    BY <2>1 DEF SubSteps
  <2>3. listening[s] # {} => chanMap[s] # None
    OBVIOUS
  <2> QED BY <1>1, <1>3, <2>1, <2>2, <2>3
<1>8. ASSUME NEW s \in Subs, TakeMessage(s)
      PROVE  SubscriberTypes'
  <2>1. /\ Read(s) /\ spc[s] = "reading" /\ chanMap' = chanMap
        /\ msg' = [msg EXCEPT ![s] = Head(inbox[s])]
        /\ spc' = [spc EXCEPT ![s] = "handling"]
    BY <1>8 DEF TakeMessage, SubGoto
  <2>2. Connections(Ids)' /\ listening' = listening /\ Head(inbox[s]) \in Ids
    BY <2>1, ReadFacts
  <2>3. "handling" \in SubSteps
    BY DEF SubSteps
  <2> QED BY <1>0, <1>3, <2>1, <2>2, <2>3
<1>9. ASSUME NEW s \in Subs, RemoveAnnounced(s)
      PROVE  SubscriberTypes'
  <2>1. /\ UNCHANGED <<redisVars, chanMap>> /\ spc[s] = "handling"
        /\ msg' = [msg EXCEPT ![s] = None] /\ spc' = [spc EXCEPT ![s] = "listening"]
    BY <1>9 DEF RemoveAnnounced, SubGoto
  <2>2. "listening" \in SubSteps
    BY DEF SubSteps
  <2> QED BY <1>1, <1>3, <2>1, <2>2
<1>10. ASSUME NEW i \in Ids, PublishUpdate(i)
       PROVE  SubscriberTypes'
  <2>1. Deliver(Channel, i) /\ UNCHANGED <<chanMap, spc, msg>>
    BY <1>10 DEF PublishUpdate, subVars
  <2>2. Connections(Ids)' /\ listening' = listening
    BY <2>1, InvalidationAssumption, DeliverFacts
  <2> QED BY <2>1, <2>2
<1>11. ASSUME NEW s \in Subs, StopSubscriber(s) \/ ConnectionFails(s) \/ RemovePanics(s)
       PROVE  SubscriberTypes'
  BY <1>5, <1>11 DEF StopSubscriber, ConnectionFails, RemovePanics
<1>12. ASSUME \/ \E t \in Threads : Begin(t) \/ Caller(t)
              \/ DropWorker \/ RivalRegisters \/ (\E i \in Ids : Update(i)) \/ Time
              \/ UNCHANGED ivars
       PROVE  SubscriberTypes'
  BY <1>2, <1>12, OthersKeep
<1> QED BY <1>4, <1>6, <1>7, <1>8, <1>9, <1>10, <1>11, <1>12 DEF INext, Subscriber

-----------------------------------------------------------------------------
\* What is to be removed, for types.
LEMMA ToRemoveFacts ==
  ASSUME SubscriberTypes, NEW s \in Subs
  PROVE  /\ ToRemove(s) \subseteq Ids
         /\ listening[s] = {} /\ msg[s] = None => ToRemove(s) = {}
<1>1. inbox[s] \in Seq(Ids) /\ (inbox[s] # <<>> => listening[s] # {})
  BY DEF SubscriberTypes, Connections, RedisTypes, OnlySubscribedRead
<1>2. Unread(s) \subseteq Ids /\ (listening[s] = {} => Unread(s) = {})
  BY <1>1, ToSetFacts DEF Unread
<1> QED BY <1>2 DEF ToRemove, SubscriberTypes

\* Versions published and identities missed are of the system of record.
LEMMA PublisherStep ==
  ASSUME LockInv, SubscriberTypes, PublisherTypes, [INext]_ivars
  PROVE  PublisherTypes'
<1> USE DEF PublisherTypes
<1>1. ASSUME UNCHANGED pubVars
      PROVE  PublisherTypes'
  BY <1>1 DEF pubVars
<1>2. ASSUME NEW t \in Threads, StoreAndRegister(t)
      PROVE  PublisherTypes'
  BY <1>2, StoreVersions DEF StoreAndRegister
<1>3. ASSUME NEW s \in Subs, NEW step, Leave(s, step)
      PROVE  PublisherTypes'
  BY <1>3, ToRemoveFacts DEF Leave
<1>4. ASSUME NEW s \in Subs, RemoveAnnounced(s)
      PROVE  PublisherTypes'
  BY <1>4 DEF RemoveAnnounced
<1>5. ASSUME NEW i \in Ids, Update(i) \/ PublishUpdate(i)
      PROVE  PublisherTypes'
  <2>1. db \in [Ids -> Nat]
    BY DEF LockInv, TypeOK
  <2>2. CASE Update(i)
    BY <2>2 DEF Update
  <2>3. CASE PublishUpdate(i)
    BY <2>1, <2>3 DEF PublishUpdate
  <2> QED BY <1>5, <2>2, <2>3
<1>6. ASSUME \/ \E t \in Threads : Begin(t) \/ ApiStep(t)
             \/ \E s \in Subs : \/ SpawnWorker(s) \/ EnterLoop(s) \/ Connect(s)
                                \/ AwaitMessage(s) \/ TakeMessage(s) \/ ReadTimeout(s)
             \/ DropWorker \/ RivalRegisters \/ Time \/ UNCHANGED ivars
      PROVE  PublisherTypes'
  <2>1. UNCHANGED pubVars
    BY <1>6 DEF Begin, ApiStep, SpawnWorker, EnterLoop, Connect, AwaitMessage, TakeMessage,
       ReadTimeout, DropWorker, RivalRegisters, Time, ivars
  <2> QED BY <1>1, <2>1
<1>7. ASSUME NEW s \in Subs, StopSubscriber(s) \/ ConnectionFails(s) \/ RemovePanics(s)
      PROVE  PublisherTypes'
  BY <1>3, <1>7 DEF StopSubscriber, ConnectionFails, RemovePanics
<1> QED BY <1>2, <1>4, <1>5, <1>6, <1>7 DEF INext, Caller, Subscriber

-----------------------------------------------------------------------------
\* An identity somebody removes, or is known to have missed.
Pending(i) == i \in missed \/ \E s \in Subs : i \in ToRemove(s)

\* Whatever becomes of the subscribers but for a removal, what was pending is.
LEMMA PendingKept ==
  ASSUME RegistryTypes, SubscriberTypes, NEW s \in Subs,
         \/ SpawnWorker(s) \/ EnterLoop(s) \/ StopSubscriber(s) \/ Connect(s)
         \/ AwaitMessage(s) \/ TakeMessage(s) \/ RemovePanics(s)
         \/ ConnectionFails(s) \/ ReadTimeout(s)
  PROVE  \A i \in Ids : Pending(i) => Pending(i)'
<1>1. /\ chanMap \in [Subs -> {None, This, Rival}] /\ msg \in [Subs -> Ids \cup {None}]
      /\ Connections(Ids)
  BY DEF SubscriberTypes
<1>2. ASSUME missed \subseteq missed',
             \A r \in Subs : ToRemove(r) \subseteq ToRemove(r)' \/ ToRemove(r) \subseteq missed'
      PROVE  \A i \in Ids : Pending(i) => Pending(i)'
  BY <1>2 DEF Pending
<1>3. ASSUME SpawnWorker(s)
      PROVE  /\ missed' = missed
             /\ \A r \in Subs : ToRemove(r) \subseteq ToRemove(r)'
  <2>1. /\ spc[s] = "unborn" /\ UNCHANGED <<redisVars, msg, missed>>
        /\ chanMap' = [chanMap EXCEPT ![s] = owner]
    BY <1>3 DEF SpawnWorker, pubVars
  <2>2. ToRemove(s) = {}
    BY <2>1, ToRemoveFacts DEF SubscriberTypes
  <2>3. \A r \in Subs : r # s => ToRemove(r)' = ToRemove(r)
    BY <1>1, <2>1 DEF ToRemove, Unread, redisVars
  <2> QED BY <2>1, <2>2, <2>3
<1>4. ASSUME NEW step, Leave(s, step)
      PROVE  /\ missed \subseteq missed'
             /\ \A r \in Subs : ToRemove(r) \subseteq ToRemove(r)' \/ ToRemove(r) \subseteq missed'
  <2>1. /\ Disconnect(s) /\ missed' = missed \cup ToRemove(s) /\ chanMap' = chanMap
        /\ msg' = [msg EXCEPT ![s] = None]
    BY <1>4 DEF Leave, SubGoto
  <2>2. \A r \in Subs : r # s => Unread(r)' = Unread(r) /\ msg'[r] = msg[r]
    BY <1>1, <2>1, ConnectionFacts
  <2>3. \A r \in Subs : r # s => ToRemove(r)' = ToRemove(r)
    BY <2>1, <2>2 DEF ToRemove
  <2> QED BY <2>1, <2>3
<1>5. ASSUME Connect(s)
      PROVE  missed' = missed /\ \A r \in Subs : ToRemove(r) \subseteq ToRemove(r)'
  <2> DEFINE cs == IF chanMap[s] = None THEN {} ELSE {Channel}
  <2>1. /\ Subscribe(s, cs) /\ UNCHANGED <<chanMap, msg, missed>> /\ spc[s] = "connect"
    BY <1>5 DEF Connect, SubGoto, pubVars
  <2>2. cs \in SUBSET Channels
    BY InvalidationAssumption
  <2> HIDE DEF cs
  <2>3. \A r \in Subs : r # s => Unread(r)' = Unread(r)
    BY <1>1, <2>1, <2>2, ConnectionFacts
  <2>4. ToRemove(s) = {}
    BY <2>1, ToRemoveFacts DEF SubscriberTypes
  <2>5. \A r \in Subs : r # s => ToRemove(r)' = ToRemove(r)
    BY <2>1, <2>3 DEF ToRemove
  <2> QED BY <2>1, <2>4, <2>5
<1>6. ASSUME TakeMessage(s)
      PROVE  missed' = missed /\ \A r \in Subs : ToRemove(r) \subseteq ToRemove(r)'
  <2>1. /\ Read(s) /\ UNCHANGED <<chanMap, missed>> /\ spc[s] = "reading"
        /\ msg' = [msg EXCEPT ![s] = Head(inbox[s])]
    BY <1>6 DEF TakeMessage, SubGoto, pubVars
  <2>2. /\ Head(inbox[s]) \in Ids /\ Unread(s) = Unread(s)' \cup {Head(inbox[s])}
        /\ \A r \in Subs : r # s => Unread(r)' = Unread(r)
    BY <1>1, <2>1, ReadFacts
  <2>3. msg[s] = None /\ msg'[s] = Head(inbox[s]) /\ Head(inbox[s]) # None
    BY <1>1, <2>1, <2>2, CacheAssumption DEF SubscriberTypes
  <2>4. ToRemove(s) \subseteq ToRemove(s)'
    BY <2>1, <2>2, <2>3 DEF ToRemove
  <2>5. \A r \in Subs : r # s => ToRemove(r)' = ToRemove(r)
    BY <1>1, <2>1, <2>2 DEF ToRemove
  <2> QED BY <2>1, <2>4, <2>5
<1>7. ASSUME EnterLoop(s) \/ AwaitMessage(s) \/ ReadTimeout(s)
      PROVE  missed' = missed /\ \A r \in Subs : ToRemove(r) \subseteq ToRemove(r)'
  <2>1. UNCHANGED <<redisVars, chanMap, msg, missed>>
    BY <1>7 DEF EnterLoop, AwaitMessage, ReadTimeout, SubGoto, pubVars
  <2> QED BY <2>1 DEF ToRemove, Unread, redisVars
<1>8. StopSubscriber(s) \/ ConnectionFails(s) \/ RemovePanics(s) => \E step : Leave(s, step)
  BY DEF StopSubscriber, ConnectionFails, RemovePanics
<1> QED BY <1>2, <1>3, <1>4, <1>5, <1>6, <1>7, <1>8

\* No older entry appears, and none is forgotten about, unless a version is published
\* or a subscriber removes.
LEMMA OlderKept ==
  ASSUME AnnouncedIsRemoved, announced' = announced,
         \A i \in Ids : data'[i] # None => data[i] # None /\ data'[i].ver = data[i].ver,
         \A i \in Ids : Pending(i) => Pending(i)'
  PROVE  AnnouncedIsRemoved'
BY DEF AnnouncedIsRemoved, Pending

\* A publication reaches a listening subscriber of this type, or is missed.
LEMMA PublishIsPending ==
  ASSUME SubscriberTypes, PublisherTypes, NEW i \in Ids, PublishUpdate(i)
  PROVE  /\ \A j \in Ids : Pending(j) => Pending(j)'
         /\ Pending(i)'
         /\ \A j \in Ids : j # i => announced'[j] = announced[j]
<1>1. /\ Deliver(Channel, i) /\ UNCHANGED <<chanMap, msg>>
      /\ announced' = [announced EXCEPT ![i] = db[i]]
      /\ missed' = IF \E s \in Listeners(Channel) : chanMap[s] = This
                   THEN missed ELSE missed \cup {i}
  BY DEF PublishUpdate, subVars
<1>2. \A s \in Subs :
        Unread(s)' = IF s \in Listeners(Channel) THEN Unread(s) \cup {i} ELSE Unread(s)
  BY <1>1, InvalidationAssumption, DeliverFacts DEF SubscriberTypes
<1>3. \A s \in Subs : ToRemove(s) \subseteq ToRemove(s)'
  BY <1>1, <1>2 DEF ToRemove
<1>4. \A j \in Ids : Pending(j) => Pending(j)'
  BY <1>1, <1>3 DEF Pending
<1>5. Pending(i)'
  <2>1. CASE \E s \in Listeners(Channel) : chanMap[s] = This
    <3>1. PICK s \in Listeners(Channel) : chanMap[s] = This
      BY <2>1
    <3>2. s \in Subs /\ i \in Unread(s)' /\ chanMap'[s] = This
      BY <1>1, <1>2, <3>1 DEF Listeners
    <3>3. i \in ToRemove(s)'
      BY <3>2 DEF ToRemove
    <3> QED BY <3>2, <3>3 DEF Pending
  <2>2. CASE ~\E s \in Listeners(Channel) : chanMap[s] = This
    BY <1>1, <2>2 DEF Pending
  <2> QED BY <2>1, <2>2
<1> QED BY <1>1, <1>4, <1>5 DEF PublisherTypes

\* What a subscriber has removed is not there; the rest is as pending as before.
LEMMA RemovedIsGone ==
  ASSUME LockInv, SubscriberTypes, NEW s \in Subs, RemoveAnnounced(s), NEW i \in Ids,
         data'[i] # None
  PROVE  data'[i] = data[i] /\ (Pending(i) => Pending(i)')
<1>1. /\ spc[s] = "handling" /\ UNCHANGED <<redisVars, chanMap>>
      /\ data' = IF chanMap[s] = This THEN RemoveData(data, msg[s]) ELSE data
      /\ missed' = IF chanMap[s] = This THEN missed \ {msg[s]} ELSE missed
      /\ msg' = [msg EXCEPT ![s] = None]
  BY DEF RemoveAnnounced, SubGoto
<1>2. data \in DataMap /\ msg \in [Subs -> Ids \cup {None}]
  BY DEF LockInv, TypeOK, SubscriberTypes
<1>3. data'[i] = data[i] /\ (chanMap[s] = This => i # msg[s])
  BY <1>1, <1>2 DEF RemoveData, DataMap
<1>4. \A r \in Subs : Unread(r)' = Unread(r)
  BY <1>1 DEF Unread, redisVars
<1>5. \A r \in Subs : i \in ToRemove(r) => i \in ToRemove(r)'
  BY <1>1, <1>2, <1>3, <1>4 DEF ToRemove
<1> QED BY <1>1, <1>3, <1>5 DEF Pending

\* An entry older than a published version stays pending until it is gone.
LEMMA AnnouncedStep ==
  ASSUME SubInv, [INext]_ivars
  PROVE  AnnouncedIsRemoved'
<1> USE DEF SubInv
<1>1. ASSUME UNCHANGED <<redisVars, chanMap, msg, missed>>
      PROVE  \A i \in Ids : Pending(i) => Pending(i)'
  BY <1>1 DEF Pending, ToRemove, Unread, redisVars
<1>2. ASSUME NEW t \in Threads, Begin(t) \/ ApiStep(t)
      PROVE  AnnouncedIsRemoved'
  <2>1. /\ UNCHANGED <<redisVars, chanMap, msg, missed, announced>>
        /\ \A j \in Ids : data'[j] # None => data[j] # None /\ data'[j].ver = data[j].ver
    BY <1>2, VersionsKept DEF Begin, ApiStep, subVars, pubVars
  <2> QED BY <1>1, <2>1, OlderKept
<1>3. ASSUME NEW t \in Threads, StoreAndRegister(t)
      PROVE  AnnouncedIsRemoved'
  <2> DEFINE i == call[t].id
  <2>1. /\ StoreValue(t) /\ UNCHANGED <<redisVars, chanMap, msg, announced>>
        /\ missed' = IF SetInserts(data, i) /\ call[t].ver < announced[i]
                     THEN missed \cup {i} ELSE missed
    BY <1>3 DEF StoreAndRegister
  <2>2. /\ SetInserts(data, i) => data'[i].ver = call[t].ver
        /\ \A j \in Ids : (j # i \/ ~SetInserts(data, i)) /\ data'[j] # None =>
             data[j] # None /\ data'[j].ver = data[j].ver
    BY <2>1, StoreVersions
  <2> HIDE DEF i
  <2>3. \A j \in Ids : Pending(j) => Pending(j)'
    BY <2>1 DEF Pending, ToRemove, Unread, redisVars
  <2>4. SetInserts(data, i) /\ call[t].ver < announced[i] => i \in missed'
    BY <2>1
  <2>5. ASSUME NEW j \in Ids, data'[j] # None, data'[j].ver < announced[j]
        PROVE  Pending(j)'
    <3>1. CASE j = i /\ SetInserts(data, i)
      BY <2>2, <2>4, <2>5, <3>1 DEF Pending
    <3>2. CASE j # i \/ ~SetInserts(data, i)
      <4>1. data[j] # None /\ data[j].ver < announced[j]
        BY <2>2, <2>5, <3>2
      <4>2. Pending(j)
        BY <4>1 DEF AnnouncedIsRemoved, Pending
      <4> QED BY <2>3, <4>2
    <3> QED BY <3>1, <3>2
  <2> QED BY <2>1, <2>5 DEF AnnouncedIsRemoved, Pending
<1>4. ASSUME NEW s \in Subs,
             \/ SpawnWorker(s) \/ EnterLoop(s) \/ StopSubscriber(s) \/ Connect(s)
             \/ AwaitMessage(s) \/ TakeMessage(s) \/ RemovePanics(s)
             \/ ConnectionFails(s) \/ ReadTimeout(s)
      PROVE  AnnouncedIsRemoved'
  <2>1. announced' = announced /\ data' = data
    BY <1>4, SubscriberKeeps DEF SpawnWorker, vars, cacheVars, pubVars
  <2> QED BY <1>4, <2>1, PendingKept, OlderKept
<1>5. ASSUME NEW s \in Subs, RemoveAnnounced(s)
      PROVE  AnnouncedIsRemoved'
  <2>1. announced' = announced
    BY <1>5 DEF RemoveAnnounced
  <2> QED BY <1>5, <2>1, RemovedIsGone DEF AnnouncedIsRemoved, Pending
<1>6. ASSUME DropWorker \/ RivalRegisters \/ Time \/ (\E i \in Ids : Update(i)) \/ UNCHANGED ivars
      PROVE  AnnouncedIsRemoved'
  <2>1. UNCHANGED <<redisVars, chanMap, msg, missed, announced>>
    BY <1>6 DEF DropWorker, RivalRegisters, Time, Update, ivars, subVars, pubVars
  <2>2. \A j \in Ids : data'[j] # None => data[j] # None /\ data'[j].ver = data[j].ver
    BY <1>6, VersionsKept DEF DropWorker, RivalRegisters, Time, Update, ivars, vars, cacheVars
  <2> QED BY <1>1, <2>1, <2>2, OlderKept
<1>7. ASSUME NEW i \in Ids, PublishUpdate(i)
      PROVE  AnnouncedIsRemoved'
  <2>1. data' = data
    BY <1>7 DEF PublishUpdate, vars, cacheVars
  <2> QED BY <1>7, <2>1, PublishIsPending DEF AnnouncedIsRemoved, Pending
<1> QED BY <1>2, <1>3, <1>4, <1>5, <1>6, <1>7 DEF INext, Caller, Subscriber

-----------------------------------------------------------------------------
LEMMA InitSubInv == IInit => SubInv
<1> SUFFICES ASSUME IInit PROVE SubInv
  OBVIOUS
<1>1. LockInv
  BY InitIInv DEF IInit, IInv, LockInv
<1>2. Cached(data) = {} /\ \A i \in Ids : data[i] = None
  BY DEF IInit, Init, EmptyData, Cached
<1>3. RegistryTypes
  BY <1>2 DEF IInit, RegistryTypes
<1>4. SubscriberTypes
  <2>1. Connections(Ids) /\ \A s \in Subs : listening[s] = {}
    BY InitConnections DEF IInit, RedisInit
  <2>2. /\ chanMap = [s \in Subs |-> None] /\ spc = [s \in Subs |-> "unborn"]
        /\ msg = [s \in Subs |-> None] /\ "unborn" \in SubSteps
    BY DEF IInit, SubSteps
  <2> QED BY <2>1, <2>2 DEF SubscriberTypes
<1>5. PublisherTypes
  BY DEF IInit, PublisherTypes
<1>6. AnnouncedIsRemoved
  BY <1>2 DEF AnnouncedIsRemoved
<1> QED BY <1>1, <1>3, <1>4, <1>5, <1>6 DEF SubInv

LEMMA StepSubInv == SubInv /\ [INext]_ivars => SubInv'
BY LockInvStep, RegistryStep, SubscriberStep, PublisherStep, AnnouncedStep DEF SubInv

\* The cache, the registry and the subscribers of a process keep SubInv.
THEOREM SubscriberInvariance == ISpec => []SubInv
<1>1. IInit => SubInv
  BY InitSubInv
<1>2. SubInv /\ [INext]_ivars => SubInv'
  BY StepSubInv
<1> QED BY <1>1, <1>2, PTL DEF ISpec

\* InvalidationTypeOK: a namespace's channel is claimed by its first entry, and only
\* a subscriber whose snapshot knows the channel has messages.
THEOREM InvalidationTypes == ISpec => []InvalidationTypeOK
<1>1. SubInv => InvalidationTypeOK
  <2> SUFFICES ASSUME SubInv PROVE InvalidationTypeOK
    OBVIOUS
  <2>1. \A s \in Subs : inbox[s] # <<>> => chanMap[s] # None
    BY DEF SubInv, SubscriberTypes, Connections, OnlySubscribedRead
  <2> QED BY <2>1 DEF SubInv, LockInv, RegistryTypes, SubscriberTypes, PublisherTypes,
          Connections, RedisTypes, InvalidationTypeOK
<1> QED BY <1>1, SubscriberInvariance, PTL

\* traits.rs, cache_invalidation_channel: an entry older than a published version is
\* about to be removed by a subscriber, but for the losses `missed` names.
THEOREM OlderEntriesAreRemoved == ISpec => []AnnouncedIsRemoved
<1>1. SubInv => AnnouncedIsRemoved
  BY DEF SubInv
<1> QED BY <1>1, SubscriberInvariance, PTL

\* api.rs, expect("value was just stored"), also while subscribers remove.
THEOREM StoredReadableWithSubscriber == ISpec => []StoredValueReadable
<1>1. SubInv => StoredValueReadable
  BY DEF SubInv, LockInv
<1> QED BY <1>1, SubscriberInvariance, PTL

-----------------------------------------------------------------------------
\* What is neither a caller's step nor a removal leaves cache and callers alone.
LEMMA CacheUntouched ==
  ASSUME \/ \E s \in Subs : \/ SpawnWorker(s) \/ EnterLoop(s) \/ StopSubscriber(s)
                           \/ Connect(s) \/ AwaitMessage(s) \/ TakeMessage(s)
                           \/ RemovePanics(s) \/ ConnectionFails(s) \/ ReadTimeout(s)
         \/ DropWorker \/ RivalRegisters \/ (\E i \in Ids : PublishUpdate(i))
         \/ UNCHANGED ivars
  PROVE  UNCHANGED <<cacheVars, lockVars, pc, call>>
<1>1. ASSUME NEW s \in Subs,
             \/ EnterLoop(s) \/ StopSubscriber(s) \/ Connect(s) \/ AwaitMessage(s)
             \/ TakeMessage(s) \/ RemovePanics(s) \/ ConnectionFails(s) \/ ReadTimeout(s)
      PROVE  UNCHANGED <<cacheVars, lockVars, pc, call>>
  BY <1>1, SubscriberKeeps DEF vars
<1>2. ASSUME \/ (\E s \in Subs : SpawnWorker(s)) \/ DropWorker \/ RivalRegisters
             \/ (\E i \in Ids : PublishUpdate(i)) \/ UNCHANGED ivars
      PROVE  UNCHANGED <<cacheVars, lockVars, pc, call>>
  BY <1>2 DEF SpawnWorker, DropWorker, RivalRegisters, PublishUpdate, ivars, vars
<1> QED BY <1>1, <1>2

\* A subscriber removes under the lock, which is not poisoned, and only takes away.
LEMMA SubscriberWrites ==
  ASSUME LockInv, NEW s \in Subs, RemoveAnnounced(s)
  PROVE  /\ CanWrite /\ ~poisoned /\ UNCHANGED <<index, pc, call>>
         /\ \A i \in Ids : data'[i] \in {data[i], None}
<1>1. /\ CanWrite /\ ~poisoned /\ UNCHANGED <<index, pc, call>>
      /\ data' = RemoveData(data, msg[s]) \/ data' = data
  BY DEF RemoveAnnounced
<1> QED BY <1>1 DEF RemoveData, LockInv, TypeOK, DataMap

\* Callers' steps, updates and time are steps of ImcApi.
LEMMA StepsOfApi ==
  ASSUME (\E t \in Threads : Begin(t) \/ Caller(t)) \/ (\E i \in Ids : Update(i)) \/ Time
  PROVE  Next
BY ApiSteps DEF Update, Time, Next

\* Removing from outside is forgetting; what else a subscriber does the table does
\* not notice.
LEMMA StepSubscribedTable ==
  ASSUME LockInv, [INext]_ivars
  PROVE  [Memo!MNext]_Memo!mvars
<1>1. ASSUME Next
      PROVE  [Memo!MNext]_Memo!mvars
  BY <1>1, StepTable
<1>2. ASSUME NEW s \in Subs, RemoveAnnounced(s)
      PROVE  Memo!MNext
  BY <1>2, SubscriberWrites, WriterForgets DEF Memo!MNext
<1>3. UNCHANGED <<cacheVars, lockVars, pc, call>> => UNCHANGED Memo!mvars
  BY TableUntouched DEF cacheVars
<1> QED BY <1>1, <1>2, <1>3, StepsOfApi, CacheUntouched DEF INext, Subscriber

\* The cache with its subscribers still implements the table of one copy per identity.
THEOREM SubscribedRefinement == ISpec => MemoSpec
<1>1. IInit => Memo!MInit
  BY InitTable DEF IInit
<1>2. SubInv /\ [INext]_ivars => [Memo!MNext]_Memo!mvars
  BY StepSubscribedTable DEF SubInv
<1> QED BY <1>1, <1>2, SubscriberInvariance, PTL DEF ISpec, MemoSpec, Memo!MSpec

-----------------------------------------------------------------------------
\* A subscriber replaces no copy, and one that finds the lock poisoned removes nothing.
LEMMA SubscribersReplaceNothing ==
  ASSUME LockInv, [INext]_ivars
  PROVE  /\ \A i \in Ids : (data[i] # None /\ data'[i] # None /\ data[i].ver # data'[i].ver)
                           => Expired(data[i])
         /\ poisoned => poisoned' /\ Cached(data') = Cached(data) /\ index' = index
<1>1. CASE Next
  BY <1>1, CopyKeptStep, DeadStep
<1>2. UNCHANGED <<cacheVars, lockVars, pc, call>> =>
        data' = data /\ index' = index /\ poisoned' = poisoned
  BY DEF cacheVars, lockVars
<1> QED BY <1>1, <1>2, SubscriberWrites, StepsOfApi, CacheUntouched DEF INext, Subscriber

\* The copy stored first stays canonical, also when subscribers remove.
THEOREM CanonicalCopySubscribed == ISpec => CanonicalCopyKept
<1>1. SubInv /\ [INext]_ivars =>
        [\A i \in Ids : (data[i] # None /\ data'[i] # None /\ data[i].ver # data'[i].ver)
                        => Expired(data[i])]_vars
  BY SubscribersReplaceNothing DEF SubInv
<1> QED BY <1>1, SubscriberInvariance, PTL DEF ISpec, CanonicalCopyKept

\* One panic under the write lock stops the subscribers, too: no message removes
\* anything any more.
THEOREM PoisonIsFinalSubscribed == ISpec => DeadAfterPoison
<1>1. SubInv /\ [INext]_ivars => [poisoned =>
        poisoned' /\ Cached(data') = Cached(data) /\ index' = index]_vars
  BY SubscribersReplaceNothing DEF SubInv
<1> QED BY <1>1, SubscriberInvariance, PTL DEF ISpec, DeadAfterPoison

-----------------------------------------------------------------------------
\* A removal from outside hands out no access number and poisons nothing.
LEMMA SharedWithSubscribers == SharedInv /\ [INext]_ivars => SharedInv'
<1> SUFFICES ASSUME SharedInv, [INext]_ivars PROVE CacheInv'
  BY LockInvStep DEF SharedInv
<1>1. CASE Next
  BY <1>1, SharedStep DEF SharedInv
<1>2. ASSUME NEW s \in Subs, RemoveAnnounced(s)
      PROVE  CacheInv'
  <2>1. clock' = clock /\ poisoned' = poisoned
    BY <1>2 DEF RemoveAnnounced, lockVars
  <2>2. ~poisoned /\ UNCHANGED <<pc, call>> /\ \A i \in Ids : data'[i] \in {data[i], None}
    BY <1>2, SubscriberWrites DEF SharedInv
  <2> QED BY <2>1, <2>2, OutsideWriterKeeps
<1>3. ASSUME UNCHANGED <<cacheVars, lockVars, pc, call>>
      PROVE  CacheInv'
  BY <1>3, QuietStep DEF cacheVars, lockVars
<1> QED BY <1>1, <1>2, <1>3, StepsOfApi, CacheUntouched DEF INext, Subscriber

\* What every behaviour of callers and subscribers keeps.
THEOREM SharedInvariance == ISpec => []SharedInv
<1>1. IInit => SharedInv
  BY InitIInv DEF IInit, IInv, SharedInv, LockInv, CacheInv
<1>2. SharedInv /\ [INext]_ivars => SharedInv'
  BY SharedWithSubscribers
<1> QED BY <1>1, <1>2, PTL DEF ISpec

\* A message never takes the value between set() and get(): also with subscribers
\* only expiry poisons the lock.
THEOREM OnlyExpiryPoisonsSubscribed == ISpec => []PoisonOnlyByExpiry
<1>1. SharedInv => PoisonOnlyByExpiry
  BY DEF SharedInv, CacheInv
<1> QED BY <1>1, SharedInvariance, PTL

\* Removals leave the accesses of what stays apart: evict_candidate() names one entry.
THEOREM UniqueVictimsSubscribed == ISpec => []VictimIsUnique
<1>1. SharedInv => VictimIsUnique
  BY DistinctStampsTell
<1> QED BY <1>1, SharedInvariance, PTL
=============================================================================
