------------------------ MODULE ImcCritical_proofs ------------------------
(***************************************************************************)
(* The safety properties of ImcCritical and of its history, for every      *)
(* number of pods, types, callers, workers, keys and channels.  CInv is    *)
(* inductive: to the types, which also say who holds which lock, it adds   *)
(* what a call knows at each of its steps, that a subscriber which is not  *)
(* listening has no connection, and in what order the locks are poisoned.  *)
(* HInv, further down, is inductive for the history and gives              *)
(* BindingIsAnnounced; the last part proves that ImcCriticalHistory        *)
(* implements KeyedBroadcast.                                              *)
(***************************************************************************)
EXTENDS ImcCriticalHistory, PerTypeCache_proofs, RedisPubSub_proofs

\* Whatever a caller does that only reads the caches, or stores in them.
Calls(t) ==
  (\E T \in Types, a \in Args : ThroughKeyed(t, T, a)) \/ Caller(t) \/ WritePanics(t)

\* In pod p something is removed, cleared or swept, and no other pod hears of it.
Trims(p) ==
  \/ \E s \in SubsOf(p) : Execute(s) \/ Sweep(s)
  \/ \E t \in Threads, T \in Types :
       PodOf[t] = p /\ (ImcClear(t, T) \/ \E i \in Ids : ImcRemove(t, T, i))

\* The call of t holds the stores lock of its pod.
Storing(t) == pc[t] \in {"register", "publish", "readback"}

CacheTypes ==
  /\ data \in [Pods -> [Types -> DataMap]]
  /\ index \in [Pods -> [Types -> IndexMap]]

CallTypes ==
  /\ db \in [Ids -> Nat]
  /\ pc \in [Threads -> CallSteps] /\ call \in [Threads -> Locals] /\ calls \in Nat

\* A call knows its key from the start, and what it stores once it is computed.
CallLocals ==
  \A t \in Threads :
    /\ pc[t] \notin {"idle", "panicked"} => call[t].type \in Types /\ call[t].args \in Args
    /\ pc[t] = "store" \/ Storing(t) => call[t].id \in Ids

\* Nobody holds a poisoned stores lock, and the registry is poisoned after it only.
StoresLock ==
  /\ writer \in [Pods -> Threads \cup {None}]
  /\ poisoned \in [Pods -> BOOLEAN]
  /\ \A p \in Pods : writer[p] # None => PodOf[writer[p]] = p /\ ~poisoned[p]
  /\ \A t \in Threads : Storing(t) <=> writer[PodOf[t]] = t

RegistryLock ==
  /\ registry \in [Pods -> [Channels -> Seq(Types)]]
  /\ \A p \in Pods, c \in Channels : \A T \in ToSet(registry[p][c]) : ChannelOf[T] = c
  /\ registrar \in [Pods -> Subs \cup {None}]
  /\ regPoisoned \in [Pods -> BOOLEAN]
  /\ \A p \in Pods : registrar[p] # None => SubPod[registrar[p]] = p
  /\ \A p \in Pods : regPoisoned[p] => poisoned[p]
  /\ \A s \in Subs : spc[s] = "handling" <=> registrar[SubPod[s]] = s

SubscriberTypes ==
  /\ workerTx \in [Pods -> BOOLEAN] /\ active \in [Pods -> BOOLEAN]
  /\ spc \in [Subs -> SubSteps] /\ wanted \in [Subs -> SUBSET Channels]
  /\ msg \in [Subs -> Messages \cup {None}] /\ todo \in [Subs -> Seq(Types)]
  /\ \A s \in Subs : spc[s] = "handling" => msg[s] \in Messages
  /\ \A s \in Subs : spc[s] \notin {"listening", "reading", "handling"} => listening[s] = {}
  /\ Connections(Messages)

CInv ==
  /\ CacheTypes /\ CallTypes /\ CallLocals
  /\ StoresLock /\ RegistryLock /\ SubscriberTypes
  /\ StoredWhilePublishing

-----------------------------------------------------------------------------
\* What a caller's step leaves to the subscribers, and the other way round.
LEMMA CallerFrame ==
  ASSUME NEW t \in Threads, Calls(t)
  PROVE  UNCHANGED <<registrar, regPoisoned, workerTx, active, subVars, db>>
<1>1. CASE \/ \E T \in Types, a \in Args : ThroughKeyed(t, T, a)
           \/ LookupHit(t) \/ LookupMiss(t) \/ Compute(t) \/ StoreValue(t) \/ Register(t)
  BY <1>1 DEF ThroughKeyed, LookupHit, LookupMiss, Compute, StoreValue, Register, lockVars, podVars
<1>2. CASE \/ Publish(t) \/ SkipPublish(t) \/ ReadBack(t) \/ ReadBackPanics(t) \/ LockPanics(t)
           \/ WritePanics(t)
  BY <1>2 DEF Publish, SkipPublish, ReadBack, ReadBackPanics, LockPanics, WritePanics, lockVars, podVars
<1> QED BY <1>1, <1>2 DEF Calls, Caller

LEMMA SubscriberFrame ==
  ASSUME NEW s \in Subs, SpawnWorker(s) \/ Subscriber(s) \/ ReadTimeout(s) \/ ConnectionFails(s)
  PROVE  UNCHANGED <<writer, poisoned, registry, db, callVars>>
<1>1. CASE \/ SpawnWorker(s) \/ StartSubscriber(s) \/ StopSubscriber(s) \/ Snapshot(s)
           \/ Connect(s) \/ AwaitMessage(s) \/ ReadTimeout(s) \/ ConnectionFails(s)
  BY <1>1 DEF SpawnWorker, StartSubscriber, StopSubscriber, Snapshot, Connect, AwaitMessage,
     ReadTimeout, ConnectionFails, lockVars, podVars
<1>2. CASE \/ TakeMessage(s) \/ RemoveNext(s) \/ FinishMessage(s) \/ RemovePanics(s)
           \/ RegistryPanics(s)
  BY <1>2 DEF TakeMessage, RemoveNext, FinishMessage, RemovePanics, RegistryPanics, lockVars, podVars
<1> QED BY <1>1, <1>2 DEF Subscriber

LEMMA EnvironmentFrame ==
  ASSUME (\E p \in Pods : DropWorker(p)) \/ (\E i \in Ids : DbUpdate(i)) \/ TimePasses
           \/ UNCHANGED cvars
  PROVE  UNCHANGED <<index, lockVars, registry, active, subVars, redisVars, callVars>>
BY DEF DropWorker, DbUpdate, TimePasses, cvars, cacheVars, podVars

LEMMA TrimFrame ==
  ASSUME NEW p \in Pods, Trims(p), calls \in Nat
  PROVE  UNCHANGED <<lockVars, podVars, subVars, redisVars, db, pc, call>> /\ calls' \in Nat
<1>1. ASSUME NEW s \in SubsOf(p), Execute(s) \/ Sweep(s)
      PROVE  UNCHANGED <<lockVars, podVars, subVars, redisVars, db, callVars>>
  BY <1>1 DEF Execute, Sweep
<1>2. ASSUME NEW t \in Threads, NEW T \in Types, ImcClear(t, T) \/ \E i \in Ids : ImcRemove(t, T, i)
      PROVE  UNCHANGED <<lockVars, podVars, subVars, redisVars, db, pc, call>> /\ calls' = calls + 1
  BY <1>2 DEF ImcClear, ImcRemove, Removal
<1> QED BY <1>1, <1>2 DEF Trims, callVars

LEMMA NextCases ==
  ASSUME [CNext]_cvars
  PROVE  \/ \E t \in Threads : Calls(t)
         \/ \E s \in Subs : SpawnWorker(s) \/ Subscriber(s) \/ ReadTimeout(s) \/ ConnectionFails(s)
         \/ \E p \in Pods : Trims(p)
         \/ (\E p \in Pods : DropWorker(p)) \/ (\E i \in Ids : DbUpdate(i)) \/ TimePasses
              \/ UNCHANGED cvars
<1>1. ASSUME NEW s \in Subs, Execute(s) \/ Sweep(s)
      PROVE  \E p \in Pods : Trims(p)
  BY <1>1, CriticalAssumption DEF Trims, SubsOf
<1>2. ASSUME NEW t \in Threads, NEW T \in Types, ImcClear(t, T) \/ \E i \in Ids : ImcRemove(t, T, i)
      PROVE  \E p \in Pods : Trims(p)
  BY <1>2, CriticalAssumption DEF Trims
<1> QED BY <1>1, <1>2 DEF CNext, Calls

-----------------------------------------------------------------------------
\* The environment's steps and those of subscribers keep what a call knows; its
\* own steps give it what the next one needs.
LEMMA CallStep ==
  ASSUME CInv, [CNext]_cvars
  PROVE  CallTypes' /\ CallLocals'
<1> USE DEF CInv, CallTypes, CallLocals, Storing
<1>1. ASSUME UNCHANGED <<pc, call>>, calls' \in Nat, db' \in [Ids -> Nat]
      PROVE  CallTypes' /\ CallLocals'
  BY <1>1
<1>2. ASSUME NEW t \in Threads, NEW T \in Types, NEW a \in Args, ThroughKeyed(t, T, a)
      PROVE  CallTypes' /\ CallLocals'
  <2> DEFINE asked == [call[t] EXCEPT !.type = T, !.args = a]
  <2>1. asked \in Locals /\ asked.type = T /\ asked.args = a
    BY DEF Locals
  <2>2. call' = [call EXCEPT ![t] = asked] /\ pc' = [pc EXCEPT ![t] = "lookup"]
        /\ calls' = calls + 1 /\ db' = db
    BY <1>2 DEF ThroughKeyed, Goto
  <2> HIDE DEF asked
  <2> QED BY <2>1, <2>2 DEF CallSteps
<1>3. ASSUME NEW t \in Threads, Compute(t)
      PROVE  CallTypes' /\ CallLocals'
  <2>1. PICK i \in Answers[call[t].args] :
          call' = [call EXCEPT ![t] = [call[t] EXCEPT !.id = i, !.ver = db[i]]]
    BY <1>3 DEF Compute
  <2> DEFINE found == [call[t] EXCEPT !.id = i, !.ver = db[i]]
  <2>2. /\ pc[t] = "compute" /\ pc' = [pc EXCEPT ![t] = "store"] /\ calls' = calls /\ db' = db
        /\ call' = [call EXCEPT ![t] = found]
    BY <1>3, <2>1 DEF Compute, Goto
  <2>3. i \in Ids /\ db[i] \in Nat
    BY <2>2, CriticalAssumption
  <2>4. found \in Locals /\ found.type = call[t].type /\ found.args = call[t].args /\ found.id = i
    BY <2>3 DEF Locals
  <2> HIDE DEF found
  <2> QED BY <2>2, <2>3, <2>4 DEF CallSteps
<1>4. ASSUME NEW t \in Threads, NEW step \in CallSteps, pc' = [pc EXCEPT ![t] = step],
             pc[t] \notin {"idle", "panicked"},
             step = "store" \/ step \in {"register", "publish", "readback"}
               => pc[t] = "store" \/ Storing(t),
             UNCHANGED <<call, calls, db>>
      PROVE  CallTypes' /\ CallLocals'
  BY <1>4
<1>5. ASSUME NEW t \in Threads, Return(t) \/ Panic(t), calls' \in Nat, db' = db
      PROVE  CallTypes' /\ CallLocals'
  <2>1. NoCall \in Locals
    BY DEF NoCall, Locals
  <2>2. call' = [call EXCEPT ![t] = NoCall]
        /\ (pc' = [pc EXCEPT ![t] = "idle"] \/ pc' = [pc EXCEPT ![t] = "panicked"])
    BY <1>5 DEF Return, Panic, Goto
  <2> QED BY <1>5, <2>1, <2>2 DEF CallSteps
<1>6. ASSUME NEW t \in Threads,
             \/ LookupMiss(t) \/ StoreValue(t) \/ Register(t) \/ Publish(t) \/ SkipPublish(t)
      PROVE  CallTypes' /\ CallLocals'
  <2>1. /\ pc[t] \in {"lookup", "store", "register", "publish"} /\ UNCHANGED <<call, calls, db>>
        /\ \E step \in CallSteps :
             /\ pc' = [pc EXCEPT ![t] = step]
             /\ step = "store" \/ step \in {"register", "publish", "readback"}
                  => pc[t] = "store" \/ Storing(t)
    BY <1>6 DEF LookupMiss, StoreValue, Register, Publish, SkipPublish, Goto, CallSteps
  <2> QED BY <1>4, <2>1
<1>7. ASSUME NEW t \in Threads, 
             \/ LookupHit(t) \/ ReadBack(t) \/ ReadBackPanics(t) \/ LockPanics(t) \/ WritePanics(t)
      PROVE  CallTypes' /\ CallLocals'
  <2>1. (Return(t) \/ Panic(t)) /\ calls' \in Nat /\ db' = db
    BY <1>7 DEF LookupHit, ReadBack, ReadBackPanics, LockPanics, WritePanics
  <2> QED BY <1>5, <2>1
<1>8. ASSUME NEW s \in Subs, SpawnWorker(s) \/ Subscriber(s) \/ ReadTimeout(s) \/ ConnectionFails(s)
      PROVE  CallTypes' /\ CallLocals'
  BY <1>1, <1>8, SubscriberFrame DEF callVars
<1>9. ASSUME (\E p \in Pods : DropWorker(p)) \/ (\E i \in Ids : DbUpdate(i)) \/ TimePasses
               \/ UNCHANGED cvars
      PROVE  CallTypes' /\ CallLocals'
  <2>1. db' \in [Ids -> Nat]
    BY <1>9 DEF DropWorker, DbUpdate, TimePasses, cvars
  <2> QED BY <1>1, <1>9, <2>1, EnvironmentFrame DEF callVars
<1>10. ASSUME NEW p \in Pods, Trims(p)
       PROVE  CallTypes' /\ CallLocals'
  BY <1>1, <1>10, TrimFrame
<1> QED BY <1>2, <1>3, <1>6, <1>7, <1>8, <1>9, <1>10, NextCases DEF Calls, Caller

-----------------------------------------------------------------------------
\* remove_by_args_hash takes one binding and at most one entry.
LEMMA RemovalFacts ==
  ASSUME NEW d \in DataMap, NEW x \in IndexMap, NEW a \in Args
  PROVE  /\ WithoutUnreferenced(d, x, a) \in DataMap
         /\ Unbound(x, a) \in IndexMap
         /\ Unbound(x, a)[a] = None
         /\ \A b \in Args : b # a => Unbound(x, a)[b] = x[b]
BY DEF WithoutUnreferenced, RemoveData, Unbound, DataMap, IndexMap

\* A caller stores in one cache of its pod ...
LEMMA StoreFacts ==
  ASSUME CInv, NEW t \in Threads, StoreValue(t)
  PROVE  LET p == PodOf[t]
             T == call[t].type IN
         /\ p \in Pods /\ T \in Types /\ call[t].args \in Args /\ call[t].id \in Ids
         /\ writer[p] = None /\ ~poisoned[p]
         /\ writer' = [writer EXCEPT ![p] = t] /\ pc' = [pc EXCEPT ![t] = "register"]
         /\ UNCHANGED <<call, registry, redisVars>>
         /\ CacheTypes'
         /\ data'[p][T][call[t].id] # None
         /\ index'[p][T] = [index[p][T] EXCEPT ![call[t].args] = call[t].id]
         /\ \A q \in Pods, U \in Types : q # p \/ U # T =>
              data'[q][U] = data[q][U] /\ index'[q][U] = index[q][U]
<1> DEFINE p == PodOf[t]
           T == call[t].type
           i == call[t].id
           a == call[t].args
<1>1. /\ pc[t] = "store" /\ writer[p] = None /\ ~poisoned[p]
      /\ writer' = [writer EXCEPT ![p] = t] /\ pc' = [pc EXCEPT ![t] = "register"]
      /\ UNCHANGED <<call, registry, redisVars>>
      /\ index' = [index EXCEPT ![p][T][a] = i]
  BY DEF StoreValue, CanWrite, Goto, podVars
<1>2. /\ p \in Pods /\ T \in Types /\ a \in Args /\ i \in Ids /\ call[t].ver \in Nat
      /\ data[p][T] \in DataMap /\ index[p][T] \in IndexMap
  <2>1. T \in Types /\ a \in Args /\ i \in Ids
    BY <1>1 DEF CInv, CallLocals
  <2>2. p \in Pods
    BY CriticalAssumption
  <2>3. call[t].ver \in Nat
    BY DEF CInv, CallTypes, Locals
  <2> HIDE DEF p, T, i, a
  <2>4. data[p][T] \in DataMap /\ index[p][T] \in IndexMap
    BY <2>1, <2>2 DEF CInv, CacheTypes
  <2> QED BY <2>1, <2>2, <2>3, <2>4
<1>3. PICK d \in SetOutcomes(data[p][T], i, call[t].ver, 0, "Fifo", ~workerTx[p]) :
             data' = [data EXCEPT ![p][T] = d]
  BY DEF StoreValue
<1>4. d \in DataMap /\ d[i] # None
  BY <1>2, <1>3, SetFacts
<1>5. [index[p][T] EXCEPT ![a] = i] \in IndexMap
  BY <1>2 DEF IndexMap
<1> HIDE DEF p, T, i, a
<1>6. /\ data' \in [Pods -> [Types -> DataMap]] /\ data'[p][T] = d
      /\ \A q \in Pods, U \in Types : q # p \/ U # T => data'[q][U] = data[q][U]
  BY <1>2, <1>3, <1>4 DEF CInv, CacheTypes
<1>7. /\ index' \in [Pods -> [Types -> IndexMap]] /\ index'[p][T] = [index[p][T] EXCEPT ![a] = i]
      /\ \A q \in Pods, U \in Types : q # p \/ U # T => index'[q][U] = index[q][U]
  BY <1>1, <1>2, <1>5 DEF CInv, CacheTypes
<1> QED BY <1>1, <1>2, <1>4, <1>6, <1>7 DEF CacheTypes, p, T, i, a

\* ... and a subscriber removes from one.
LEMMA RemoveNextFacts ==
  ASSUME CInv, NEW s \in Subs, RemoveNext(s)
  PROVE  LET p == SubPod[s]
             T == Head(todo[s])
             a == msg[s].args IN
         /\ p \in Pods /\ T \in Types /\ a \in Args
         /\ spc[s] = "handling" /\ todo[s] # <<>>
         /\ writer[p] = None /\ ~poisoned[p]
         /\ CacheTypes'
         /\ index'[p][T] = Unbound(index[p][T], a)
         /\ \A q \in Pods, U \in Types : q # p \/ U # T =>
              data'[q][U] = data[q][U] /\ index'[q][U] = index[q][U]
<1> DEFINE p == SubPod[s]
           T == Head(todo[s])
           a == msg[s].args
<1>1. /\ spc[s] = "handling" /\ todo[s] # <<>> /\ writer[p] = None /\ ~poisoned[p]
      /\ data' = [data EXCEPT ![p][T] = WithoutUnreferenced(data[p][T], index[p][T], a)]
      /\ index' = [index EXCEPT ![p][T] = Unbound(index[p][T], a)]
  BY DEF RemoveNext, CanWrite
<1>2. p \in Pods /\ a \in Args
  BY <1>1, CriticalAssumption DEF CInv, SubscriberTypes, Messages
<1>3. T \in Types
  BY <1>1, HeadTailProperties DEF CInv, SubscriberTypes
<1>4. data[p][T] \in DataMap /\ index[p][T] \in IndexMap
  BY <1>2, <1>3 DEF CInv, CacheTypes
<1>5. WithoutUnreferenced(data[p][T], index[p][T], a) \in DataMap /\ Unbound(index[p][T], a) \in IndexMap
  BY <1>2, <1>4, RemovalFacts
<1> HIDE DEF p, T, a
<1>6. /\ CacheTypes'
      /\ index'[p][T] = Unbound(index[p][T], a)
      /\ \A q \in Pods, U \in Types : q # p \/ U # T =>
           data'[q][U] = data[q][U] /\ index'[q][U] = index[q][U]
  BY <1>1, <1>2, <1>3, <1>5 DEF CInv, CacheTypes
<1> QED BY <1>1, <1>2, <1>3, <1>6 DEF p, T, a

\* A sweep, a command or a caller's removal takes away, alone in its pod.
LEMMA TrimFacts ==
  ASSUME CInv, NEW p \in Pods, Trims(p)
  PROVE  /\ writer[p] = None /\ ~poisoned[p]
         /\ CacheTypes'
         /\ \A q \in Pods : q # p => data'[q] = data[q] /\ index'[q] = index[q]
         /\ \A T \in Types, i \in Ids : data'[p][T][i] \in {data[p][T][i], None}
         /\ \A T \in Types, a \in Args : index'[p][T][a] \in {index[p][T][a], None}
<1> DEFINE Less == /\ CacheTypes'
                   /\ \A q \in Pods : q # p => data'[q] = data[q] /\ index'[q] = index[q]
                   /\ \A T \in Types, i \in Ids : data'[p][T][i] \in {data[p][T][i], None}
                   /\ \A T \in Types, a \in Args : index'[p][T][a] \in {index[p][T][a], None}
<1>1. CacheTypes
  BY DEF CInv
<1>2. ASSUME NEW d \in [Types -> DataMap], NEW x \in [Types -> IndexMap],
             data' = [data EXCEPT ![p] = d], index' = [index EXCEPT ![p] = x],
             \A T \in Types, i \in Ids : d[T][i] \in {data[p][T][i], None},
             \A T \in Types, a \in Args : x[T][a] \in {index[p][T][a], None}
      PROVE  Less
  BY <1>1, <1>2 DEF CacheTypes
<1>3. ASSUME NEW T \in Types, NEW i \in Ids, Removing(p, T, i)
      PROVE  Less
  <2>1. /\ data' = [data EXCEPT ![p][T] = RemoveData(data[p][T], i)] /\ index' = index
        /\ RemoveData(data[p][T], i) \in DataMap
        /\ \A j \in Ids : RemoveData(data[p][T], i)[j] \in {data[p][T][j], None}
    BY <1>1, <1>3 DEF Removing, RemoveData, CacheTypes, DataMap
  <2> QED BY <1>1, <2>1 DEF CacheTypes
<1>4. ASSUME NEW cleared \in SUBSET Types, Clearing(p, cleared)
      PROVE  Less
  <2> DEFINE d == [T \in Types |-> IF T \in cleared THEN EmptyData ELSE data[p][T]]
             x == [T \in Types |-> IF T \in cleared THEN EmptyIndex ELSE index[p][T]]
  <2>1. data' = [data EXCEPT ![p] = d] /\ index' = [index EXCEPT ![p] = x]
    BY <1>4 DEF Clearing
  <2>2. EmptyData \in DataMap /\ EmptyIndex \in IndexMap
    BY DEF EmptyData, EmptyIndex, DataMap, IndexMap
  <2>3. d \in [Types -> DataMap] /\ x \in [Types -> IndexMap]
    BY <1>1, <2>2 DEF CacheTypes
  <2>4. /\ \A T \in Types, i \in Ids : d[T][i] \in {data[p][T][i], None}
        /\ \A T \in Types, a \in Args : x[T][a] \in {index[p][T][a], None}
    BY DEF EmptyData, EmptyIndex
  <2> HIDE DEF d, x, Less
  <2> QED BY <1>2, <2>1, <2>3, <2>4
<1>5. ASSUME Sweeping(p)
      PROVE  Less
  <2>1. PICK left :
          /\ left \in [Types -> UNION {EvictedToMaxSize(WithoutAllExpired(data[p][T]), "Fifo") : T \in Types}]
          /\ \A T \in Types : left[T] \in EvictedToMaxSize(WithoutAllExpired(data[p][T]), "Fifo")
          /\ data' = [data EXCEPT ![p] = left]
    BY <1>5 DEF Sweeping
  <2>2. \A T \in Types : left[T] \in DataMap /\ \A i \in Ids : left[T][i] \in {data[p][T][i], None}
    BY <1>1, <2>1, SweepFacts DEF CacheTypes
  <2>3. left \in [Types -> DataMap]
    BY <2>1, <2>2
  <2> DEFINE x == [T \in Types |-> Retained(index[p][T], data'[p][T])]
  <2>4. index' = [index EXCEPT ![p] = x]
    BY <1>5 DEF Sweeping
  <2>5. ASSUME NEW T \in Types
        PROVE  /\ x[T] \in IndexMap
               /\ \A a \in Args : x[T][a] \in {index[p][T][a], None}
    <3>1. index[p][T] \in IndexMap
      BY <1>1 DEF CacheTypes
    <3> QED BY <3>1 DEF Retained, IndexMap
  <2>6. x \in [Types -> IndexMap]
    BY <2>5
  <2> HIDE DEF x, Less
  <2> QED BY <1>2, <2>1, <2>2, <2>3, <2>4, <2>5, <2>6
<1>6. /\ writer[p] = None /\ ~poisoned[p]
      /\ \/ \E T \in Types, i \in Ids : Removing(p, T, i)
         \/ \E cleared \in SUBSET Types : Clearing(p, cleared)
         \/ Sweeping(p)
  <2>1. ASSUME NEW s \in SubsOf(p), Execute(s) \/ Sweep(s)
        PROVE  <1>6!:
    BY <2>1 DEF SubsOf, Execute, Sweep, Writes, CanWrite
  <2>2. ASSUME NEW t \in Threads, NEW T \in Types, PodOf[t] = p,
               ImcClear(t, T) \/ \E i \in Ids : ImcRemove(t, T, i)
        PROVE  <1>6!:
    BY <2>2 DEF ImcClear, ImcRemove, Removal, Writes, CanWrite
  <2> QED BY <2>1, <2>2 DEF Trims
<1> QED BY <1>3, <1>4, <1>5, <1>6

\* Nobody else touches a cache ...
LEMMA CachesUntouched ==
  ASSUME [CNext]_cvars,
         ~ \E t \in Threads : StoreValue(t),
         ~ \E s \in Subs : RemoveNext(s),
         ~ \E p \in Pods : Trims(p),
         ~TimePasses
  PROVE  UNCHANGED cacheVars
<1>1. ASSUME NEW t \in Threads, Calls(t)
      PROVE  UNCHANGED cacheVars
  BY <1>1 DEF Calls, Caller, ThroughKeyed, WritePanics, LookupHit, LookupMiss, Compute, Register, Publish,
     SkipPublish, ReadBack, ReadBackPanics, LockPanics
<1>2. ASSUME NEW s \in Subs, SpawnWorker(s) \/ Subscriber(s) \/ ReadTimeout(s) \/ ConnectionFails(s)
      PROVE  UNCHANGED cacheVars
  BY <1>2 DEF Subscriber, SpawnWorker, StartSubscriber, StopSubscriber, Snapshot, Connect,
     AwaitMessage, ReadTimeout, ConnectionFails, TakeMessage, FinishMessage, RemovePanics,
     RegistryPanics
<1>3. (\E p \in Pods : DropWorker(p)) \/ (\E i \in Ids : DbUpdate(i)) \/ UNCHANGED cvars
        => UNCHANGED cacheVars
  BY DEF DropWorker, DbUpdate, cvars
<1> QED BY <1>1, <1>2, <1>3, NextCases

\* ... but for the ageing of its entries.
LEMMA CacheKept ==
  ASSUME CInv, [CNext]_cvars,
         ~ \E t \in Threads : StoreValue(t),
         ~ \E s \in Subs : RemoveNext(s),
         ~ \E p \in Pods : Trims(p)
  PROVE  /\ CacheTypes' /\ index' = index
         /\ \A p \in Pods, T \in Types, i \in Ids : data'[p][T][i] = None <=> data[p][T][i] = None
<1>1. \/ UNCHANGED cacheVars
      \/ data' = [p \in Pods |-> [T \in Types |-> Aged(data[p][T])]] /\ index' = index
  BY CachesUntouched DEF TimePasses
<1>2. \A p \in Pods, T \in Types : data[p][T] \in DataMap
  BY DEF CInv, CacheTypes
<1>3. \A p \in Pods, T \in Types :
        /\ Aged(data[p][T]) \in DataMap
        /\ \A i \in Ids : Aged(data[p][T])[i] = None <=> data[p][T][i] = None
  BY <1>2, AgedFacts
<1>4. CASE UNCHANGED cacheVars
  BY <1>4 DEF CInv, CacheTypes, cacheVars
<1>5. CASE data' = [p \in Pods |-> [T \in Types |-> Aged(data[p][T])]] /\ index' = index
  BY <1>3, <1>5 DEF CInv, CacheTypes
<1> QED BY <1>1, <1>4, <1>5

-----------------------------------------------------------------------------
\* A call holds the stores lock because it has just stored, or goes on holding it.
LEMMA StoringKept ==
  ASSUME CInv, [CNext]_cvars, NEW t \in Threads, ~StoreValue(t), Storing(t)'
  PROVE  Storing(t) /\ call'[t] = call[t]
<1> USE DEF CInv, CallTypes, Storing
<1>1. ASSUME NEW u \in Threads, Calls(u)
      PROVE  Storing(t) /\ call'[t] = call[t]
  <2>1. u # t => pc'[t] = pc[t] /\ call'[t] = call[t]
    BY <1>1 DEF Calls, Caller, ThroughKeyed, WritePanics, LookupHit, LookupMiss, Compute, StoreValue, Register,
       Publish, SkipPublish, ReadBack, ReadBackPanics, LockPanics, Return, Panic, Goto, callVars
  <2>2. CASE \E T \in Types, a \in Args : ThroughKeyed(t, T, a)
    BY <2>2 DEF ThroughKeyed, Goto
  <2>3. CASE LookupHit(t) \/ ReadBack(t) \/ ReadBackPanics(t) \/ LockPanics(t) \/ WritePanics(t)
    BY <2>3 DEF LookupHit, ReadBack, ReadBackPanics, LockPanics, WritePanics, Return, Panic, Goto
  <2>4. CASE LookupMiss(t) \/ Compute(t)
    BY <2>4 DEF LookupMiss, Compute, Goto
  <2>5. CASE Register(t) \/ Publish(t) \/ SkipPublish(t)
    BY <2>5 DEF Register, Publish, SkipPublish, Goto
  <2> QED BY <1>1, <2>1, <2>2, <2>3, <2>4, <2>5 DEF Calls, Caller
<1>2. ASSUME NEW s \in Subs, SpawnWorker(s) \/ Subscriber(s) \/ ReadTimeout(s) \/ ConnectionFails(s)
      PROVE  UNCHANGED callVars
  BY <1>2, SubscriberFrame
<1>3. UNCHANGED <<pc, call>> => Storing(t) /\ call'[t] = call[t]
  OBVIOUS
<1>4. (\E p \in Pods : DropWorker(p)) \/ (\E i \in Ids : DbUpdate(i)) \/ TimePasses
        \/ UNCHANGED cvars => UNCHANGED callVars
  BY EnvironmentFrame
<1>5. ASSUME NEW p \in Pods, Trims(p)
      PROVE  UNCHANGED <<pc, call>>
  BY <1>5, TrimFrame
<1> QED BY <1>1, <1>2, <1>3, <1>4, <1>5, NextCases DEF callVars

\* What a call has stored stays: nobody else of the pod stores, and no subscriber
\* of it removes, before the call lets go of the lock.
LEMMA StoredStep ==
  ASSUME CInv, [CNext]_cvars
  PROVE  CacheTypes' /\ StoredWhilePublishing'
<1>a. StoredWhilePublishing <=>
        \A t \in Threads : Storing(t) =>
          /\ index[PodOf[t]][call[t].type][call[t].args] = call[t].id
          /\ data[PodOf[t]][call[t].type][call[t].id] # None
  BY DEF StoredWhilePublishing, Storing
<1>b. StoredWhilePublishing' <=>
        \A t \in Threads : Storing(t)' =>
          /\ index'[PodOf[t]][call'[t].type][call'[t].args] = call'[t].id
          /\ data'[PodOf[t]][call'[t].type][call'[t].id] # None
  BY DEF StoredWhilePublishing, Storing
<1>c. \A t \in Threads : Storing(t) =>
         /\ writer[PodOf[t]] = t /\ t # None /\ PodOf[t] \in Pods
         /\ call[t].type \in Types /\ call[t].args \in Args /\ call[t].id \in Ids
  <2> SUFFICES ASSUME NEW t \in Threads, Storing(t)
               PROVE  /\ writer[PodOf[t]] = t /\ t # None /\ PodOf[t] \in Pods
                      /\ call[t].type \in Types /\ call[t].args \in Args /\ call[t].id \in Ids
    OBVIOUS
  <2>1. writer[PodOf[t]] = t /\ t # None /\ PodOf[t] \in Pods
    BY CriticalAssumption DEF CInv, StoresLock
  <2>2. pc[t] \notin {"idle", "panicked"}
    BY DEF Storing
  <2> QED BY <2>1, <2>2 DEF CInv, CallLocals
<1>1. ASSUME NEW u \in Threads, StoreValue(u)
      PROVE  CacheTypes' /\ StoredWhilePublishing'
  <2> DEFINE p == PodOf[u]
             T == call[u].type
             a == call[u].args
             i == call[u].id
  <2>1. /\ p \in Pods /\ T \in Types /\ a \in Args /\ i \in Ids
        /\ writer[p] = None /\ call' = call /\ CacheTypes'
        /\ data'[p][T][i] # None
        /\ index'[p][T] = [index[p][T] EXCEPT ![a] = i]
        /\ \A q \in Pods, U \in Types : q # p \/ U # T =>
             data'[q][U] = data[q][U] /\ index'[q][U] = index[q][U]
        /\ pc' = [pc EXCEPT ![u] = "register"]
    BY <1>1, StoreFacts
  <2>2. index'[p][T][a] = i
    <3>1. index[p][T] \in IndexMap
      BY <2>1 DEF CInv, CacheTypes
    <3> HIDE DEF p, T, a, i
    <3> QED BY <2>1, <3>1 DEF IndexMap
  <2>3. ASSUME NEW t \in Threads, t # u, Storing(t)'
        PROVE  /\ index'[PodOf[t]][call'[t].type][call'[t].args] = call'[t].id
               /\ data'[PodOf[t]][call'[t].type][call'[t].id] # None
    <3>1. Storing(t)
      BY <2>1, <2>3 DEF CInv, CallTypes, Storing
    <3>2. PodOf[t] # p
      BY <1>c, <2>1, <3>1
    <3> QED BY <1>a, <1>c, <2>1, <3>1, <3>2 DEF CInv
  <2> QED BY <1>b, <2>1, <2>2, <2>3
<1>2. ASSUME ~ \E t \in Threads : StoreValue(t)
      PROVE  CacheTypes' /\ StoredWhilePublishing'
  <2>1. \A t \in Threads : Storing(t)' => Storing(t) /\ call'[t] = call[t]
    BY <1>2, StoringKept
  <2>2. ASSUME NEW s \in Subs, RemoveNext(s)
        PROVE  CacheTypes' /\ StoredWhilePublishing'
    <3>1. /\ CacheTypes' /\ SubPod[s] \in Pods /\ writer[SubPod[s]] = None
          /\ \A q \in Pods, U \in Types : q # SubPod[s] =>
               data'[q][U] = data[q][U] /\ index'[q][U] = index[q][U]
      BY <2>2, RemoveNextFacts
    <3>2. \A t \in Threads : Storing(t) => PodOf[t] # SubPod[s]
      BY <1>c, <3>1
    <3> QED BY <1>a, <1>b, <1>c, <2>1, <3>1, <3>2 DEF CInv
  <2>3. ASSUME NEW q \in Pods, Trims(q)
        PROVE  CacheTypes' /\ StoredWhilePublishing'
    <3>1. /\ CacheTypes' /\ writer[q] = None
          /\ \A p \in Pods : p # q => data'[p] = data[p] /\ index'[p] = index[p]
      BY <2>3, TrimFacts
    <3>2. \A t \in Threads : Storing(t) => PodOf[t] # q
      BY <1>c, <3>1
    <3> QED BY <1>a, <1>b, <1>c, <2>1, <3>1, <3>2 DEF CInv
  <2>4. ASSUME ~ \E s \in Subs : RemoveNext(s), ~ \E q \in Pods : Trims(q)
        PROVE  CacheTypes' /\ StoredWhilePublishing'
    <3>1. /\ CacheTypes' /\ index' = index
          /\ \A p \in Pods, T \in Types, i \in Ids :
               data'[p][T][i] = None <=> data[p][T][i] = None
      BY <1>2, <2>4, CacheKept
    <3> QED BY <1>a, <1>b, <1>c, <2>1, <3>1 DEF CInv
  <2> QED BY <2>2, <2>3, <2>4
<1> QED BY <1>1, <1>2

-----------------------------------------------------------------------------
\* The stores lock is taken free and unpoisoned, and is given back by its holder.
LEMMA StoresLockStep ==
  ASSUME CInv, [CNext]_cvars
  PROVE  StoresLock'
<1> USE DEF CInv, CallTypes, StoresLock, Storing
<1>0. /\ \A t \in Threads : t # None /\ PodOf[t] \in Pods
      /\ \A p \in Pods : poisoned[p] \in BOOLEAN
  BY CriticalAssumption
<1>1. ASSUME NEW t \in Threads, StoreValue(t)
      PROVE  StoresLock'
  <2>1. /\ writer[PodOf[t]] = None /\ ~poisoned[PodOf[t]] /\ pc[t] = "store"
        /\ writer' = [writer EXCEPT ![PodOf[t]] = t] /\ poisoned' = poisoned
        /\ pc' = [pc EXCEPT ![t] = "register"]
    BY <1>1 DEF StoreValue, CanWrite, Goto
  <2> QED BY <1>0, <2>1
<1>2. ASSUME NEW t \in Threads, ReadBack(t) \/ ReadBackPanics(t)
      PROVE  StoresLock'
  <2>1. /\ writer' = [writer EXCEPT ![PodOf[t]] = None] /\ pc[t] = "readback"
        /\ poisoned' = poisoned \/ poisoned' = [poisoned EXCEPT ![PodOf[t]] = TRUE]
        /\ \E step \in {"idle", "panicked"} : pc' = [pc EXCEPT ![t] = step]
    BY <1>2 DEF ReadBack, ReadBackPanics, Return, Panic, Goto
  <2>2. writer[PodOf[t]] = t
    BY <2>1
  <2> QED BY <1>0, <2>1, <2>2
<1>3. ASSUME writer' = writer, poisoned' = poisoned,
             \A t \in Threads : Storing(t)' <=> Storing(t)
      PROVE  StoresLock'
  BY <1>3
<1>4. ASSUME NEW t \in Threads,
             \/ \E T \in Types, a \in Args : ThroughKeyed(t, T, a)
             \/ LookupHit(t) \/ LookupMiss(t) \/ Compute(t) \/ Register(t) \/ Publish(t)
             \/ SkipPublish(t) \/ LockPanics(t) \/ WritePanics(t)
      PROVE  StoresLock'
  <2>1. writer' = writer /\ poisoned' = poisoned
    BY <1>4 DEF ThroughKeyed, LookupHit, LookupMiss, Compute, Register, Publish, SkipPublish,
       LockPanics, WritePanics, lockVars
  <2>2. CASE \/ \E T \in Types, a \in Args : ThroughKeyed(t, T, a)
             \/ LookupHit(t) \/ LookupMiss(t) \/ Compute(t) \/ LockPanics(t) \/ WritePanics(t)
    <3>1. /\ pc[t] \notin {"register", "publish", "readback"}
          /\ \E step \in {"lookup", "idle", "compute", "store", "panicked"} :
               pc' = [pc EXCEPT ![t] = step]
      BY <2>2 DEF ThroughKeyed, LookupHit, LookupMiss, Compute, LockPanics, WritePanics, Return, Panic, Goto
    <3> QED BY <1>3, <2>1, <3>1
  <2>3. CASE Register(t) \/ Publish(t) \/ SkipPublish(t)
    <3>1. /\ pc[t] \in {"register", "publish"}
          /\ \E step \in {"publish", "readback"} : pc' = [pc EXCEPT ![t] = step]
      BY <2>3 DEF Register, Publish, SkipPublish, Goto
    <3> QED BY <1>3, <2>1, <3>1
  <2> QED BY <1>4, <2>2, <2>3
<1>5. ASSUME NEW s \in Subs, SpawnWorker(s) \/ Subscriber(s) \/ ReadTimeout(s) \/ ConnectionFails(s)
      PROVE  StoresLock'
  BY <1>3, <1>5, SubscriberFrame DEF callVars
<1>6. ASSUME (\E p \in Pods : DropWorker(p)) \/ (\E i \in Ids : DbUpdate(i)) \/ TimePasses
               \/ UNCHANGED cvars
      PROVE  StoresLock'
  BY <1>3, <1>6, EnvironmentFrame DEF callVars, lockVars
<1>7. ASSUME NEW p \in Pods, Trims(p)
      PROVE  StoresLock'
  BY <1>3, <1>7, TrimFrame DEF lockVars
<1> QED BY <1>1, <1>2, <1>4, <1>5, <1>6, <1>7, NextCases DEF Calls, Caller

\* A store registers its type with the channel of the type, and with no other.
LEMMA RegisterFacts ==
  ASSUME CInv, NEW t \in Threads, Register(t)
  PROVE  LET p == PodOf[t]
             T == call[t].type
             c == ChannelOf[T] IN
         /\ p \in Pods /\ T \in Types /\ c \in Channels /\ writer[p] = t
         /\ registry' \in [Pods -> [Channels -> Seq(Types)]]
         /\ ToSet(registry'[p][c]) = ToSet(registry[p][c]) \cup {T}
         /\ \A q \in Pods, d \in Channels : q # p \/ d # c => registry'[q][d] = registry[q][d]
<1> DEFINE p == PodOf[t]
           T == call[t].type
           c == ChannelOf[T]
<1>1. registry' = [registry EXCEPT ![p][c] = Append(registry[p][c], T)] /\ pc[t] = "register"
  BY DEF Register
<1>2. T \in Types
  BY <1>1 DEF CInv, CallLocals
<1>3. p \in Pods /\ c \in Channels
  BY <1>2, CriticalAssumption
<1>4. writer[p] = t
  BY <1>1 DEF CInv, StoresLock, Storing
<1> HIDE DEF p, T, c
<1>5. registry[p][c] \in Seq(Types)
  BY <1>3 DEF CInv, RegistryLock
<1>6. /\ Append(registry[p][c], T) \in Seq(Types)
      /\ ToSet(Append(registry[p][c], T)) = ToSet(registry[p][c]) \cup {T}
  BY <1>2, <1>5, ToSetFacts, AppendProperties
<1>7. /\ registry' \in [Pods -> [Channels -> Seq(Types)]]
      /\ registry'[p][c] = Append(registry[p][c], T)
      /\ \A q \in Pods, d \in Channels : q # p \/ d # c => registry'[q][d] = registry[q][d]
  BY <1>1, <1>3, <1>6 DEF CInv, RegistryLock
<1> QED BY <1>2, <1>3, <1>4, <1>6, <1>7 DEF p, T, c

\* The registry's mutex is held from one message to its end, and poisoned only by
\* a removal that finds the stores lock poisoned.
LEMMA RegistryLockStep ==
  ASSUME CInv, [CNext]_cvars
  PROVE  RegistryLock'
<1> USE DEF CInv, RegistryLock
<1>0. /\ \A s \in Subs : s # None /\ SubPod[s] \in Pods
      /\ spc \in [Subs -> SubSteps]
  BY CriticalAssumption DEF SubscriberTypes
<1>1. \A p \in Pods : poisoned[p] => poisoned'[p]
  <2>1. ASSUME NEW t \in Threads, Calls(t)
        PROVE  \A p \in Pods : poisoned[p] => poisoned'[p]
    <3>1. poisoned' = poisoned \/ poisoned' = [poisoned EXCEPT ![PodOf[t]] = TRUE]
      BY <2>1 DEF Calls, Caller, ThroughKeyed, WritePanics, LookupHit, LookupMiss, Compute, StoreValue, Register,
         Publish, SkipPublish, ReadBack, ReadBackPanics, LockPanics, lockVars
    <3>2. poisoned \in [Pods -> BOOLEAN]
      BY DEF StoresLock
    <3> QED BY <3>1, <3>2
  <2>2. ASSUME NEW s \in Subs, SpawnWorker(s) \/ Subscriber(s) \/ ReadTimeout(s) \/ ConnectionFails(s)
        PROVE  poisoned' = poisoned
    BY <2>2, SubscriberFrame
  <2>3. (\E p \in Pods : DropWorker(p)) \/ (\E i \in Ids : DbUpdate(i)) \/ TimePasses
          \/ UNCHANGED cvars => poisoned' = poisoned
    BY EnvironmentFrame DEF lockVars
  <2>4. ASSUME NEW p \in Pods, Trims(p)
        PROVE  poisoned' = poisoned
    BY <2>4, TrimFrame DEF CallTypes, lockVars
  <2> QED BY <2>1, <2>2, <2>3, <2>4, NextCases
<1>2. ASSUME NEW t \in Threads, Register(t)
      PROVE  RegistryLock'
  <2> DEFINE p == PodOf[t]
             T == call[t].type
             c == ChannelOf[T]
  <2>1. UNCHANGED <<registrar, regPoisoned, spc>>
    BY <1>2 DEF Register, lockVars, subVars
  <2>2. /\ p \in Pods /\ T \in Types /\ c \in Channels /\ ChannelOf[T] = c
        /\ registry' \in [Pods -> [Channels -> Seq(Types)]]
        /\ ToSet(registry'[p][c]) = ToSet(registry[p][c]) \cup {T}
        /\ \A q \in Pods, d \in Channels : q # p \/ d # c => registry'[q][d] = registry[q][d]
    BY <1>2, RegisterFacts
  <2> HIDE DEF p, T, c
  <2>3. ASSUME NEW q \in Pods, NEW d \in Channels, NEW U \in ToSet(registry'[q][d])
        PROVE  ChannelOf[U] = d
    <3>1. CASE q = p /\ d = c
      <4>1. U \in ToSet(registry[p][c]) \/ U = T
        BY <2>2, <2>3, <3>1
      <4> QED BY <2>2, <3>1, <4>1
    <3>2. CASE ~(q = p /\ d = c)
      BY <2>2, <2>3, <3>2
    <3> QED BY <3>1, <3>2
  <2> QED BY <1>1, <2>1, <2>2, <2>3
<1>3. ASSUME NEW t \in Threads, ~Register(t),
             Calls(t)
      PROVE  RegistryLock'
  <2>1. registry' = registry
    BY <1>3 DEF Calls, Caller, ThroughKeyed, WritePanics, LookupHit, LookupMiss, Compute, StoreValue,
       Publish, SkipPublish, ReadBack, ReadBackPanics, LockPanics, podVars
  <2>2. UNCHANGED <<registrar, regPoisoned, spc>>
    BY <1>3, CallerFrame DEF subVars
  <2> QED BY <1>1, <2>1, <2>2
<1>4. ASSUME NEW s \in Subs, TakeMessage(s)
      PROVE  RegistryLock'
  <2>1. /\ registrar[SubPod[s]] = None /\ registrar' = [registrar EXCEPT ![SubPod[s]] = s]
        /\ spc' = [spc EXCEPT ![s] = "handling"] /\ UNCHANGED <<regPoisoned, registry>>
    BY <1>4 DEF TakeMessage, SubGoto, podVars
  <2> QED BY <1>0, <1>1, <2>1
<1>5. ASSUME NEW s \in Subs, FinishMessage(s) \/ RemovePanics(s)
      PROVE  RegistryLock'
  <2>1. /\ spc[s] = "handling" /\ registrar' = [registrar EXCEPT ![SubPod[s]] = None]
        /\ \E step \in {"listening", "died"} : spc' = [spc EXCEPT ![s] = step]
        /\ \/ regPoisoned' = regPoisoned
           \/ regPoisoned' = [regPoisoned EXCEPT ![SubPod[s]] = TRUE] /\ poisoned[SubPod[s]]
        /\ registry' = registry
    BY <1>5 DEF FinishMessage, RemovePanics, SubGoto, podVars
  <2>2. registrar[SubPod[s]] = s
    BY <2>1
  <2>3. /\ registrar' \in [Pods -> Subs \cup {None}]
        /\ \A p \in Pods : registrar'[p] # None => SubPod[registrar'[p]] = p
    BY <1>0, <2>1
  <2>4. \A r \in Subs : spc'[r] = "handling" <=> registrar'[SubPod[r]] = r
    <3>1. ASSUME NEW r \in Subs, r # s
          PROVE  spc'[r] = "handling" <=> registrar'[SubPod[r]] = r
      <4>1. spc'[r] = spc[r]
        BY <1>0, <2>1, <3>1
      <4>2. SubPod[r] = SubPod[s] => registrar[SubPod[r]] # r /\ registrar'[SubPod[r]] = None
        BY <1>0, <2>1, <2>2, <3>1
      <4>3. SubPod[r] # SubPod[s] => registrar'[SubPod[r]] = registrar[SubPod[r]]
        BY <1>0, <2>1
      <4> QED BY <1>0, <4>1, <4>2, <4>3
    <3>2. spc'[s] # "handling" /\ registrar'[SubPod[s]] # s
      BY <1>0, <2>1
    <3> QED BY <3>1, <3>2
  <2>5. regPoisoned' \in [Pods -> BOOLEAN] /\ \A p \in Pods : regPoisoned'[p] => poisoned'[p]
    <3>1. CASE regPoisoned' = regPoisoned
      BY <1>1, <3>1
    <3>2. CASE regPoisoned' = [regPoisoned EXCEPT ![SubPod[s]] = TRUE] /\ poisoned[SubPod[s]]
      BY <1>1, <3>2
    <3> QED BY <2>1, <3>1, <3>2
  <2> QED BY <2>1, <2>3, <2>4, <2>5
<1>6. ASSUME UNCHANGED <<registry, registrar, regPoisoned>>,
             \A s \in Subs : spc'[s] = "handling" <=> spc[s] = "handling"
      PROVE  RegistryLock'
  BY <1>1, <1>6
<1>7. ASSUME NEW s \in Subs,
             \/ SpawnWorker(s) \/ StartSubscriber(s) \/ StopSubscriber(s) \/ Snapshot(s)
             \/ Connect(s) \/ AwaitMessage(s) \/ ReadTimeout(s) \/ ConnectionFails(s)
             \/ RegistryPanics(s)
      PROVE  RegistryLock'
  <2>1. /\ spc[s] # "handling" /\ UNCHANGED <<registry, registrar, regPoisoned>>
        /\ \E step \in SubSteps \ {"handling"} : spc' = [spc EXCEPT ![s] = step]
    BY <1>7 DEF SpawnWorker, StartSubscriber, StopSubscriber, Snapshot, Connect, AwaitMessage,
       ReadTimeout, ConnectionFails, RegistryPanics, SubGoto, lockVars, podVars, SubSteps
  <2> QED BY <1>0, <1>6, <2>1
<1>8. ASSUME NEW s \in Subs, RemoveNext(s)
      PROVE  RegistryLock'
  BY <1>6, <1>8 DEF RemoveNext, lockVars, podVars
<1>9. ASSUME (\E p \in Pods : DropWorker(p)) \/ (\E i \in Ids : DbUpdate(i)) \/ TimePasses
               \/ UNCHANGED cvars
      PROVE  RegistryLock'
  BY <1>6, <1>9, EnvironmentFrame DEF lockVars, subVars
<1>10. ASSUME NEW p \in Pods, Trims(p)
       PROVE  RegistryLock'
  BY <1>6, <1>10, TrimFrame DEF CallTypes, lockVars, podVars, subVars
<1> QED BY <1>2, <1>3, <1>4, <1>5, <1>7, <1>8, <1>9, <1>10, NextCases DEF Subscriber

-----------------------------------------------------------------------------
\* A subscriber is connected only while it reads or handles what it has read.
LEMMA SubscriberStep ==
  ASSUME CInv, [CNext]_cvars
  PROVE  SubscriberTypes'
<1> USE DEF CInv, SubscriberTypes
<1>0. /\ \A s \in Subs : SubPod[s] \in Pods
      /\ <<>> \in Seq(Types)
  BY CriticalAssumption, EmptySeq
<1>1. ASSUME NEW s \in Subs, NEW step \in SubSteps, spc' = [spc EXCEPT ![s] = step],
             workerTx' \in [Pods -> BOOLEAN], active' \in [Pods -> BOOLEAN],
             wanted' \in [Subs -> SUBSET Channels], msg' \in [Subs -> Messages \cup {None}],
             todo' \in [Subs -> Seq(Types)], Connections(Messages)',
             \A r \in Subs : r # s => msg'[r] = msg[r] /\ listening'[r] = listening[r],
             step = "handling" => msg'[s] \in Messages,
             step \notin {"listening", "reading", "handling"} => listening'[s] = {}
      PROVE  SubscriberTypes'
  BY <1>1
<1>2. ASSUME UNCHANGED <<subVars, redisVars>>,
             workerTx' \in [Pods -> BOOLEAN], active' \in [Pods -> BOOLEAN]
      PROVE  SubscriberTypes'
  BY <1>2 DEF subVars, redisVars, Connections, RedisTypes, OnlySubscribedRead
<1>3. ASSUME UNCHANGED redisVars
      PROVE  Connections(Messages)' /\ listening' = listening
  BY <1>3 DEF redisVars, Connections, RedisTypes, OnlySubscribedRead
<1>4. ASSUME NEW s \in Subs, SpawnWorker(s) \/ StartSubscriber(s)
      PROVE  SubscriberTypes'
  <2>1. /\ UNCHANGED <<wanted, msg, todo, redisVars>>
        /\ spc[s] \in {"unborn", "start"}
        /\ \E step \in {"start", "loop"} : spc' = [spc EXCEPT ![s] = step]
        /\ workerTx' \in [Pods -> BOOLEAN] /\ active' \in [Pods -> BOOLEAN]
    BY <1>4 DEF SpawnWorker, StartSubscriber, SubGoto
  <2>2. PICK step \in {"start", "loop"} : spc' = [spc EXCEPT ![s] = step]
    BY <2>1
  <2>3. step \in SubSteps /\ step \notin {"listening", "reading", "handling"} /\ listening[s] = {}
    BY <2>1, <2>2 DEF SubSteps
  <2> QED BY <1>1, <1>3, <2>1, <2>2, <2>3
<1>5. ASSUME NEW s \in Subs, Snapshot(s)
      PROVE  SubscriberTypes'
  <2>1. /\ UNCHANGED <<workerTx, active, msg, todo, redisVars>> /\ spc[s] = "loop"
        /\ spc' = [spc EXCEPT ![s] = "connect"]
        /\ wanted' = [wanted EXCEPT ![s] = {c \in Channels : registry[SubPod[s]][c] # <<>>}]
    BY <1>5 DEF Snapshot, SubGoto, podVars
  <2>2. "connect" \in SubSteps /\ listening[s] = {}
    BY <2>1 DEF SubSteps
  <2>3. wanted' \in [Subs -> SUBSET Channels]
    BY <2>1
  <2> QED BY <1>1, <1>3, <2>1, <2>2, <2>3
<1>6. ASSUME NEW s \in Subs, Connect(s)
      PROVE  SubscriberTypes'
  <2>1. /\ UNCHANGED <<workerTx, active, msg, todo>>
        /\ spc' = [spc EXCEPT ![s] = "reading"] /\ wanted' = [wanted EXCEPT ![s] = {}]
        /\ Subscribe(s, wanted[s])
    BY <1>6 DEF Connect, SubGoto, podVars
  <2>2. /\ Connections(Messages)'
        /\ \A r \in Subs : r # s => listening'[r] = listening[r]
    BY <2>1, ConnectionFacts
  <2>3. "reading" \in SubSteps /\ wanted' \in [Subs -> SUBSET Channels]
    BY <2>1 DEF SubSteps
  <2> QED BY <1>1, <2>1, <2>2, <2>3
<1>7. ASSUME NEW s \in Subs, Disconnect(s), UNCHANGED <<workerTx, active>>,
             \E step \in {"ended", "loop", "died"} : spc' = [spc EXCEPT ![s] = step],
             wanted' = wanted \/ wanted' = [wanted EXCEPT ![s] = {}],
             msg' = msg \/ msg' = [msg EXCEPT ![s] = None],
             todo' = todo \/ todo' = [todo EXCEPT ![s] = <<>>]
      PROVE  SubscriberTypes'
  <2>1. PICK step \in {"ended", "loop", "died"} : spc' = [spc EXCEPT ![s] = step]
    BY <1>7
  <2>2. /\ Connections(Messages)' /\ listening'[s] = {}
        /\ \A r \in Subs : r # s => listening'[r] = listening[r]
    BY <1>7, ConnectionFacts
  <2>3. step \in SubSteps /\ step # "handling"
    BY DEF SubSteps
  <2>4. /\ msg' \in [Subs -> Messages \cup {None}] /\ \A r \in Subs : r # s => msg'[r] = msg[r]
        /\ wanted' \in [Subs -> SUBSET Channels]
    BY <1>7
  <2>5. todo' \in [Subs -> Seq(Types)]
    BY <1>0, <1>7
  <2> QED BY <1>1, <1>7, <2>1, <2>2, <2>3, <2>4, <2>5
<1>8. ASSUME NEW s \in Subs,
             \/ StopSubscriber(s) \/ ConnectionFails(s) \/ RemovePanics(s) \/ RegistryPanics(s)
      PROVE  SubscriberTypes'
  <2>1. CASE StopSubscriber(s) \/ ConnectionFails(s)
    BY <1>7, <2>1 DEF StopSubscriber, ConnectionFails, SubGoto, podVars
  <2>2. CASE RemovePanics(s) \/ RegistryPanics(s)
    BY <1>7, <2>2 DEF RemovePanics, RegistryPanics, SubGoto, podVars
  <2> QED BY <1>8, <2>1, <2>2
<1>9. ASSUME NEW s \in Subs, AwaitMessage(s) \/ ReadTimeout(s)
      PROVE  SubscriberTypes'
  <2>1. /\ UNCHANGED <<workerTx, active, wanted, msg, todo, redisVars>>
        /\ \E step \in {"reading", "listening"} : spc' = [spc EXCEPT ![s] = step]
    BY <1>9 DEF AwaitMessage, ReadTimeout, SubGoto, podVars
  <2>2. PICK step \in {"reading", "listening"} : spc' = [spc EXCEPT ![s] = step]
    BY <2>1
  <2>3. step \in SubSteps /\ step # "handling" /\ step \in {"listening", "reading", "handling"}
    BY DEF SubSteps
  <2> QED BY <1>1, <1>3, <2>1, <2>2, <2>3
<1>10. ASSUME NEW s \in Subs, TakeMessage(s)
       PROVE  SubscriberTypes'
  <2>1. /\ UNCHANGED <<workerTx, active, wanted>> /\ Read(s)
        /\ spc' = [spc EXCEPT ![s] = "handling"]
        /\ msg' = [msg EXCEPT ![s] = Head(inbox[s])]
        /\ todo' = [todo EXCEPT ![s] = registry[SubPod[s]][Head(inbox[s]).channel]]
    BY <1>10 DEF TakeMessage, SubGoto, podVars
  <2>2. Connections(Messages)' /\ listening' = listening /\ Head(inbox[s]) \in Messages
    BY <2>1, ReadFacts
  <2>3. registry[SubPod[s]][Head(inbox[s]).channel] \in Seq(Types)
    BY <1>0, <2>2 DEF RegistryLock, Messages
  <2>4. todo' \in [Subs -> Seq(Types)] /\ msg' \in [Subs -> Messages \cup {None}]
    BY <2>1, <2>2, <2>3
  <2>5. "handling" \in SubSteps
    BY DEF SubSteps
  <2> QED BY <1>1, <2>1, <2>2, <2>4, <2>5
<1>11. ASSUME NEW s \in Subs, RemoveNext(s)
       PROVE  SubscriberTypes'
  <2>1. /\ UNCHANGED <<workerTx, active, spc, wanted, msg, redisVars>> /\ todo[s] # <<>>
        /\ todo' = [todo EXCEPT ![s] = Tail(todo[s])]
    BY <1>11 DEF RemoveNext, podVars
  <2>2. todo' \in [Subs -> Seq(Types)]
    BY <2>1, ToSetFacts
  <2> QED BY <1>3, <2>1, <2>2
<1>12. ASSUME NEW s \in Subs, FinishMessage(s)
       PROVE  SubscriberTypes'
  <2>1. /\ UNCHANGED <<workerTx, active, wanted, todo, redisVars>>
        /\ spc' = [spc EXCEPT ![s] = "listening"] /\ msg' = [msg EXCEPT ![s] = None]
    BY <1>12 DEF FinishMessage, SubGoto, podVars
  <2>2. "listening" \in SubSteps
    BY DEF SubSteps
  <2> QED BY <1>1, <1>3, <2>1, <2>2
<1>13. ASSUME NEW t \in Threads, Publish(t)
       PROVE  SubscriberTypes'
  <2> DEFINE c == ChannelOf[call[t].type]
             m == [channel |-> c, args |-> call[t].args]
  <2>1. pc[t] = "publish" /\ Deliver(c, m) /\ UNCHANGED <<workerTx, active, subVars>>
    BY <1>13 DEF Publish, podVars
  <2>2. call[t].type \in Types /\ call[t].args \in Args
    BY <2>1 DEF CallLocals
  <2>3. c \in Channels /\ m \in Messages
    BY <2>2, CriticalAssumption DEF Messages
  <2> HIDE DEF c, m
  <2>4. Connections(Messages)' /\ listening' = listening
    BY <2>1, <2>3, DeliverFacts
  <2> QED BY <2>1, <2>4 DEF subVars
<1>14. ASSUME NEW t \in Threads, ~Publish(t),
              Calls(t)
       PROVE  SubscriberTypes'
  <2>1. UNCHANGED redisVars
    BY <1>14 DEF Calls, Caller, ThroughKeyed, WritePanics, LookupHit, LookupMiss, Compute, StoreValue, Register,
       SkipPublish, ReadBack, ReadBackPanics, LockPanics
  <2>2. UNCHANGED <<workerTx, active, subVars>>
    BY <1>14, CallerFrame
  <2> QED BY <1>2, <2>1, <2>2
<1>15. ASSUME (\E p \in Pods : DropWorker(p)) \/ (\E i \in Ids : DbUpdate(i)) \/ TimePasses
                \/ UNCHANGED cvars
       PROVE  SubscriberTypes'
  <2>1. workerTx' \in [Pods -> BOOLEAN]
    BY <1>15 DEF DropWorker, DbUpdate, TimePasses, cvars, podVars
  <2> QED BY <1>2, <1>15, <2>1, EnvironmentFrame
<1>16. ASSUME NEW p \in Pods, Trims(p)
       PROVE  SubscriberTypes'
  BY <1>2, <1>16, TrimFrame DEF CallTypes, podVars
<1> QED BY <1>4, <1>5, <1>6, <1>8, <1>9, <1>10, <1>11, <1>12, <1>13, <1>14, <1>15, <1>16, NextCases
    DEF Subscriber

-----------------------------------------------------------------------------
LEMMA InitCInv == CInit => CInv
<1> SUFFICES ASSUME CInit
             PROVE  CInv
  OBVIOUS
<1>0. /\ \A t \in Threads : t # None
      /\ \A s \in Subs : s # None
  BY CriticalAssumption
<1>1. CacheTypes
  BY DEF CInit, CacheTypes, DataMap, IndexMap, EmptyData, EmptyIndex
<1>2. CallTypes /\ CallLocals
  <2>1. NoCall \in Locals
    BY DEF NoCall, Locals
  <2> QED BY <2>1 DEF CInit, CallTypes, CallLocals, CallSteps, Storing
<1>3. StoresLock /\ StoredWhilePublishing
  BY <1>0, CriticalAssumption DEF CInit, StoresLock, Storing, StoredWhilePublishing
<1>4. RegistryLock
  <2>1. <<>> \in Seq(Types) /\ ToSet(<<>>) = {}
    BY EmptySeq, ToSetFacts
  <2> QED BY <1>0, <2>1, CriticalAssumption DEF CInit, RegistryLock
<1>5. SubscriberTypes
  <2>1. Connections(Messages)
    BY InitConnections DEF CInit
  <2> QED BY <2>1, EmptySeq DEF CInit, SubscriberTypes, SubSteps, RedisInit
<1> QED BY <1>1, <1>2, <1>3, <1>4, <1>5 DEF CInv

LEMMA NextCInv == CInv /\ [CNext]_cvars => CInv'
BY CallStep, StoredStep, StoresLockStep, RegistryLockStep, SubscriberStep DEF CInv

\* The typing that TLC checks follows from the inductive invariant.
LEMMA CInvTypes == CInv => CTypeOK
<1> SUFFICES ASSUME CInv
             PROVE  CTypeOK
  OBVIOUS
<1>1. \A t \in Threads : pc[t] = "register" => ~regPoisoned[PodOf[t]]
  BY CriticalAssumption DEF CInv, StoresLock, RegistryLock, Storing
<1> QED BY <1>1 DEF CInv, CTypeOK, CacheTypes, CallTypes, StoresLock, RegistryLock,
        SubscriberTypes, Storing, Connections, RedisTypes

THEOREM CInvariant == CSpec => []CInv
BY InitCInv, NextCInv, PTL DEF CSpec

\* Every variable of the pods keeps its type; each lock of a pod is held by whoever
\* of the pod has a next step that says so, and after_store never finds the
\* registry poisoned (ImcCritical, CTypeOK).
THEOREM CriticalTypes == CSpec => []CTypeOK
BY CInvariant, CInvTypes, PTL

\* What a call has stored is there to be read back, whatever the other pods
\* publish and the subscriber of the pod removes in the meantime (critical.rs,
\* after_store; api.rs, expect("value was just stored")).
THEOREM StoredIsReadBack == CSpec => []StoredWhilePublishing
<1>1. CInv => StoredWhilePublishing
  BY DEF CInv
<1> QED BY <1>1, CInvariant, PTL

-----------------------------------------------------------------------------
\* A call and a subscriber of a pod that wait for each other keep waiting: neither
\* has a step, and nobody else may use either lock.
LEMMA StuckStep ==
  ASSUME CInv, [CNext]_cvars, NEW p \in Pods, Stuck(p)
  PROVE  Stuck(p)' /\ index'[p] = index[p]
<1> USE DEF CInv
<1>1. PICK t \in Threads, s \in Subs :
             /\ writer[p] = t /\ pc[t] = "register"
             /\ registrar[p] = s /\ todo[s] # <<>>
  BY DEF Stuck
<1>2. /\ t # None /\ s # None /\ PodOf[t] = p /\ SubPod[s] = p /\ ~poisoned[p]
      /\ spc[s] = "handling"
  BY <1>1, CriticalAssumption DEF StoresLock, RegistryLock
<1>3. /\ \A u \in Threads : Storing(u) /\ PodOf[u] = p => u = t
      /\ \A r \in Subs : spc[r] = "handling" /\ SubPod[r] = p => r = s
  BY <1>1 DEF StoresLock, RegistryLock
<1>4. ASSUME writer'[p] = t, pc'[t] = pc[t], registrar'[p] = s, todo'[s] = todo[s],
             index'[p] = index[p]
      PROVE  Stuck(p)' /\ index'[p] = index[p]
  BY <1>1, <1>4 DEF Stuck
<1>5. ASSUME NEW u \in Threads, Calls(u)
      PROVE  Stuck(p)' /\ index'[p] = index[p]
  <2>1. UNCHANGED <<registrar, todo>>
    BY <1>5, CallerFrame DEF subVars
  <2>2. pc'[t] = pc[t]
    <3>1. u # t => pc'[t] = pc[t]
      BY <1>5 DEF Calls, Caller, ThroughKeyed, WritePanics, LookupHit, LookupMiss, Compute, StoreValue, Register,
         Publish, SkipPublish, ReadBack, ReadBackPanics, LockPanics, Return, Panic, Goto,
         CallTypes
    <3>2. u # t
      BY <1>1, <1>2, <1>5 DEF Calls, Caller, ThroughKeyed, WritePanics, LookupHit, LookupMiss, Compute, StoreValue,
         Register, Publish, SkipPublish, ReadBack, ReadBackPanics, LockPanics
    <3> QED BY <3>1, <3>2
  <2>3. writer'[p] = t /\ index'[p] = index[p]
    <3>1. CASE StoreValue(u)
      <4>1. /\ writer[PodOf[u]] = None /\ writer' = [writer EXCEPT ![PodOf[u]] = u]
            /\ index' = [index EXCEPT ![PodOf[u]][call[u].type][call[u].args] = call[u].id]
        BY <3>1 DEF StoreValue, CanWrite
      <4>2. PodOf[u] # p
        BY <1>1, <1>2, <4>1
      <4> QED BY <1>1, <4>1, <4>2 DEF StoresLock, CacheTypes
    <3>2. CASE ReadBack(u) \/ ReadBackPanics(u)
      <4>1. /\ pc[u] = "readback" /\ index' = index
            /\ writer' = [writer EXCEPT ![PodOf[u]] = None]
        BY <3>2 DEF ReadBack, ReadBackPanics, cacheVars
      <4>2. PodOf[u] # p
        BY <1>1, <1>3, <4>1 DEF Storing
      <4> QED BY <1>1, <4>1, <4>2 DEF StoresLock
    <3>3. CASE ~(StoreValue(u) \/ ReadBack(u) \/ ReadBackPanics(u))
      <4>1. UNCHANGED <<writer, index>>
        BY <1>5, <3>3 DEF Calls, Caller, ThroughKeyed, WritePanics, LookupHit, LookupMiss, Compute, Register,
           Publish, SkipPublish, LockPanics, lockVars, cacheVars
      <4> QED BY <1>1, <4>1
    <3> QED BY <3>1, <3>2, <3>3
  <2> QED BY <1>1, <1>4, <2>1, <2>2, <2>3
<1>6. ASSUME NEW r \in Subs, SpawnWorker(r) \/ Subscriber(r) \/ ReadTimeout(r) \/ ConnectionFails(r)
      PROVE  Stuck(p)' /\ index'[p] = index[p]
  <2>1. UNCHANGED <<writer, pc>>
    BY <1>6, SubscriberFrame DEF callVars
  <2>2. registrar'[p] = s /\ todo'[s] = todo[s] /\ index'[p] = index[p]
    <3>1. CASE RemoveNext(r)
      <4>1. /\ writer[SubPod[r]] = None /\ registrar' = registrar
            /\ index' = [index EXCEPT ![SubPod[r]][Head(todo[r])] =
                           Unbound(index[SubPod[r]][Head(todo[r])], msg[r].args)]
            /\ todo' = [todo EXCEPT ![r] = Tail(todo[r])]
        BY <3>1 DEF RemoveNext, CanWrite, lockVars
      <4>2. SubPod[r] # p /\ r # s
        BY <1>1, <1>2, <4>1
      <4> QED BY <1>1, <4>1, <4>2 DEF CacheTypes, SubscriberTypes
    <3>2. CASE FinishMessage(r) \/ RemovePanics(r)
      <4>1. /\ spc[r] = "handling" /\ registrar' = [registrar EXCEPT ![SubPod[r]] = None]
            /\ index' = index
            /\ \/ todo[r] = <<>> /\ todo' = todo
               \/ poisoned[SubPod[r]] /\ todo' = [todo EXCEPT ![r] = <<>>]
        BY <3>2 DEF FinishMessage, RemovePanics, cacheVars
      <4>2. SubPod[r] # p /\ r # s
        BY <1>1, <1>2, <1>3, <4>1
      <4> QED BY <1>1, <4>1, <4>2 DEF RegistryLock, SubscriberTypes
    <3>3. CASE TakeMessage(r)
      <4>1. /\ registrar[SubPod[r]] = None /\ registrar' = [registrar EXCEPT ![SubPod[r]] = r]
            /\ index' = index
            /\ todo' = [todo EXCEPT ![r] = registry[SubPod[r]][Head(inbox[r]).channel]]
        BY <3>3 DEF TakeMessage, cacheVars
      <4>2. SubPod[r] # p /\ r # s
        BY <1>1, <1>2, <4>1
      <4> QED BY <1>1, <4>1, <4>2 DEF RegistryLock, SubscriberTypes
    <3>4. CASE ~(RemoveNext(r) \/ FinishMessage(r) \/ RemovePanics(r) \/ TakeMessage(r))
      <4>1. UNCHANGED <<registrar, todo, index>>
        BY <1>6, <3>4 DEF Subscriber, SpawnWorker, StartSubscriber, StopSubscriber, Snapshot,
           Connect, AwaitMessage, ReadTimeout, ConnectionFails, RegistryPanics, lockVars,
           subVars, cacheVars
      <4> QED BY <1>1, <4>1
    <3> QED BY <3>1, <3>2, <3>3, <3>4
  <2> QED BY <1>1, <1>4, <2>1, <2>2
<1>7. ASSUME (\E q \in Pods : DropWorker(q)) \/ (\E i \in Ids : DbUpdate(i)) \/ TimePasses
               \/ UNCHANGED cvars
      PROVE  Stuck(p)' /\ index'[p] = index[p]
  BY <1>1, <1>4, <1>7, EnvironmentFrame DEF lockVars, subVars, callVars
<1>8. ASSUME NEW q \in Pods, Trims(q)
      PROVE  Stuck(p)' /\ index'[p] = index[p]
  <2>1. UNCHANGED <<lockVars, subVars, pc>>
    BY <1>8, TrimFrame DEF CallTypes
  <2>2. index'[p] = index[p]
    BY <1>1, <1>2, <1>8, TrimFacts
  <2> QED BY <1>1, <1>4, <2>1, <2>2 DEF lockVars, subVars
<1> QED BY <1>5, <1>6, <1>7, <1>8, NextCases

\* The deadlock of critical_deadlock is for good: once a store holds the stores
\* lock and needs the registry that an incoming message holds, no step of the
\* program releases either, and the caches of the pod stay as they are.
THEOREM StuckStaysStuck == CSpec => StuckForGood
<1>1. CInv /\ [CNext]_cvars => [\A p \in Pods : Stuck(p) => Stuck(p)' /\ index'[p] = index[p]]_cvars
  BY StuckStep
<1> QED BY <1>1, CInvariant, PTL DEF CSpec, StuckForGood

-----------------------------------------------------------------------------
\* Nobody is in a poisoned stores lock, so that no call of the pod is on its way to
\* the registry, and nobody gets in.
LEMMA PodDeadStep ==
  ASSUME CInv, [CNext]_cvars, NEW p \in Pods, poisoned[p]
  PROVE  /\ poisoned'[p] /\ index'[p] = index[p] /\ registry'[p] = registry[p]
         /\ \A T \in Types : Cached(data'[p][T]) = Cached(data[p][T])
<1> DEFINE Dead == /\ poisoned'[p] /\ index'[p] = index[p] /\ registry'[p] = registry[p]
                   /\ \A T \in Types : Cached(data'[p][T]) = Cached(data[p][T])
<1> USE DEF CInv
<1>1. \A u \in Threads : Storing(u) => PodOf[u] # p
  BY CriticalAssumption DEF StoresLock
<1>2. ASSUME poisoned'[p], index'[p] = index[p], registry'[p] = registry[p], data'[p] = data[p]
      PROVE  Dead
  BY <1>2
<1>3. ASSUME UNCHANGED <<cacheVars, poisoned, registry>>
      PROVE  Dead
  BY <1>2, <1>3 DEF cacheVars
<1>4. ASSUME NEW u \in Threads, StoreValue(u)
      PROVE  Dead
  <2>1. PodOf[u] \in Pods /\ PodOf[u] # p
    BY <1>4, CriticalAssumption DEF StoreValue
  <2>2. /\ UNCHANGED <<poisoned, registry>>
        /\ \E d : data' = [data EXCEPT ![PodOf[u]][call[u].type] = d]
        /\ index' = [index EXCEPT ![PodOf[u]][call[u].type][call[u].args] = call[u].id]
    BY <1>4 DEF StoreValue, podVars
  <2> QED BY <1>2, <2>1, <2>2 DEF CacheTypes
<1>5. ASSUME NEW u \in Threads, Register(u)
      PROVE  Dead
  <2>1. PodOf[u] # p
    BY <1>1, <1>5 DEF Register, Storing
  <2>2. /\ UNCHANGED <<cacheVars, poisoned>>
        /\ registry' = [registry EXCEPT ![PodOf[u]][ChannelOf[call[u].type]] =
                          Append(@, call[u].type)]
    BY <1>5 DEF Register, lockVars
  <2> QED BY <1>2, <2>1, <2>2 DEF RegistryLock, cacheVars
<1>6. ASSUME NEW u \in Threads,
             \/ (\E T \in Types, a \in Args : ThroughKeyed(u, T, a))
             \/ LookupHit(u) \/ LookupMiss(u) \/ Compute(u) \/ Publish(u) \/ SkipPublish(u)
             \/ ReadBack(u) \/ ReadBackPanics(u) \/ LockPanics(u) \/ WritePanics(u)
      PROVE  Dead
  <2>1. /\ UNCHANGED <<cacheVars, registry>>
        /\ poisoned' = poisoned \/ poisoned' = [poisoned EXCEPT ![PodOf[u]] = TRUE]
    BY <1>6 DEF ThroughKeyed, LookupHit, LookupMiss, Compute, Publish, SkipPublish, ReadBack,
       ReadBackPanics, LockPanics, WritePanics, lockVars, podVars
  <2> QED BY <1>2, <2>1 DEF StoresLock, cacheVars
<1>7. ASSUME NEW r \in Subs, SpawnWorker(r) \/ Subscriber(r) \/ ReadTimeout(r) \/ ConnectionFails(r)
      PROVE  Dead
  <2>1. UNCHANGED <<poisoned, registry>>
    BY <1>7, SubscriberFrame
  <2>2. CASE RemoveNext(r)
    <3>1. SubPod[r] # p
      BY <2>2 DEF RemoveNext
    <3>2. /\ data' = [data EXCEPT ![SubPod[r]][Head(todo[r])] =
                        WithoutUnreferenced(@, index[SubPod[r]][Head(todo[r])], msg[r].args)]
          /\ index' = [index EXCEPT ![SubPod[r]][Head(todo[r])] = Unbound(@, msg[r].args)]
      BY <2>2 DEF RemoveNext
    <3> QED BY <1>2, <2>1, <3>1, <3>2 DEF CacheTypes
  <2>3. CASE ~RemoveNext(r)
    <3>1. UNCHANGED cacheVars
      BY <1>7, <2>3 DEF Subscriber, SpawnWorker, StartSubscriber, StopSubscriber, Snapshot,
         Connect, AwaitMessage, ReadTimeout, ConnectionFails, TakeMessage, FinishMessage,
         RemovePanics, RegistryPanics
    <3> QED BY <1>3, <2>1, <3>1
  <2> QED BY <2>2, <2>3
<1>8. ASSUME TimePasses
      PROVE  Dead
  <2>1. /\ UNCHANGED <<index, poisoned, registry>>
        /\ \A T \in Types : data'[p][T] = Aged(data[p][T])
    BY <1>8 DEF TimePasses, lockVars, podVars
  <2>2. \A T \in Types : Cached(Aged(data[p][T])) = Cached(data[p][T])
    <3>1. \A T \in Types : data[p][T] \in DataMap
      BY DEF CacheTypes
    <3> QED BY <3>1, AgedFacts DEF Cached
  <2> QED BY <2>1, <2>2
<1>9. ASSUME (\E q \in Pods : DropWorker(q)) \/ (\E i \in Ids : DbUpdate(i)) \/ UNCHANGED cvars
      PROVE  Dead
  BY <1>3, <1>9 DEF DropWorker, DbUpdate, cvars, lockVars, podVars
<1>10. ASSUME NEW q \in Pods, Trims(q)
       PROVE  Dead
  <2>1. UNCHANGED <<poisoned, registry>>
    BY <1>10, TrimFrame DEF CallTypes, lockVars, podVars
  <2>2. data'[p] = data[p] /\ index'[p] = index[p]
    BY <1>10, TrimFacts
  <2> QED BY <1>2, <2>1, <2>2
<1> QED BY <1>4, <1>5, <1>6, <1>7, <1>8, <1>9, <1>10, NextCases DEF Calls, Caller

\* A poisoned pod serves, stores, removes and registers nothing any more.
THEOREM PoisonedPodIsDead == CSpec => PodDeadAfterPoison
<1>1. CInv /\ [CNext]_cvars => [\A p \in Pods : poisoned[p] =>
        /\ poisoned'[p] /\ index'[p] = index[p] /\ registry'[p] = registry[p]
        /\ \A T \in Types : Cached(data'[p][T]) = Cached(data[p][T])]_cvars
  BY PodDeadStep
<1> QED BY <1>1, CInvariant, PTL DEF CSpec, PodDeadAfterPoison

-----------------------------------------------------------------------------
\* A store or a removal leaves every other cache as it was.
LEMMA OtherCaches ==
  ASSUME CInv, NEW q \in Pods, NEW U \in Types
  PROVE  /\ \A t \in Threads : StoreValue(t) /\ (q # PodOf[t] \/ U # call[t].type) =>
                                data'[q][U] = data[q][U]
         /\ \A s \in Subs : RemoveNext(s) /\ (q # SubPod[s] \/ U # Head(todo[s])) =>
                             data'[q][U] = data[q][U]
<1>1. ASSUME NEW t \in Threads, StoreValue(t), q # PodOf[t] \/ U # call[t].type
      PROVE  data'[q][U] = data[q][U]
  <2> DEFINE p == PodOf[t]
             T == call[t].type
  <2>1. \A r \in Pods, V \in Types : r # p \/ V # T =>
          data'[r][V] = data[r][V] /\ index'[r][V] = index[r][V]
    BY <1>1, StoreFacts
  <2> QED BY <1>1, <2>1
<1>2. ASSUME NEW s \in Subs, RemoveNext(s), q # SubPod[s] \/ U # Head(todo[s])
      PROVE  data'[q][U] = data[q][U]
  <2> DEFINE p == SubPod[s]
             T == Head(todo[s])
  <2>1. \A r \in Pods, V \in Types : r # p \/ V # T =>
          data'[r][V] = data[r][V] /\ index'[r][V] = index[r][V]
    BY <1>2, RemoveNextFacts
  <2> QED BY <1>2, <2>1
<1> QED BY <1>1, <1>2

\* The caches of a pod change by the pod's own stores, removals and sweeps, one at a
\* time and while nobody is in its lock; time only makes entries older.
LEMMA EntryStep ==
  ASSUME CInv, [CNext]_cvars, NEW p \in Pods, NEW T \in Types, NEW i \in Ids, data[p][T][i] # None
  PROVE  /\ poisoned[p] /\ Expired(data[p][T][i]) =>
               data'[p][T][i] # None /\ Expired(data'[p][T][i])
         /\ data'[p][T][i] # None /\ data'[p][T][i].ver # data[p][T][i].ver =>
               Expired(data[p][T][i])
<1> DEFINE d == data[p][T]
           Stays == /\ poisoned[p] /\ Expired(d[i]) =>
                         data'[p][T][i] # None /\ Expired(data'[p][T][i])
                    /\ data'[p][T][i] # None /\ data'[p][T][i].ver # d[i].ver => Expired(d[i])
<1> SUFFICES Stays
  OBVIOUS
<1>1. d \in DataMap
  BY DEF CInv, CacheTypes
<1>2. data'[p][T] = d => Stays
  OBVIOUS
<1>3. ASSUME NEW t \in Threads, StoreValue(t), PodOf[t] = p, call[t].type = T
      PROVE  Stays
  <2>1. ~poisoned[p] /\ call[t].id \in Ids
    BY <1>3, StoreFacts
  <2>2. call[t].ver \in Nat
    BY DEF CInv, CallTypes, Locals
  <2>3. PICK e \in SetOutcomes(d, call[t].id, call[t].ver, 0, "Fifo", ~workerTx[p]) :
               data' = [data EXCEPT ![p][T] = e]
    BY <1>3 DEF StoreValue
  <2>4. data'[p][T] = e
    BY <2>3 DEF CInv, CacheTypes
  <2>5. /\ \A j \in Ids : j # call[t].id => e[j] = d[j] \/ e[j] = None
        /\ ~SetInserts(d, call[t].id) => e = d
        /\ SetInserts(d, call[t].id) => d[call[t].id] = None \/ Expired(d[call[t].id])
    BY <1>1, <2>1, <2>2, <2>3, SetFacts
  <2> HIDE DEF d
  <2> QED BY <2>1, <2>4, <2>5 DEF d
<1>4. ASSUME NEW s \in Subs, RemoveNext(s), SubPod[s] = p, Head(todo[s]) = T
      PROVE  Stays
  <2>1. ~poisoned[p] /\ data' = [data EXCEPT ![p][T] = WithoutUnreferenced(d, index[p][T], msg[s].args)]
    BY <1>4 DEF RemoveNext
  <2>2. data'[p][T] = WithoutUnreferenced(d, index[p][T], msg[s].args)
    BY <2>1 DEF CInv, CacheTypes
  <2>3. data'[p][T][i] = d[i] \/ data'[p][T][i] = None
    BY <1>1, <2>2 DEF WithoutUnreferenced, RemoveData, DataMap
  <2> QED BY <2>1, <2>3
<1>5. ASSUME TimePasses
      PROVE  Stays
  <2>1. data'[p][T] = Aged(d)
    BY <1>5 DEF TimePasses
  <2> QED BY <1>1, <2>1, AgedFacts
<1>6. ASSUME NEW t \in Threads, StoreValue(t), PodOf[t] # p \/ call[t].type # T
      PROVE  Stays
  <2>1. data'[p][T] = d
    BY <1>6, OtherCaches
  <2> HIDE DEF Stays
  <2> QED BY <1>2, <2>1
<1>7. ASSUME NEW s \in Subs, RemoveNext(s), SubPod[s] # p \/ Head(todo[s]) # T
      PROVE  Stays
  <2>1. data'[p][T] = d
    BY <1>7, OtherCaches
  <2> HIDE DEF Stays
  <2> QED BY <1>2, <2>1
<1>8. ASSUME ~ \E t \in Threads : StoreValue(t), ~ \E s \in Subs : RemoveNext(s),
             ~ \E q \in Pods : Trims(q), ~TimePasses
      PROVE  Stays
  <2>1. data'[p][T] = d
    BY <1>8, CachesUntouched DEF cacheVars
  <2> HIDE DEF Stays
  <2> QED BY <1>2, <2>1
<1>9. (\E t \in Threads : StoreValue(t)) \/ (\E s \in Subs : RemoveNext(s)) => Stays
  BY <1>3, <1>4, <1>6, <1>7
<1>10. ASSUME NEW q \in Pods, Trims(q)
       PROVE  Stays
  <2>1. CASE q = p
    <3>1. ~poisoned[p] /\ data'[p][T][i] \in {data[p][T][i], None}
      BY <1>10, <2>1, TrimFacts
    <3> QED BY <3>1
  <2>2. CASE q # p
    <3>1. data'[p][T] = d
      BY <1>10, <2>2, TrimFacts
    <3> HIDE DEF Stays
    <3> QED BY <1>2, <3>1
  <2> QED BY <2>1, <2>2
<1> HIDE DEF Stays
<1> QED BY <1>5, <1>8, <1>9, <1>10

\* A call that reads back finds what it stored, unless that has expired.
LEMMA PodPoisonStep == CInv /\ PodPoisonOnlyByExpiry /\ [CNext]_cvars => PodPoisonOnlyByExpiry'
<1> SUFFICES ASSUME CInv, PodPoisonOnlyByExpiry, [CNext]_cvars, NEW p \in Pods, poisoned'[p]
             PROVE  \E T \in Types, i \in Ids : data'[p][T][i] # None /\ Expired(data'[p][T][i])
  BY DEF PodPoisonOnlyByExpiry
<1>1. CASE poisoned[p]
  BY <1>1, EntryStep DEF PodPoisonOnlyByExpiry
<1>2. CASE ~poisoned[p]
  <2>1. PICK t \in Threads : ReadBackPanics(t) /\ PodOf[t] = p
    <3>1. ASSUME NEW t \in Threads,
                 Calls(t), ~ReadBackPanics(t)
          PROVE  poisoned' = poisoned
      BY <3>1 DEF Calls, Caller, ThroughKeyed, WritePanics, LookupHit, LookupMiss, Compute, StoreValue, Register,
         Publish, SkipPublish, ReadBack, LockPanics, lockVars
    <3>2. ASSUME NEW t \in Threads, ReadBackPanics(t), PodOf[t] # p
          PROVE  poisoned'[p] = poisoned[p]
      BY <3>2 DEF ReadBackPanics, CInv, StoresLock
    <3>3. ASSUME NEW s \in Subs,
                 SpawnWorker(s) \/ Subscriber(s) \/ ReadTimeout(s) \/ ConnectionFails(s)
          PROVE  poisoned' = poisoned
      BY <3>3, SubscriberFrame
    <3>4. (\E q \in Pods : DropWorker(q)) \/ (\E i \in Ids : DbUpdate(i)) \/ TimePasses
            \/ UNCHANGED cvars => poisoned' = poisoned
      BY EnvironmentFrame DEF lockVars
    <3>5. ASSUME NEW q \in Pods, Trims(q)
          PROVE  poisoned' = poisoned
      BY <3>5, TrimFrame DEF CInv, CallTypes, lockVars
    <3> QED BY <1>2, <3>1, <3>2, <3>3, <3>4, <3>5, NextCases
  <2>2. /\ pc[t] = "readback" /\ ~Found(t) /\ data' = data
    BY <2>1 DEF ReadBackPanics, cacheVars
  <2>3. /\ call[t].type \in Types /\ call[t].id \in Ids
        /\ index[p][call[t].type][call[t].args] = call[t].id
        /\ data[p][call[t].type][call[t].id] # None
    BY <2>1, <2>2 DEF CInv, CallLocals, Storing, StoredWhilePublishing
  <2>4. Expired(data[p][call[t].type][call[t].id])
    BY <2>1, <2>2, <2>3, CriticalAssumption, CacheAssumption DEF Found, Hit
  <2> QED BY <2>2, <2>3, <2>4
<1> QED BY <1>1, <1>2

\* api.rs, expect("value was just stored"), for a critical type: whatever the other
\* pods publish in the meantime, only expiry poisons the caches of a pod ...
THEOREM OnlyExpiryPoisonsPods == CSpec => []PodPoisonOnlyByExpiry
<1>1. CInit => PodPoisonOnlyByExpiry
  BY DEF CInit, PodPoisonOnlyByExpiry
<1> QED BY <1>1, PodPoisonStep, CInvariant, PTL DEF CSpec

\* ... and none is ever poisoned if critical types have no time-to-live.
THEOREM NoTtlNoPodPoison ==
  ASSUME Ttl = None
  PROVE  CSpec => [](\A p \in Pods : ~poisoned[p])
<1>1. PodPoisonOnlyByExpiry => \A p \in Pods : ~poisoned[p]
  BY DEF PodPoisonOnlyByExpiry, Expired
<1> QED BY <1>1, OnlyExpiryPoisonsPods, PTL

\* A copy a pod was told to drop is dropped before another is stored: one takes the
\* place of another at once only if that has expired.
PodCopyKept ==
  [][\A p \in Pods, T \in Types, i \in Ids :
       (data[p][T][i] # None /\ data'[p][T][i] # None
          /\ data'[p][T][i].ver # data[p][T][i].ver)
         => Expired(data[p][T][i])]_cvars

\* set(), deduplication: in each pod and for each critical type the copy stored first
\* stays canonical while other pods publish and subscribers remove.
THEOREM PodCopies == CSpec => PodCopyKept
<1>1. CInv /\ [CNext]_cvars =>
        [\A p \in Pods, T \in Types, i \in Ids :
           (data[p][T][i] # None /\ data'[p][T][i] # None
              /\ data'[p][T][i].ver # data[p][T][i].ver)
             => Expired(data[p][T][i])]_cvars
  BY EntryStep
<1> QED BY <1>1, CInvariant, PTL DEF CSpec, PodCopyKept

-----------------------------------------------------------------------------
(* The broadcast, with history variables *)

\* Recording the past takes nothing away from what the pods do, and adds nothing.
LEMMA HistoryStep == [CHNext]_hvars => [CNext]_cvars
<1>1. ASSUME NEW t \in Threads, Begin(t) \/ Announced(t) \/ NotAnnounced(t)
      PROVE  CNext
  BY <1>1 DEF Begin, Announced, NotAnnounced, CNext, Caller
<1>2. ASSUME NEW s \in Subs, Dropped(s) \/ Removed(s)
      PROVE  CNext
  BY <1>2 DEF Dropped, Removed, CNext, Subscriber
<1>3. Unrecorded => CNext
  BY DEF Unrecorded, CNext, Caller, Subscriber
<1>4. ASSUME NEW p \in Pods, Forgotten(p)
      PROVE  CNext
  BY <1>4 DEF Forgotten, SubsOf, CNext
<1> QED BY <1>1, <1>2, <1>3, <1>4 DEF CHNext, hvars

\* ImcCritical with its history implements ImcCritical, so that everything shown
\* of the one holds of the other.
THEOREM HistoryAddsNothing == CHSpec => CSpec
BY HistoryStep, PTL DEF CHSpec, CSpec, CHInit

-----------------------------------------------------------------------------
HeldFor(t, p, T, a) ==
  writer[p] = t /\ pc[t] \in {"register", "publish"} /\ call[t].type = T /\ call[t].args = a

\* A pod that has bound a key has registered the type, or its store is about to.
BoundRegistered ==
  \A p \in Pods, T \in Types, a \in Args :
    index[p][T][a] # None =>
      \/ T \in ToSet(registry[p][ChannelOf[T]])
      \/ \E t \in Threads : HeldFor(t, p, T, a) /\ pc[t] = "register"

\* Why a pod may still have a key bound.
Excused(p, T, a) ==
  \/ a \in lost[p][T]
  \/ \E s \in SubsOf(p) : Pending(s, T, a)
  \/ \E t \in Threads : HeldFor(t, p, T, a)

HInv ==
  /\ CInv /\ BoundRegistered
  /\ lost \in [Pods -> [Types -> SUBSET Args]]
  /\ \A p \in Pods, T \in Types, a \in Args : index[p][T][a] # None => Excused(p, T, a)

-----------------------------------------------------------------------------
\* Between its store and its announcement a call only moves on to the next step.
LEMMA HolderKept ==
  ASSUME CInv, [CNext]_cvars, NEW t \in Threads, pc[t] \in {"register", "publish"}
  PROVE  /\ call'[t] = call[t] /\ writer'[PodOf[t]] = t
         /\ \/ pc'[t] = pc[t]
            \/ Register(t) /\ pc'[t] = "publish"
            \/ Publish(t) \/ SkipPublish(t)
<1> USE DEF CInv, CallTypes
<1>1. /\ call'[t] = call[t] /\ Storing(t)'
      /\ \/ pc'[t] = pc[t]
         \/ Register(t) /\ pc'[t] = "publish"
         \/ Publish(t) \/ SkipPublish(t)
  <2> USE DEF Storing
  <2>1. ASSUME NEW u \in Threads, Calls(u)
        PROVE  /\ call'[t] = call[t] /\ Storing(t)'
               /\ \/ pc'[t] = pc[t]
                  \/ Register(t) /\ pc'[t] = "publish"
                  \/ Publish(t) \/ SkipPublish(t)
    <3>1. u # t => pc'[t] = pc[t] /\ call'[t] = call[t]
      BY <2>1 DEF Calls, Caller, ThroughKeyed, WritePanics, LookupHit, LookupMiss, Compute, StoreValue, Register,
         Publish, SkipPublish, ReadBack, ReadBackPanics, LockPanics, Return, Panic, Goto, callVars
    <3>2. u = t => Register(t) \/ Publish(t) \/ SkipPublish(t)
      BY <2>1 DEF Calls, Caller, ThroughKeyed, WritePanics, LookupHit, LookupMiss, Compute, StoreValue,
         ReadBack, ReadBackPanics, LockPanics
    <3>3. /\ Register(t) => call' = call /\ pc'[t] = "publish"
          /\ Publish(t) \/ SkipPublish(t) => call' = call /\ pc'[t] = "readback"
      BY DEF Register, Publish, SkipPublish, Goto
    <3> QED BY <3>1, <3>2, <3>3
  <2>2. ASSUME NEW s \in Subs, SpawnWorker(s) \/ Subscriber(s) \/ ReadTimeout(s) \/ ConnectionFails(s)
        PROVE  UNCHANGED callVars
    BY <2>2, SubscriberFrame
  <2>3. (\E p \in Pods : DropWorker(p)) \/ (\E i \in Ids : DbUpdate(i)) \/ TimePasses
          \/ UNCHANGED cvars => UNCHANGED callVars
    BY EnvironmentFrame
  <2>4. UNCHANGED callVars => UNCHANGED <<pc, call>>
    BY DEF callVars
  <2>5. UNCHANGED <<pc, call>> =>
          /\ call'[t] = call[t] /\ Storing(t)'
          /\ \/ pc'[t] = pc[t]
             \/ Register(t) /\ pc'[t] = "publish"
             \/ Publish(t) \/ SkipPublish(t)
    OBVIOUS
  <2>6. ASSUME NEW p \in Pods, Trims(p)
        PROVE  UNCHANGED <<pc, call>>
    BY <2>6, TrimFrame
  <2> QED BY <2>1, <2>2, <2>3, <2>4, <2>5, <2>6, NextCases
<1>2. writer'[PodOf[t]] = t
  BY <1>1, StoresLockStep DEF StoresLock
<1> QED BY <1>1, <1>2

\* Only a store binds a key, and its call then holds the lock and has to register.
LEMMA BoundBy ==
  ASSUME CInv, [CNext]_cvars, NEW p \in Pods, NEW T \in Types, NEW a \in Args,
         index'[p][T][a] # None
  PROVE  \/ index[p][T][a] # None
         \/ \E t \in Threads : HeldFor(t, p, T, a)' /\ pc'[t] = "register"
<1>1. ASSUME NEW t \in Threads, StoreValue(t)
      PROVE  \/ index[p][T][a] # None
             \/ \E u \in Threads : HeldFor(u, p, T, a)' /\ pc'[u] = "register"
  <2> DEFINE q == PodOf[t]
             U == call[t].type
             b == call[t].args
  <2>1. /\ q \in Pods /\ U \in Types /\ b \in Args
        /\ writer' = [writer EXCEPT ![q] = t] /\ pc' = [pc EXCEPT ![t] = "register"]
        /\ call' = call
        /\ index'[q][U] = [index[q][U] EXCEPT ![b] = call[t].id]
        /\ \A r \in Pods, V \in Types : r # q \/ V # U => index'[r][V] = index[r][V]
    BY <1>1, StoreFacts
  <2>2. index[q][U] \in IndexMap
    BY <2>1 DEF CInv, CacheTypes
  <2>3. writer'[q] = t /\ pc'[t] = "register"
    BY <2>1 DEF CInv, StoresLock, CallTypes
  <2>4. CASE p = q /\ T = U /\ a = b
    BY <2>1, <2>3, <2>4 DEF HeldFor
  <2> HIDE DEF q, U, b
  <2>5. CASE ~(p = q /\ T = U /\ a = b)
    BY <2>1, <2>2, <2>5 DEF IndexMap
  <2> QED BY <2>4, <2>5
<1>2. ASSUME NEW s \in Subs, RemoveNext(s)
      PROVE  index[p][T][a] # None
  <2> DEFINE q == SubPod[s]
             U == Head(todo[s])
             b == msg[s].args
  <2>1. /\ q \in Pods /\ U \in Types /\ b \in Args
        /\ index'[q][U] = Unbound(index[q][U], b)
        /\ \A r \in Pods, V \in Types : r # q \/ V # U => index'[r][V] = index[r][V]
    BY <1>2, RemoveNextFacts
  <2> HIDE DEF q, U, b
  <2>2. index[q][U] \in IndexMap
    BY <2>1 DEF CInv, CacheTypes
  <2>3. Unbound(index[q][U], b)[b] = None /\ \A d \in Args : d # b => Unbound(index[q][U], b)[d] = index[q][U][d]
    BY <2>1, <2>2 DEF Unbound, IndexMap
  <2> QED BY <2>1, <2>3
<1>3. CASE ~ \E t \in Threads : StoreValue(t)
  <2>1. (\A s \in Subs : ~RemoveNext(s)) /\ (\A q \in Pods : ~Trims(q)) => index' = index
    BY <1>3, CacheKept
  <2>2. ASSUME NEW q \in Pods, Trims(q)
        PROVE  index'[p][T][a] \in {index[p][T][a], None}
    BY <2>2, TrimFacts
  <2> QED BY <1>2, <2>1, <2>2
<1> QED BY <1>1, <1>3

LEMMA BoundStep ==
  ASSUME CInv, BoundRegistered, [CNext]_cvars
  PROVE  BoundRegistered'
<1>1. ASSUME NEW p \in Pods, NEW T \in Types, T \in ToSet(registry[p][ChannelOf[T]])
      PROVE  T \in ToSet(registry'[p][ChannelOf[T]])
  <2>0. ChannelOf[T] \in Channels
    BY CriticalAssumption
  <2>1. ASSUME NEW t \in Threads, Register(t)
        PROVE  T \in ToSet(registry'[p][ChannelOf[T]])
    <3> DEFINE q == PodOf[t]
               c == ChannelOf[call[t].type]
    <3>1. /\ ToSet(registry'[q][c]) = ToSet(registry[q][c]) \cup {call[t].type}
          /\ \A r \in Pods, d \in Channels : r # q \/ d # c => registry'[r][d] = registry[r][d]
      BY <2>1, RegisterFacts
    <3> HIDE DEF q, c
    <3> QED BY <1>1, <2>0, <3>1
  <2>2. ASSUME NEW t \in Threads, ~Register(t),
               Calls(t)
        PROVE  registry' = registry
    BY <2>2 DEF Calls, Caller, ThroughKeyed, WritePanics, LookupHit, LookupMiss, Compute, StoreValue,
       Publish, SkipPublish, ReadBack, ReadBackPanics, LockPanics, podVars
  <2>3. ASSUME NEW s \in Subs, SpawnWorker(s) \/ Subscriber(s) \/ ReadTimeout(s) \/ ConnectionFails(s)
        PROVE  registry' = registry
    BY <2>3, SubscriberFrame
  <2>4. (\E q \in Pods : DropWorker(q)) \/ (\E i \in Ids : DbUpdate(i)) \/ TimePasses
          \/ UNCHANGED cvars => registry' = registry
    BY EnvironmentFrame
  <2>5. ASSUME NEW q \in Pods, Trims(q)
        PROVE  registry' = registry
    BY <2>5, TrimFrame DEF CInv, CallTypes, podVars
  <2> QED BY <1>1, <2>1, <2>2, <2>3, <2>4, <2>5, NextCases
<1>2. ASSUME NEW p \in Pods, NEW T \in Types, NEW a \in Args, NEW t \in Threads,
             HeldFor(t, p, T, a), pc[t] = "register"
      PROVE  \/ T \in ToSet(registry'[p][ChannelOf[T]])
             \/ HeldFor(t, p, T, a)' /\ pc'[t] = "register"
  <2>1. PodOf[t] = p
    <3>1. writer[p] = t /\ t # None
      BY <1>2, CriticalAssumption DEF HeldFor
    <3> QED BY <3>1 DEF CInv, StoresLock
  <2>2. call'[t] = call[t] /\ writer'[p] = t /\ (pc'[t] = pc[t] \/ Register(t))
    BY <1>2, <2>1, HolderKept DEF Publish, SkipPublish
  <2>3. Register(t) => T \in ToSet(registry'[p][ChannelOf[T]])
    BY <1>2, <2>1, RegisterFacts DEF HeldFor
  <2> QED BY <1>2, <2>2, <2>3 DEF HeldFor
<1>3. ASSUME NEW p \in Pods, NEW T \in Types, NEW a \in Args, index'[p][T][a] # None
      PROVE  \/ T \in ToSet(registry'[p][ChannelOf[T]])
             \/ \E t \in Threads : HeldFor(t, p, T, a)' /\ pc'[t] = "register"
  <2>1. CASE index[p][T][a] # None
    BY <1>1, <1>2, <2>1 DEF BoundRegistered
  <2>2. CASE index[p][T][a] = None
    BY <1>3, <2>2, BoundBy
  <2> QED BY <2>1, <2>2
<1> QED BY <1>3 DEF BoundRegistered

-----------------------------------------------------------------------------
\* A subscriber's step leaves the messages of all others alone ...
LEMMA OthersKept ==
  ASSUME CInv, NEW r \in Subs, NEW s \in Subs, r # s,
         SpawnWorker(r) \/ Subscriber(r) \/ ReadTimeout(r) \/ ConnectionFails(r)
  PROVE  spc'[s] = spc[s] /\ msg'[s] = msg[s] /\ todo'[s] = todo[s] /\ Unread(s)' = Unread(s)
<1> USE DEF CInv, SubscriberTypes
<1>1. spc'[s] = spc[s]
  BY DEF Subscriber, SpawnWorker, StartSubscriber, StopSubscriber, Snapshot, Connect,
     AwaitMessage, ReadTimeout, ConnectionFails, TakeMessage, RemoveNext, FinishMessage,
     RemovePanics, RegistryPanics, SubGoto
<1>2. msg'[s] = msg[s] /\ todo'[s] = todo[s]
  BY DEF Subscriber, SpawnWorker, StartSubscriber, StopSubscriber, Snapshot, Connect,
     AwaitMessage, ReadTimeout, ConnectionFails, TakeMessage, RemoveNext, FinishMessage,
     RemovePanics, RegistryPanics, subVars
<1>3. \/ \E cs \in SUBSET Channels : Subscribe(r, cs)
      \/ Disconnect(r) \/ Read(r) \/ UNCHANGED redisVars
  BY DEF Subscriber, SpawnWorker, StartSubscriber, StopSubscriber, Snapshot, Connect,
     AwaitMessage, ReadTimeout, ConnectionFails, TakeMessage, RemoveNext, FinishMessage,
     RemovePanics, RegistryPanics
<1>4. Disconnect(r) => Unread(s)' = Unread(s)
  BY ConnectionFacts
<1>5. \A cs \in SUBSET Channels : Subscribe(r, cs) => Unread(s)' = Unread(s)
  BY ConnectionFacts
<1>6. Read(r) => Unread(s)' = Unread(s)
  BY ReadFacts
<1>7. UNCHANGED redisVars => Unread(s)' = Unread(s)
  BY DEF redisVars, Unread
<1> QED BY <1>1, <1>2, <1>3, <1>4, <1>5, <1>6, <1>7

\* ... and its own loses a message only with the connection, or as carried out.
\* One that is read finds the type of any bound key among those to do, unless the
\* store of it has still to register, and then to publish again.
LEMMA PendingStep ==
  ASSUME CInv, BoundRegistered, [CNext]_cvars,
         NEW s \in Subs, NEW T \in Types, NEW a \in Args,
         Pending(s, T, a), index[SubPod[s]][T][a] # None,
         ~(StopSubscriber(s) \/ ConnectionFails(s) \/ RemovePanics(s) \/ RegistryPanics(s)),
         ~(RemoveNext(s) /\ T = Head(todo[s]) /\ a = msg[s].args)
  PROVE  Pending(s, T, a)' \/ \E t \in Threads : HeldFor(t, SubPod[s], T, a)'
<1> USE DEF CInv, SubscriberTypes
<1>1. ASSUME UNCHANGED <<spc, msg, todo>>, Unread(s) \subseteq Unread(s)'
      PROVE  Pending(s, T, a)'
  BY <1>1 DEF Pending, InHand
<1>2. ASSUME NEW t \in Threads, Calls(t)
      PROVE  Pending(s, T, a)'
  <2>1. UNCHANGED <<spc, msg, todo>>
    BY <1>2, CallerFrame DEF subVars
  <2>2. CASE Publish(t)
    <3> DEFINE c == ChannelOf[call[t].type]
               m == [channel |-> c, args |-> call[t].args]
    <3>1. pc[t] = "publish" /\ Deliver(c, m)
      BY <2>2 DEF Publish
    <3>2. c \in Channels /\ m \in Messages
      <4>1. call[t].type \in Types /\ call[t].args \in Args
        BY <3>1 DEF CallLocals
      <4> QED BY <4>1, CriticalAssumption DEF Messages
    <3>3. Unread(s) \subseteq Unread(s)'
      <4>1. Connections(Messages) /\ Deliver(c, m)
        BY <3>1
      <4> HIDE DEF c, m, CInv, SubscriberTypes
      <4> QED BY <3>2, <4>1, DeliverFacts
    <3> QED BY <1>1, <2>1, <3>3
  <2>3. CASE ~Publish(t)
    <3>1. UNCHANGED redisVars
      BY <1>2, <2>3 DEF Calls, Caller, ThroughKeyed, WritePanics, LookupHit, LookupMiss, Compute, StoreValue,
         Register, SkipPublish, ReadBack, ReadBackPanics, LockPanics
    <3> QED BY <1>1, <2>1, <3>1 DEF redisVars, Unread
  <2> QED BY <2>2, <2>3
<1>3. ASSUME NEW r \in Subs, r # s,
             SpawnWorker(r) \/ Subscriber(r) \/ ReadTimeout(r) \/ ConnectionFails(r)
      PROVE  Pending(s, T, a)'
  BY <1>3, OthersKept DEF Pending, InHand
<1>4. ASSUME SpawnWorker(s) \/ StartSubscriber(s) \/ Snapshot(s) \/ AwaitMessage(s) \/ ReadTimeout(s)
      PROVE  Pending(s, T, a)'
  <2>1. spc[s] # "handling" /\ UNCHANGED redisVars
    BY <1>4 DEF SpawnWorker, StartSubscriber, Snapshot, AwaitMessage, ReadTimeout
  <2> QED BY <2>1 DEF Pending, InHand, redisVars, Unread
<1>5. ~Connect(s)
  <2> SUFFICES ASSUME Connect(s)
               PROVE  FALSE
    OBVIOUS
  <2>1. spc[s] = "connect"
    BY DEF Connect
  <2>2. inbox[s] = <<>> /\ inbox[s] \in Seq(Messages)
    BY <2>1 DEF Connections, RedisTypes, OnlySubscribedRead
  <2>3. Unread(s) = {}
    BY <2>2, ToSetFacts DEF Unread
  <2> QED BY <2>1, <2>3 DEF Pending, InHand
<1>6. ASSUME FinishMessage(s)
      PROVE  Pending(s, T, a)'
  <2>1. todo[s] = <<>> /\ UNCHANGED redisVars
    BY <1>6 DEF FinishMessage
  <2>2. ToSet(todo[s]) = {}
    BY <2>1, ToSetFacts
  <2> QED BY <2>1, <2>2 DEF Pending, InHand, redisVars, Unread
<1>7. ASSUME RemoveNext(s)
      PROVE  Pending(s, T, a)'
  <2>1. /\ todo[s] # <<>> /\ UNCHANGED <<spc, msg, redisVars>>
        /\ todo' = [todo EXCEPT ![s] = Tail(todo[s])]
    BY <1>7 DEF RemoveNext
  <2>2. ToSet(todo[s]) = ToSet(todo'[s]) \cup {Head(todo[s])}
    BY <2>1, ToSetFacts
  <2>3. Unread(s)' = Unread(s)
    BY <2>1 DEF redisVars, Unread
  <2> QED BY <1>7, <2>1, <2>2, <2>3 DEF Pending, InHand
<1>8. ASSUME TakeMessage(s)
      PROVE  Pending(s, T, a)' \/ \E t \in Threads : HeldFor(t, SubPod[s], T, a)'
  <2> DEFINE p == SubPod[s]
             m == [channel |-> ChannelOf[T], args |-> a]
  <2>1. /\ spc[s] = "reading" /\ Read(s) /\ UNCHANGED <<registry, writer, callVars>>
        /\ spc' = [spc EXCEPT ![s] = "handling"]
        /\ msg' = [msg EXCEPT ![s] = Head(inbox[s])]
        /\ todo' = [todo EXCEPT ![s] = registry[p][Head(inbox[s]).channel]]
    BY <1>8 DEF TakeMessage, SubGoto, podVars
  <2>2. Unread(s) = Unread(s)' \cup {Head(inbox[s])}
    BY <2>1, ReadFacts
  <2>3. m \in Unread(s)
    BY <2>1 DEF Pending, InHand
  <2>4. CASE m \in Unread(s)'
    BY <2>4 DEF Pending
  <2>5. CASE m = Head(inbox[s])
    <3>1. msg'[s].args = a /\ todo'[s] = registry[p][ChannelOf[T]] /\ spc'[s] = "handling"
      BY <2>1, <2>5
    <3>2. CASE T \in ToSet(registry[p][ChannelOf[T]])
      BY <3>1, <3>2 DEF Pending, InHand
    <3>3. CASE T \notin ToSet(registry[p][ChannelOf[T]])
      <4>1. p \in Pods
        BY CriticalAssumption
      <4>2. PICK t \in Threads : HeldFor(t, p, T, a)
        BY <3>3, <4>1 DEF BoundRegistered
      <4>3. HeldFor(t, p, T, a)'
        BY <2>1, <4>2 DEF HeldFor, callVars
      <4> QED BY <4>3
    <3> QED BY <3>2, <3>3
  <2> QED BY <2>2, <2>3, <2>4, <2>5
<1>9. ASSUME (\E p \in Pods : DropWorker(p)) \/ (\E i \in Ids : DbUpdate(i)) \/ TimePasses
               \/ UNCHANGED cvars
      PROVE  Pending(s, T, a)'
  BY <1>1, <1>9, EnvironmentFrame DEF subVars, redisVars, Unread
<1>10. ASSUME NEW q \in Pods, Trims(q)
       PROVE  Pending(s, T, a)'
  BY <1>1, <1>10, TrimFrame DEF CallTypes, subVars, redisVars, Unread
<1> QED BY <1>2, <1>3, <1>4, <1>5, <1>6, <1>7, <1>8, <1>9, <1>10, NextCases DEF Subscriber

-----------------------------------------------------------------------------
\* A missed announcement is made good only by the removal of the key.
LEMMA LostStep ==
  ASSUME HInv, [CHNext]_hvars
  PROVE  /\ lost' \in [Pods -> [Types -> SUBSET Args]]
         /\ \A p \in Pods, T \in Types, a \in Args :
              a \in lost[p][T] /\ index'[p][T][a] # None => a \in lost'[p][T]
<1> DEFINE Goal == /\ lost' \in [Pods -> [Types -> SUBSET Args]]
                   /\ \A p \in Pods, T \in Types, a \in Args :
                        a \in lost[p][T] /\ index'[p][T][a] # None => a \in lost'[p][T]
<1>0. lost \in [Pods -> [Types -> SUBSET Args]] /\ CInv
  BY DEF HInv
<1>1. lost' = lost => Goal
  BY <1>0
<1>2. ASSUME NEW t \in Threads, Announced(t) \/ NotAnnounced(t)
      PROVE  Goal
  <2> DEFINE U == call[t].type
             b == call[t].args
             q == PodOf[t]
  <2>1. /\ pc[t] = "publish"
        /\ \/ lost' = [p \in Pods |-> IF SubsOf(p) \cap Listeners(ChannelOf[U]) = {}
                         THEN [lost[p] EXCEPT ![U] = lost[p][U] \cup {b}] ELSE lost[p]]
           \/ lost' = [lost EXCEPT ![q][U] = lost[q][U] \cup {b}]
    BY <1>2 DEF Announced, NotAnnounced, Publish, SkipPublish
  <2>2. U \in Types /\ b \in Args /\ q \in Pods
    BY <1>0, <2>1, CriticalAssumption DEF CInv, CallLocals
  <2> HIDE DEF U, b, q
  <2>3. CASE lost' = [lost EXCEPT ![q][U] = lost[q][U] \cup {b}]
    BY <1>0, <2>2, <2>3
  <2>4. CASE lost' = [p \in Pods |-> IF SubsOf(p) \cap Listeners(ChannelOf[U]) = {}
                        THEN [lost[p] EXCEPT ![U] = lost[p][U] \cup {b}] ELSE lost[p]]
    <3>1. \A p \in Pods : [lost[p] EXCEPT ![U] = lost[p][U] \cup {b}] \in [Types -> SUBSET Args]
      BY <1>0, <2>2
    <3>2. \A p \in Pods : lost'[p] = lost[p] \/ lost'[p] = [lost[p] EXCEPT ![U] = lost[p][U] \cup {b}]
      BY <2>4
    <3>3. lost' \in [Pods -> [Types -> SUBSET Args]]
      BY <1>0, <2>4, <3>1
    <3>4. ASSUME NEW p \in Pods, NEW V \in Types
          PROVE  lost[p][V] \subseteq lost'[p][V]
      <4>1. lost[p] \in [Types -> SUBSET Args]
        BY <1>0
      <4> QED BY <2>2, <3>2, <4>1
    <3> QED BY <3>3, <3>4
  <2> QED BY <2>1, <2>3, <2>4
<1>3. ASSUME NEW s \in Subs, Dropped(s)
      PROVE  Goal
  <2> DEFINE q == SubPod[s]
             more == [T \in Types |-> lost[q][T] \cup {a \in Args : Pending(s, T, a)}]
  <2>1. lost' = [lost EXCEPT ![q] = more]
    BY <1>3 DEF Dropped
  <2>2. q \in Pods /\ more \in [Types -> SUBSET Args]
    BY <1>0, CriticalAssumption
  <2>3. \A T \in Types : lost[q][T] \subseteq more[T]
    OBVIOUS
  <2> HIDE DEF q, more
  <2> QED BY <1>0, <2>1, <2>2, <2>3
<1>4. ASSUME NEW s \in Subs, Removed(s)
      PROVE  Goal
  <2> DEFINE q == SubPod[s]
             U == Head(todo[s])
             b == msg[s].args
  <2>1. lost' = [lost EXCEPT ![q][U] = lost[q][U] \ {b}]
    BY <1>4 DEF Removed
  <2>2. q \in Pods /\ U \in Types /\ b \in Args /\ index'[q][U] = Unbound(index[q][U], b)
    BY <1>0, <1>4, RemoveNextFacts DEF Removed
  <2> HIDE DEF q, U, b
  <2>3. Unbound(index[q][U], b)[b] = None
    <3>1. index[q][U] \in IndexMap
      BY <1>0, <2>2 DEF CInv, CacheTypes
    <3> QED BY <2>2, <3>1 DEF Unbound, IndexMap
  <2> QED BY <1>0, <2>1, <2>2, <2>3
<1>5. (\E t \in Threads : Begin(t)) \/ Unrecorded \/ UNCHANGED hvars => lost' = lost
  BY DEF Begin, Unrecorded, hvars
<1>6. ASSUME NEW q \in Pods, Forgotten(q)
      PROVE  Goal
  <2> DEFINE less == [T \in Types |-> {a \in lost[q][T] : index'[q][T][a] = index[q][T][a]}]
  <2>1. lost' = [lost EXCEPT ![q] = less] /\ Trims(q)
    BY <1>6 DEF Forgotten, Trims
  <2>2. less \in [Types -> SUBSET Args]
    BY <1>0
  <2>3. \A T \in Types, a \in Args : index'[q][T][a] \in {index[q][T][a], None}
    BY <1>0, <2>1, TrimFacts
  <2>4. \A T \in Types, a \in Args : a \in lost[q][T] /\ index'[q][T][a] # None => a \in less[T]
    BY <2>3
  <2> HIDE DEF less
  <2> QED BY <1>0, <2>1, <2>2, <2>4
<1> HIDE DEF Goal
<1>7. Goal
  BY <1>1, <1>2, <1>3, <1>4, <1>5, <1>6 DEF CHNext
<1> QED BY <1>7 DEF Goal

\* No step of the history passes off a lost connection, nor a publication, as
\* something else: what ends one or the other is put on record.
LEMMA DropsRecorded ==
  ASSUME CInv, [CHNext]_hvars, NEW s \in Subs,
         StopSubscriber(s) \/ ConnectionFails(s) \/ RemovePanics(s) \/ RegistryPanics(s)
  PROVE  Dropped(s)
<1>0. spc \in [Subs -> SubSteps]
  BY DEF CInv, SubscriberTypes
<1>1. /\ spc'[s] # spc[s]
      /\ spc'[s] \in {"ended", "died"} \/ (spc'[s] = "loop" /\ spc[s] # "start")
  BY <1>0 DEF StopSubscriber, ConnectionFails, RemovePanics, RegistryPanics, SubGoto
<1>2. ASSUME NEW r \in Subs, Dropped(r)
      PROVE  Dropped(s)
  <2>1. r # s => spc'[s] = spc[s]
    BY <1>2, OthersKept DEF Dropped, Subscriber
  <2> QED BY <1>1, <1>2, <2>1
<1>3. ASSUME NEW r \in Subs,
             \/ SpawnWorker(r) \/ StartSubscriber(r) \/ Snapshot(r) \/ Connect(r)
             \/ AwaitMessage(r) \/ ReadTimeout(r) \/ TakeMessage(r) \/ FinishMessage(r)
             \/ Removed(r)
      PROVE  FALSE
  <2>1. r # s => spc'[s] = spc[s]
    BY <1>3, OthersKept DEF Removed, Subscriber
  <2>2. r = s => spc'[s] = spc[s] \/ spc'[s] \in SubSteps \ {"ended", "died", "loop"} \/ spc[s] = "start"
    BY <1>0, <1>3 DEF SpawnWorker, StartSubscriber, Snapshot, Connect, AwaitMessage, ReadTimeout,
       TakeMessage, FinishMessage, Removed, RemoveNext, SubGoto, SubSteps
  <2>3. r = s /\ spc[s] = "start" => spc'[s] = "loop"
    BY <1>0, <1>3 DEF SpawnWorker, StartSubscriber, Snapshot, Connect, AwaitMessage, ReadTimeout,
       TakeMessage, FinishMessage, Removed, RemoveNext, SubGoto
  <2> QED BY <1>1, <2>1, <2>2, <2>3
<1>4. ASSUME NEW t \in Threads,
             Begin(t) \/ Announced(t) \/ NotAnnounced(t)
               \/ LookupHit(t) \/ LookupMiss(t) \/ Compute(t) \/ StoreValue(t)
               \/ Register(t) \/ ReadBack(t) \/ ReadBackPanics(t) \/ LockPanics(t)
               \/ WritePanics(t)
      PROVE  FALSE
  <2>1. spc' = spc
    BY <1>4, CallerFrame DEF Begin, Announced, NotAnnounced, Calls, Caller, subVars
  <2> QED BY <1>1, <2>1
<1>5. ASSUME (\E p \in Pods : DropWorker(p)) \/ (\E i \in Ids : DbUpdate(i)) \/ TimePasses
               \/ UNCHANGED hvars
      PROVE  FALSE
  <2>1. UNCHANGED hvars => UNCHANGED cvars
    BY DEF hvars
  <2>2. spc' = spc
    BY <1>5, <2>1, EnvironmentFrame DEF subVars
  <2> QED BY <1>1, <2>2
<1>6. ASSUME NEW p \in Pods, Forgotten(p)
      PROVE  FALSE
  <2>1. spc' = spc
    BY <1>6, TrimFrame DEF Forgotten, Trims, CInv, CallTypes, subVars
  <2> QED BY <1>1, <2>1
<1> QED BY <1>2, <1>3, <1>4, <1>5, <1>6 DEF CHNext, Unrecorded

LEMMA PublicationsRecorded ==
  ASSUME CInv, [CHNext]_hvars, NEW t \in Threads, Publish(t) \/ SkipPublish(t)
  PROVE  Announced(t) \/ NotAnnounced(t)
<1>0. pc \in [Threads -> CallSteps]
  BY DEF CInv, CallTypes
<1>1. pc[t] = "publish" /\ pc'[t] = "readback"
  BY <1>0 DEF Publish, SkipPublish, Goto
<1>2. ASSUME NEW u \in Threads,
             \/ Begin(u) \/ LookupHit(u) \/ LookupMiss(u) \/ Compute(u) \/ StoreValue(u)
             \/ Register(u) \/ ReadBack(u) \/ ReadBackPanics(u) \/ LockPanics(u)
             \/ WritePanics(u)
      PROVE  FALSE
  <2>1. u # t
    BY <1>1, <1>2 DEF Begin, ThroughKeyed, LookupHit, LookupMiss, Compute, StoreValue, Register,
       ReadBack, ReadBackPanics, LockPanics, WritePanics
  <2>2. \E step : pc' = [pc EXCEPT ![u] = step]
    BY <1>2 DEF Begin, ThroughKeyed, LookupHit, LookupMiss, Compute, StoreValue, Register,
       ReadBack, ReadBackPanics, LockPanics, WritePanics, Return, Panic, Goto
  <2> QED BY <1>0, <1>1, <2>1, <2>2
<1>3. ASSUME NEW u \in Threads, Announced(u) \/ NotAnnounced(u)
      PROVE  Announced(t) \/ NotAnnounced(t)
  <2>1. pc' = [pc EXCEPT ![u] = "readback"]
    BY <1>3 DEF Announced, NotAnnounced, Publish, SkipPublish, Goto
  <2> QED BY <1>0, <1>1, <1>3, <2>1
<1>4. ASSUME NEW r \in Subs,
             \/ Dropped(r) \/ Removed(r)
             \/ SpawnWorker(r) \/ StartSubscriber(r) \/ Snapshot(r) \/ Connect(r)
             \/ AwaitMessage(r) \/ ReadTimeout(r) \/ TakeMessage(r) \/ FinishMessage(r)
      PROVE  FALSE
  <2>1. UNCHANGED callVars
    BY <1>4, SubscriberFrame DEF Dropped, Removed, Subscriber
  <2> QED BY <1>1, <2>1 DEF callVars
<1>5. ASSUME (\E p \in Pods : DropWorker(p)) \/ (\E i \in Ids : DbUpdate(i)) \/ TimePasses
               \/ UNCHANGED hvars
      PROVE  FALSE
  <2>1. UNCHANGED hvars => UNCHANGED cvars
    BY DEF hvars
  <2>2. UNCHANGED callVars
    BY <1>5, <2>1, EnvironmentFrame
  <2> QED BY <1>1, <2>2 DEF callVars
<1>6. ASSUME NEW p \in Pods, Forgotten(p)
      PROVE  FALSE
  <2>1. pc' = pc
    BY <1>6, TrimFrame DEF Forgotten, Trims, CInv, CallTypes
  <2> QED BY <1>1, <2>1
<1> QED BY <1>2, <1>3, <1>4, <1>5, <1>6 DEF CHNext, Unrecorded

-----------------------------------------------------------------------------
\* What is still to come of a binding is carried out, or put on record as lost.
LEMMA PendingExcused ==
  ASSUME HInv, [CHNext]_hvars, NEW s \in Subs, NEW T \in Types, NEW a \in Args,
         Pending(s, T, a), index[SubPod[s]][T][a] # None, index'[SubPod[s]][T][a] # None
  PROVE  Excused(SubPod[s], T, a)'
<1> DEFINE p == SubPod[s]
<1>0. /\ CInv /\ BoundRegistered /\ [CNext]_cvars /\ p \in Pods
      /\ lost \in [Pods -> [Types -> SUBSET Args]]
  BY HistoryStep, CriticalAssumption DEF HInv
<1>1. CASE StopSubscriber(s) \/ ConnectionFails(s) \/ RemovePanics(s) \/ RegistryPanics(s)
  <2> DEFINE more == [U \in Types |-> lost[p][U] \cup {b \in Args : Pending(s, U, b)}]
  <2>1. lost' = [lost EXCEPT ![p] = more]
    BY <1>0, <1>1, DropsRecorded DEF Dropped
  <2>2. a \in more[T]
    OBVIOUS
  <2> HIDE DEF p, more
  <2>3. a \in lost'[p][T]
    BY <1>0, <2>1, <2>2
  <2> QED BY <2>3 DEF Excused, p
<1>2. CASE ~(StopSubscriber(s) \/ ConnectionFails(s) \/ RemovePanics(s) \/ RegistryPanics(s))
  <2>1. ~(RemoveNext(s) /\ T = Head(todo[s]) /\ a = msg[s].args)
    <3> SUFFICES ASSUME RemoveNext(s), T = Head(todo[s]), a = msg[s].args
                 PROVE  FALSE
      OBVIOUS
    <3>1. index'[p][T] = Unbound(index[p][T], a)
      BY <1>0, RemoveNextFacts
    <3>2. index[p][T] \in IndexMap
      BY <1>0 DEF CInv, CacheTypes
    <3> QED BY <3>1, <3>2 DEF Unbound, IndexMap
  <2>2. Pending(s, T, a)' \/ \E t \in Threads : HeldFor(t, p, T, a)'
    BY <1>0, <1>2, <2>1, PendingStep
  <2> QED BY <2>2 DEF Excused, SubsOf
<1> QED BY <1>1, <1>2

\* A call that holds the stores lock announces what it has stored to all who
\* listen, and those who do not, or its own pod if it fails, are put on record.
LEMMA HeldExcused ==
  ASSUME HInv, [CHNext]_hvars, NEW p \in Pods, NEW T \in Types, NEW a \in Args,
         NEW t \in Threads, HeldFor(t, p, T, a)
  PROVE  Excused(p, T, a)'
<1>0. CInv /\ [CNext]_cvars /\ lost \in [Pods -> [Types -> SUBSET Args]]
  BY HistoryStep DEF HInv
<1>1. PodOf[t] = p
  <2>1. writer[p] = t /\ t # None
    BY CriticalAssumption DEF HeldFor
  <2> QED BY <1>0, <2>1 DEF CInv, StoresLock
<1>2. /\ call'[t] = call[t] /\ writer'[p] = t
      /\ \/ pc'[t] = pc[t]
         \/ Register(t) /\ pc'[t] = "publish"
         \/ Publish(t) \/ SkipPublish(t)
  BY <1>0, <1>1, HolderKept DEF HeldFor
<1>3. pc'[t] \in {"register", "publish"} => Excused(p, T, a)'
  BY <1>2 DEF HeldFor, Excused
<1>4. CASE NotAnnounced(t)
  <2>1. lost' = [lost EXCEPT ![p][T] = lost[p][T] \cup {a}]
    BY <1>1, <1>4 DEF NotAnnounced, HeldFor
  <2> QED BY <1>0, <2>1 DEF Excused
<1>5. CASE Announced(t)
  <2> DEFINE c == ChannelOf[T]
             m == [channel |-> c, args |-> a]
  <2>1. /\ Deliver(c, m) /\ UNCHANGED subVars
        /\ lost' = [q \in Pods |-> IF SubsOf(q) \cap Listeners(c) = {}
                      THEN [lost[q] EXCEPT ![T] = lost[q][T] \cup {a}] ELSE lost[q]]
    BY <1>5 DEF Announced, Publish, HeldFor
  <2>2. c \in Channels /\ m \in Messages
    BY CriticalAssumption DEF Messages
  <2>3. CASE SubsOf(p) \cap Listeners(c) = {}
    <3>1. a \in lost'[p][T]
      BY <1>0, <2>1, <2>3
    <3> QED BY <3>1 DEF Excused
  <2>4. CASE SubsOf(p) \cap Listeners(c) # {}
    <3>1. PICK s \in Subs : s \in SubsOf(p) /\ s \in Listeners(c)
      BY <2>4 DEF SubsOf
    <3>2. Unread(s)' = Unread(s) \cup {m}
      <4>1. Connections(Messages)
        BY <1>0 DEF CInv, SubscriberTypes
      <4> HIDE DEF c, m
      <4> QED BY <2>1, <2>2, <3>1, <4>1, DeliverFacts
    <3>3. Pending(s, T, a)'
      BY <3>2 DEF Pending
    <3> QED BY <3>1, <3>3 DEF Excused, SubsOf
  <2> QED BY <2>3, <2>4
<1> QED BY <1>0, <1>2, <1>3, <1>4, <1>5, PublicationsRecorded DEF HeldFor

LEMMA ExcusedStep ==
  ASSUME HInv, [CHNext]_hvars, NEW p \in Pods, NEW T \in Types, NEW a \in Args,
         index'[p][T][a] # None
  PROVE  Excused(p, T, a)'
<1>0. CInv /\ [CNext]_cvars
  BY HistoryStep DEF HInv
<1>1. CASE index[p][T][a] = None
  BY <1>0, <1>1, BoundBy DEF Excused
<1>2. CASE index[p][T][a] # None
  <2>1. Excused(p, T, a)
    BY <1>2 DEF HInv
  <2>2. CASE a \in lost[p][T]
    BY <2>2, LostStep DEF Excused
  <2>3. ASSUME NEW s \in SubsOf(p), Pending(s, T, a)
        PROVE  Excused(p, T, a)'
    BY <1>2, <2>3, PendingExcused DEF SubsOf
  <2>4. ASSUME NEW t \in Threads, HeldFor(t, p, T, a)
        PROVE  Excused(p, T, a)'
    BY <2>4, HeldExcused
  <2> QED BY <2>1, <2>2, <2>3, <2>4 DEF Excused
<1> QED BY <1>1, <1>2

LEMMA HInvHolds == CHSpec => []HInv
<1>1. CHInit => HInv
  <2> SUFFICES ASSUME CHInit
               PROVE  HInv
    OBVIOUS
  <2>1. CInv
    BY InitCInv DEF CHInit
  <2>2. \A p \in Pods, T \in Types, a \in Args : index[p][T][a] = None
    BY DEF CHInit, CInit, EmptyIndex
  <2>3. lost \in [Pods -> [Types -> SUBSET Args]]
    BY DEF CHInit
  <2> QED BY <2>1, <2>2, <2>3 DEF HInv, BoundRegistered
<1>2. HInv /\ [CHNext]_hvars => HInv'
  <2> SUFFICES ASSUME HInv, [CHNext]_hvars
               PROVE  HInv'
    OBVIOUS
  <2>1. CInv' /\ BoundRegistered'
    BY HistoryStep, NextCInv, BoundStep DEF HInv
  <2> QED BY <2>1, LostStep, ExcusedStep DEF HInv
<1> QED BY <1>1, <1>2, PTL DEF CHSpec

\* The broadcast: whatever a pod has bound is on its way out, in a message its
\* subscriber has still to carry out or in a call still to publish, unless the pod
\* missed an announcement of the key (critical.rs, after_store and
\* subscriber_loop).
THEOREM BindingsAreAnnounced == CHSpec => []BindingIsAnnounced
<1>1. HInv => BindingIsAnnounced
  BY DEF HInv, BindingIsAnnounced, Excused, HeldFor
<1> QED BY <1>1, HInvHolds, PTL

-----------------------------------------------------------------------------
(* The broadcast refines KeyedBroadcast *)

\* What is owed changes only with what a subscriber has in hand or has to read.
LEMMA OwedKept ==
  ASSUME \A s \in Subs, T \in Types, a \in Args : Pending(s, T, a)' <=> Pending(s, T, a)
  PROVE  Owed' = Owed
BY DEF Owed, SubsOf

LEMMA OwedUntouched ==
  ASSUME UNCHANGED <<spc, msg, todo, redisVars>>
  PROVE  Owed' = Owed
<1>1. \A s \in Subs, T \in Types, a \in Args : Pending(s, T, a)' <=> Pending(s, T, a)
  BY DEF Pending, InHand, Unread, redisVars
<1> QED BY <1>1, OwedKept

\* A call that holds no stores lock has nothing to tell.
LEMMA TellingKept ==
  ASSUME CInv, NEW t \in Threads, ~Storing(t), writer' = writer,
         \A u \in Threads : u # t => pc'[u] = pc[u] /\ call'[u] = call[u]
  PROVE  Telling' = Telling
<1>1. \A p \in Pods : writer[p] # None => writer[p] \in Threads /\ writer[p] # t
  BY DEF CInv, StoresLock
<1> QED BY <1>1 DEF Telling

LEMMA StoreRefines ==
  ASSUME HInv, NEW t \in Threads, StoreValue(t), lost' = lost
  PROVE  Broadcast!Store(PodOf[t], <<call[t].type, call[t].args>>)
<1> DEFINE p == PodOf[t]
           T == call[t].type
           a == call[t].args
           k == <<T, a>>
<1>0. CInv
  BY DEF HInv
<1>1. /\ p \in Pods /\ T \in Types /\ a \in Args /\ call[t].id \in Ids
      /\ writer[p] = None
      /\ writer' = [writer EXCEPT ![p] = t] /\ pc' = [pc EXCEPT ![t] = "register"]
      /\ call' = call /\ UNCHANGED redisVars
      /\ index'[p][T] = [index[p][T] EXCEPT ![a] = call[t].id]
      /\ \A q \in Pods, U \in Types : q # p \/ U # T => index'[q][U] = index[q][U]
  BY <1>0, StoreFacts
<1>2. UNCHANGED <<spc, msg, todo>>
  BY DEF StoreValue, subVars
<1>3. Telling[p] = None
  BY <1>1 DEF Telling
<1>4. Telling' = [Telling EXCEPT ![p] = k]
  <2>1. \A q \in Pods : q # p /\ writer[q] # None => writer[q] \in Threads /\ writer[q] # t
    BY <1>0 DEF CInv, StoresLock
  <2>2. /\ writer'[p] = t /\ pc'[t] = "register" /\ t # None
        /\ \A u \in Threads : u # t => pc'[u] = pc[u]
        /\ \A q \in Pods : q # p => writer'[q] = writer[q]
    BY <1>0, <1>1, CriticalAssumption DEF CInv, StoresLock, CallTypes
  <2>3. Telling'[p] = k
    BY <1>1, <2>2 DEF Telling
  <2>4. \A q \in Pods : q # p => Telling'[q] = Telling[q]
    BY <1>1, <2>1, <2>2 DEF Telling
  <2>5. p \in Pods
    BY <1>1
  <2> HIDE DEF k, p
  <2> QED BY <2>3, <2>4, <2>5 DEF Telling
<1>5. Kept' = [Kept EXCEPT ![p] = Kept[p] \cup {k}]
  <2>1. index[p][T] \in IndexMap /\ call[t].id # None
    BY <1>0, <1>1, CacheAssumption DEF CInv, CacheTypes
  <2> HIDE DEF p, T, a
  <2>2. \A U \in Types, b \in Args :
          index'[p][U][b] # None <=> index[p][U][b] # None \/ (U = T /\ b = a)
    BY <1>1, <2>1 DEF IndexMap
  <2>3. Kept'[p] = Kept[p] \cup {k} /\ \A q \in Pods : q # p => Kept'[q] = Kept[q]
    BY <1>1, <2>2 DEF Kept
  <2> HIDE DEF k
  <2> QED BY <1>1, <2>3 DEF Kept
<1>6. Owed' = Owed /\ Missed' = Missed
  BY <1>1, <1>2, OwedUntouched DEF Missed
<1> QED BY <1>3, <1>4, <1>5, <1>6 DEF Broadcast!Store

\* A call that has stored moves on to the readback with nothing more to tell.
LEMMA TellingEnds ==
  ASSUME CInv, NEW t \in Threads, pc[t] = "publish", pc' = [pc EXCEPT ![t] = "readback"],
         writer' = writer, call' = call
  PROVE  /\ PodOf[t] \in Pods /\ call[t].type \in Types /\ call[t].args \in Args
         /\ Telling[PodOf[t]] = <<call[t].type, call[t].args>>
         /\ Telling' = [Telling EXCEPT ![PodOf[t]] = None]
<1> DEFINE p == PodOf[t]
<1>1. /\ p \in Pods /\ writer[p] = t /\ t # None
      /\ call[t].type \in Types /\ call[t].args \in Args
  BY CriticalAssumption DEF CInv, StoresLock, Storing, CallLocals
<1>2. \A q \in Pods : q # p /\ writer[q] # None => writer[q] \in Threads /\ writer[q] # t
  BY DEF CInv, StoresLock
<1>3. pc'[t] = "readback" /\ \A u \in Threads : u # t => pc'[u] = pc[u]
  BY DEF CInv, CallTypes
<1>4. Telling[p] = <<call[t].type, call[t].args>> /\ Telling'[p] = None
  BY <1>1, <1>3 DEF Telling
<1>5. \A q \in Pods : q # p => Telling'[q] = Telling[q]
  BY <1>2, <1>3 DEF Telling
<1> HIDE DEF p
<1>6. Telling' = [Telling EXCEPT ![p] = None]
  BY <1>1, <1>4, <1>5 DEF Telling
<1> QED BY <1>1, <1>4, <1>6 DEF p

LEMMA TellRefines ==
  ASSUME HInv, NEW t \in Threads, Announced(t)
  PROVE  Broadcast!Tell(PodOf[t], <<call[t].type, call[t].args>>)
<1> DEFINE T == call[t].type
           a == call[t].args
           k == <<T, a>>
           c == ChannelOf[T]
           m == [channel |-> c, args |-> a]
           reached == {q \in Pods : SubsOf(q) \cap Listeners(c) # {}}
<1>0. CInv /\ lost \in [Pods -> [Types -> SUBSET Args]]
  BY DEF HInv
<1>1. /\ pc[t] = "publish" /\ pc' = [pc EXCEPT ![t] = "readback"]
      /\ Deliver(c, m) /\ UNCHANGED <<writer, call, index, spc, msg, todo>>
      /\ lost' = [p \in Pods |-> IF SubsOf(p) \cap Listeners(c) = {}
                    THEN [lost[p] EXCEPT ![T] = lost[p][T] \cup {a}] ELSE lost[p]]
  BY DEF Announced, Publish, Goto, cacheVars, lockVars, subVars
<1>2. /\ T \in Types /\ a \in Args /\ Telling[PodOf[t]] = k
      /\ Telling' = [Telling EXCEPT ![PodOf[t]] = None]
  BY <1>0, <1>1, TellingEnds
<1>3. c \in Channels /\ m \in Messages
  BY <1>2, CriticalAssumption DEF Messages
<1>4. \A s \in Subs : Unread(s)' = IF s \in Listeners(c) THEN Unread(s) \cup {m} ELSE Unread(s)
  <2>1. Connections(Messages)
    BY <1>0 DEF CInv, SubscriberTypes
  <2> HIDE DEF c, m
  <2> QED BY <1>1, <1>3, <2>1, DeliverFacts
<1>5. Kept' = Kept
  BY <1>1 DEF Kept
<1>6. ASSUME NEW s \in Subs, NEW U \in Types, NEW b \in Args
      PROVE  Pending(s, U, b)'
               <=> \/ Pending(s, U, b)
                   \/ s \in Listeners(c) /\ ChannelOf[U] = c /\ b = a
  <2>1. [channel |-> ChannelOf[U], args |-> b] = m <=> ChannelOf[U] = c /\ b = a
    OBVIOUS
  <2>2. InHand(s, U, b)' <=> InHand(s, U, b)
    BY <1>1 DEF InHand
  <2> HIDE DEF m, c, a
  <2> QED BY <1>4, <2>1, <2>2 DEF Pending
<1>7. Owed' = [q \in Pods |-> IF q \in reached THEN Owed[q] \cup Broadcast!Named(k) ELSE Owed[q]]
  <2>1. Broadcast!Named(k) = {l \in Types \X Args : ChannelOf[l[1]] = c /\ l[2] = a}
    BY DEF Broadcast!Named, Broadcast!TypedKeys
  <2> HIDE DEF c, a, k
  <2>2. ASSUME NEW q \in Pods, q \in reached
        PROVE  Owed'[q] = Owed[q] \cup Broadcast!Named(k)
    <3>1. PICK s \in Subs : s \in SubsOf(q) /\ s \in Listeners(c)
      BY <2>2 DEF SubsOf
    <3> QED BY <1>6, <2>1, <3>1 DEF Owed, SubsOf
  <2>3. ASSUME NEW q \in Pods, q \notin reached
        PROVE  Owed'[q] = Owed[q]
    <3>1. \A s \in SubsOf(q) : s \notin Listeners(c)
      BY <2>3
    <3> QED BY <1>6, <3>1 DEF Owed, SubsOf
  <2> HIDE DEF reached
  <2> QED BY <2>2, <2>3 DEF Owed
<1>8. Missed' = [q \in Pods |-> IF q \in reached THEN Missed[q] ELSE Missed[q] \cup {k}]
  <2> HIDE DEF c
  <2>1. ASSUME NEW q \in Pods, q \in reached
        PROVE  Missed'[q] = Missed[q]
    BY <1>0, <1>1, <2>1 DEF Missed
  <2>2. ASSUME NEW q \in Pods, q \notin reached
        PROVE  Missed'[q] = Missed[q] \cup {k}
    <3>1. lost'[q] = [lost[q] EXCEPT ![T] = lost[q][T] \cup {a}] /\ lost[q] \in [Types -> SUBSET Args]
      BY <1>0, <1>1, <2>2
    <3>2. \A U \in Types : lost'[q][U] = IF U = T THEN lost[q][T] \cup {a} ELSE lost[q][U]
      BY <3>1
    <3> HIDE DEF T, a
    <3> QED BY <1>2, <3>2 DEF Missed
  <2> HIDE DEF reached
  <2> QED BY <2>1, <2>2 DEF Missed
<1>9. reached \in SUBSET Pods
  OBVIOUS
<1> HIDE DEF reached, k
<1> QED BY <1>2, <1>5, <1>7, <1>8, <1>9 DEF Broadcast!Tell, k

LEMMA TellNobodyRefines ==
  ASSUME HInv, NEW t \in Threads, NotAnnounced(t)
  PROVE  Broadcast!TellNobody(PodOf[t], <<call[t].type, call[t].args>>)
<1> DEFINE p == PodOf[t]
           T == call[t].type
           a == call[t].args
           k == <<T, a>>
<1>0. CInv /\ lost \in [Pods -> [Types -> SUBSET Args]]
  BY DEF HInv
<1>1. /\ pc[t] = "publish" /\ pc' = [pc EXCEPT ![t] = "readback"]
      /\ UNCHANGED <<writer, call, index, spc, msg, todo, redisVars>>
      /\ lost' = [lost EXCEPT ![p][T] = lost[p][T] \cup {a}]
  BY DEF NotAnnounced, SkipPublish, Goto, cacheVars, lockVars, subVars
<1>2. /\ p \in Pods /\ T \in Types /\ a \in Args /\ Telling[p] = k
      /\ Telling' = [Telling EXCEPT ![p] = None]
  BY <1>0, <1>1, TellingEnds
<1>3. Kept' = Kept /\ Owed' = Owed
  BY <1>1, OwedUntouched DEF Kept
<1>4. Missed' = [Missed EXCEPT ![p] = Missed[p] \cup {k}]
  <2> HIDE DEF p, T, a
  <2>1. \A q \in Pods, U \in Types :
          lost'[q][U] = IF q = p /\ U = T THEN lost[p][T] \cup {a} ELSE lost[q][U]
    BY <1>0, <1>1, <1>2
  <2>2. Missed'[p] = Missed[p] \cup {k} /\ \A q \in Pods : q # p => Missed'[q] = Missed[q]
    BY <1>2, <2>1 DEF Missed
  <2> HIDE DEF k
  <2> QED BY <1>2, <2>2 DEF Missed
<1> QED BY <1>2, <1>3, <1>4 DEF Broadcast!TellNobody

LEMMA DropRefines ==
  ASSUME HInv, NEW s \in Subs, Removed(s)
  PROVE  Broadcast!Drop(SubPod[s], <<Head(todo[s]), msg[s].args>>)
<1> DEFINE p == SubPod[s]
           T == Head(todo[s])
           a == msg[s].args
           k == <<T, a>>
<1>0. CInv /\ lost \in [Pods -> [Types -> SUBSET Args]] /\ RemoveNext(s)
  BY DEF HInv, Removed
<1>1. /\ p \in Pods /\ T \in Types /\ a \in Args
      /\ spc[s] = "handling" /\ todo[s] # <<>>
      /\ index'[p][T] = Unbound(index[p][T], a)
      /\ \A q \in Pods, U \in Types : q # p \/ U # T => index'[q][U] = index[q][U]
  BY <1>0, RemoveNextFacts
<1>2. /\ UNCHANGED <<writer, pc, call, spc, msg, redisVars>>
      /\ todo' = [todo EXCEPT ![s] = Tail(todo[s])]
      /\ lost' = [lost EXCEPT ![p][T] = lost[p][T] \ {a}]
  BY DEF Removed, RemoveNext, lockVars, callVars
<1>3. /\ T \in ToSet(todo[s])
      /\ ToSet(todo[s]) = ToSet(todo'[s]) \cup {T}
      /\ \A r \in Subs : r # s => todo'[r] = todo[r]
  BY <1>0, <1>1, <1>2, ToSetFacts DEF CInv, SubscriberTypes
<1>4. Pending(s, T, a)
  BY <1>1, <1>3 DEF Pending, InHand
<1>5. ASSUME NEW r \in Subs, NEW U \in Types, NEW b \in Args
      PROVE  /\ Pending(r, U, b)' => Pending(r, U, b)
             /\ Pending(r, U, b) => Pending(r, U, b)' \/ (U = T /\ b = a)
  BY <1>2, <1>3 DEF Pending, InHand, Unread, redisVars
<1> HIDE DEF T, a
<1>6. k \in Owed[p]
  BY <1>1, <1>4 DEF Owed, SubsOf
<1>7. \/ Owed' = Owed
      \/ Owed' = [Owed EXCEPT ![p] = Owed[p] \ {k}]
  <2>1. \A q \in Pods : q # p => Owed'[q] = Owed[q]
    <3>1. ASSUME NEW q \in Pods, q # p, NEW r \in SubsOf(q), NEW U \in Types, NEW b \in Args
          PROVE  Pending(r, U, b)' <=> Pending(r, U, b)
      BY <1>2, <1>3, <3>1 DEF Pending, InHand, Unread, redisVars, SubsOf
    <3> QED BY <3>1 DEF Owed, SubsOf
  <2>2. Owed'[p] \subseteq Owed[p] /\ Owed[p] \subseteq Owed'[p] \cup {k}
    BY <1>1, <1>5 DEF Owed, SubsOf
  <2>3. Owed'[p] = Owed[p] \/ Owed'[p] = Owed[p] \ {k}
    BY <2>2
  <2> HIDE DEF p, k
  <2> QED BY <1>1, <2>1, <2>3 DEF Owed
<1>8. Kept' = [Kept EXCEPT ![p] = Kept[p] \ {k}]
  <2>1. index[p][T] \in IndexMap
    BY <1>0, <1>1 DEF CInv, CacheTypes
  <2>2. \A b \in Args : index'[p][T][b] = IF b = a THEN None ELSE index[p][T][b]
    BY <1>1, <2>1 DEF Unbound, IndexMap
  <2>3. Kept'[p] = Kept[p] \ {k} /\ \A q \in Pods : q # p => Kept'[q] = Kept[q]
    BY <1>1, <2>2 DEF Kept
  <2> HIDE DEF p, k
  <2> QED BY <1>1, <2>3 DEF Kept
<1>9. Missed' = [Missed EXCEPT ![p] = Missed[p] \ {k}]
  <2>1. \A q \in Pods, U \in Types :
          lost'[q][U] = IF q = p /\ U = T THEN lost[p][T] \ {a} ELSE lost[q][U]
    BY <1>0, <1>1, <1>2
  <2>2. Missed'[p] = Missed[p] \ {k} /\ \A q \in Pods : q # p => Missed'[q] = Missed[q]
    BY <1>1, <2>1 DEF Missed
  <2> HIDE DEF p, k
  <2> QED BY <1>1, <2>2 DEF Missed
<1>10. Telling' = Telling
  BY <1>2 DEF Telling
<1> QED BY <1>6, <1>7, <1>8, <1>9, <1>10 DEF Broadcast!Drop, T, a

\* What a pod forgets it no longer keeps, nor does it miss having heard of it; what
\* is on its way to the pod comes all the same.
LEMMA ForgetRefines ==
  ASSUME HInv, NEW p \in Pods, Forgotten(p)
  PROVE  \E gone \in SUBSET Kept[p] : Broadcast!Forget(p, gone)
<1> DEFINE gone == {k \in Types \X Args : index'[p][k[1]][k[2]] # index[p][k[1]][k[2]]}
<1>0. CInv /\ lost \in [Pods -> [Types -> SUBSET Args]]
  BY DEF HInv
<1>1. Trims(p)
  BY DEF Forgotten, Trims
<1>2. UNCHANGED <<writer, spc, msg, todo, redisVars, pc, call>>
  BY <1>0, <1>1, TrimFrame DEF CInv, CallTypes, lockVars, subVars
<1>3. /\ writer[p] = None
      /\ \A q \in Pods : q # p => index'[q] = index[q]
      /\ \A T \in Types, a \in Args : index'[p][T][a] \in {index[p][T][a], None}
  BY <1>0, <1>1, TrimFacts
<1>4. lost' = [lost EXCEPT ![p] = [T \in Types |->
                 {a \in lost[p][T] : index'[p][T][a] = index[p][T][a]}]]
  BY DEF Forgotten
<1>5. Telling[p] = None /\ Telling' = Telling
  BY <1>2, <1>3 DEF Telling
<1>6. Owed' = Owed
  BY <1>2, OwedUntouched
<1>7. gone \in SUBSET Kept[p]
  BY <1>3 DEF Kept
<1>8. Kept' = [Kept EXCEPT ![p] = Kept[p] \ gone]
  <2>1. Kept'[p] = Kept[p] \ gone /\ \A q \in Pods : q # p => Kept'[q] = Kept[q]
    BY <1>3 DEF Kept
  <2> HIDE DEF gone
  <2> QED BY <2>1 DEF Kept
<1>9. Missed' = [Missed EXCEPT ![p] = Missed[p] \ gone]
  <2>1. /\ \A T \in Types : lost'[p][T] = {a \in lost[p][T] : index'[p][T][a] = index[p][T][a]}
        /\ \A q \in Pods : q # p => lost'[q] = lost[q]
    BY <1>0, <1>4
  <2>2. Missed'[p] = Missed[p] \ gone /\ \A q \in Pods : q # p => Missed'[q] = Missed[q]
    BY <2>1 DEF Missed
  <2> HIDE DEF gone
  <2> QED BY <2>2 DEF Missed
<1> HIDE DEF gone
<1> QED BY <1>5, <1>6, <1>7, <1>8, <1>9 DEF Broadcast!Forget

LEMMA MissRefines ==
  ASSUME HInv, NEW s \in Subs, Dropped(s)
  PROVE  \E gone \in SUBSET Owed[SubPod[s]] : Broadcast!Miss(SubPod[s], gone)
<1> DEFINE p == SubPod[s]
           gone == {k \in Types \X Args : Pending(s, k[1], k[2])}
<1>0. CInv /\ p \in Pods /\ lost \in [Pods -> [Types -> SUBSET Args]]
  BY CriticalAssumption DEF HInv
<1>1. /\ UNCHANGED <<index, writer, pc, call>> /\ Disconnect(s)
      /\ lost' = [lost EXCEPT ![p] = [T \in Types |-> lost[p][T] \cup {a \in Args : Pending(s, T, a)}]]
  BY DEF Dropped, StopSubscriber, ConnectionFails, RemovePanics, RegistryPanics, cacheVars,
     lockVars, callVars
<1>2. spc'[s] # "handling"
  BY <1>0 DEF Dropped, StopSubscriber, ConnectionFails, RemovePanics, RegistryPanics, SubGoto,
     CInv, SubscriberTypes
<1>3. Unread(s)' = {}
  BY <1>0, <1>1, ConnectionFacts DEF CInv, SubscriberTypes
<1>4. \A T \in Types, a \in Args : ~Pending(s, T, a)'
  BY <1>2, <1>3 DEF Pending, InHand
<1>5. ASSUME NEW r \in Subs, r # s, NEW T \in Types, NEW a \in Args
      PROVE  Pending(r, T, a)' <=> Pending(r, T, a)
  BY <1>0, <1>5, OthersKept DEF Pending, InHand, Dropped, Subscriber
<1>6. gone \in SUBSET Owed[p]
  BY <1>0 DEF Owed, SubsOf
<1>7. Owed'[p] \subseteq Owed[p] /\ Owed[p] \subseteq Owed'[p] \cup gone
  BY <1>0, <1>4, <1>5 DEF Owed, SubsOf
<1>8. Owed' = [Owed EXCEPT ![p] = Owed'[p]]
  <2>1. \A q \in Pods : q # p => Owed'[q] = Owed[q]
    BY <1>5 DEF Owed, SubsOf
  <2> HIDE DEF p
  <2> QED BY <1>0, <2>1 DEF Owed
<1>9. Missed' = [Missed EXCEPT ![p] = Missed[p] \cup gone]
  <2>1. /\ lost'[p] = [T \in Types |-> lost[p][T] \cup {a \in Args : Pending(s, T, a)}]
        /\ \A q \in Pods : q # p => lost'[q] = lost[q]
    BY <1>0, <1>1
  <2>2. Missed'[p] = Missed[p] \cup gone
    BY <1>0, <2>1 DEF Missed
  <2>3. \A q \in Pods : q # p => Missed'[q] = Missed[q]
    BY <2>1 DEF Missed
  <2> HIDE DEF p, gone
  <2> QED BY <1>0, <2>2, <2>3 DEF Missed
<1>10. Kept' = Kept /\ Telling' = Telling
  BY <1>1 DEF Kept, Telling
<1> HIDE DEF p, gone
<1> QED BY <1>6, <1>7, <1>8, <1>9, <1>10 DEF Broadcast!Miss, p

LEMMA SettleRefines ==
  ASSUME HInv, [CHNext]_hvars, NEW s \in Subs, TakeMessage(s), lost' = lost
  PROVE  Broadcast!Settle(SubPod[s])
<1> DEFINE p == SubPod[s]
           m == Head(inbox[s])
<1>0. CInv /\ BoundRegistered /\ p \in Pods
  BY CriticalAssumption DEF HInv
<1>1. /\ spc[s] = "reading" /\ Read(s) /\ UNCHANGED <<index, writer, registry, pc, call>>
      /\ spc' = [spc EXCEPT ![s] = "handling"]
      /\ msg' = [msg EXCEPT ![s] = m]
      /\ todo' = [todo EXCEPT ![s] = registry[p][m.channel]]
  BY DEF TakeMessage, SubGoto, podVars, cacheVars, callVars
<1>2. m \in Messages /\ Unread(s) = Unread(s)' \cup {m}
  BY <1>0, <1>1, ReadFacts DEF CInv, SubscriberTypes
<1>3. ASSUME NEW r \in Subs, r # s, NEW T \in Types, NEW a \in Args
      PROVE  Pending(r, T, a)' <=> Pending(r, T, a)
  BY <1>0, <1>3, OthersKept DEF Pending, InHand, Subscriber
<1>4. ASSUME NEW T \in Types, NEW a \in Args, Pending(s, T, a)'
      PROVE  Pending(s, T, a)
  <2>1. CASE InHand(s, T, a)'
    <3>1. m.args = a /\ T \in ToSet(registry[p][m.channel])
      BY <1>0, <1>1, <2>1 DEF InHand, CInv, SubscriberTypes
    <3>2. m.channel \in Channels /\ m = [channel |-> m.channel, args |-> m.args]
      <4> HIDE DEF m
      <4> QED BY <1>2 DEF Messages
    <3>3. ChannelOf[T] = m.channel
      BY <1>0, <3>1, <3>2 DEF CInv, RegistryLock
    <3> HIDE DEF m
    <3>4. [channel |-> ChannelOf[T], args |-> a] \in Unread(s)
      BY <1>2, <3>1, <3>2, <3>3
    <3> QED BY <3>4 DEF Pending
  <2>2. CASE [channel |-> ChannelOf[T], args |-> a] \in Unread(s)'
    BY <1>2, <2>2 DEF Pending
  <2> QED BY <1>4, <2>1, <2>2 DEF Pending
<1>5. ASSUME NEW T \in Types, NEW a \in Args, Pending(s, T, a), index[p][T][a] # None
      PROVE  Pending(s, T, a)' \/ <<T, a>> = Telling[p]
  <2>1. ~(StopSubscriber(s) \/ ConnectionFails(s) \/ RemovePanics(s) \/ RegistryPanics(s))
    BY <1>0, <1>1 DEF StopSubscriber, ConnectionFails, RemovePanics, RegistryPanics, SubGoto,
       CInv, SubscriberTypes
  <2>2. ~RemoveNext(s)
    BY <1>1 DEF RemoveNext
  <2>3. Pending(s, T, a)' \/ \E t \in Threads : HeldFor(t, p, T, a)'
    BY <1>0, <1>5, <2>1, <2>2, HistoryStep, PendingStep
  <2>4. ASSUME NEW t \in Threads, HeldFor(t, p, T, a)'
        PROVE  <<T, a>> = Telling[p]
    <3>1. writer[p] = t /\ pc[t] \in {"register", "publish"} /\ call[t].type = T /\ call[t].args = a
      BY <1>1, <2>4 DEF HeldFor
    <3> QED BY <1>0, <3>1, CriticalAssumption DEF Telling
  <2> QED BY <2>3, <2>4
<1>6. Owed'[p] \subseteq Owed[p]
  BY <1>0, <1>3, <1>4 DEF Owed, SubsOf
<1>7. (Owed[p] \ Owed'[p]) \cap Kept[p] \subseteq {Telling[p]}
  <2> SUFFICES ASSUME NEW k \in Owed[p], k \notin Owed'[p], k \in Kept[p]
               PROVE  k = Telling[p]
    OBVIOUS
  <2>0. PICK T \in Types, a \in Args : k = <<T, a>>
    BY <1>0 DEF Owed
  <2>1. index[p][T][a] # None
    BY <1>0, <2>0 DEF Kept
  <2>2. PICK r \in SubsOf(p) : Pending(r, T, a)
    BY <1>0, <2>0 DEF Owed
  <2>3. \A q \in SubsOf(p) : ~Pending(q, T, a)'
    BY <1>0, <2>0 DEF Owed, SubsOf
  <2>4. r = s
    BY <1>3, <2>2, <2>3 DEF SubsOf
  <2> QED BY <1>5, <2>0, <2>1, <2>2, <2>3, <2>4
<1>8. Owed' = [Owed EXCEPT ![p] = Owed'[p]]
  <2>1. \A q \in Pods : q # p => Owed'[q] = Owed[q]
    BY <1>3 DEF Owed, SubsOf
  <2> HIDE DEF p
  <2> QED BY <1>0, <2>1 DEF Owed
<1>9. Kept' = Kept /\ Missed' = Missed /\ Telling' = Telling
  BY <1>1 DEF Kept, Missed, Telling
<1> HIDE DEF p
<1> QED BY <1>6, <1>7, <1>8, <1>9 DEF Broadcast!Settle, p

\* What a call does before its store, registering it, and reading it back are not
\* seen of the broadcast ...
LEMMA CallerUnseen ==
  ASSUME HInv, [CNext]_cvars, NEW t \in Threads, lost' = lost,
         \/ \E T \in Types, a \in Args : ThroughKeyed(t, T, a)
         \/ LookupHit(t) \/ LookupMiss(t) \/ Compute(t) \/ Register(t)
         \/ ReadBack(t) \/ ReadBackPanics(t) \/ LockPanics(t) \/ WritePanics(t)
  PROVE  UNCHANGED Broadcast!kvars
<1>0. CInv /\ PodOf[t] \in Pods /\ t # None
  BY CriticalAssumption DEF HInv
<1>1. UNCHANGED <<index, spc, msg, todo, redisVars>>
  BY DEF ThroughKeyed, LookupHit, LookupMiss, Compute, Register, ReadBack, ReadBackPanics,
     LockPanics, WritePanics, cacheVars, subVars
<1>2. Kept' = Kept /\ Owed' = Owed /\ Missed' = Missed
  BY <1>1, OwedUntouched DEF Kept, Missed
<1>3. CASE \/ \E T \in Types, a \in Args : ThroughKeyed(t, T, a)
           \/ LookupHit(t) \/ LookupMiss(t) \/ Compute(t) \/ LockPanics(t) \/ WritePanics(t)
  <2>1. /\ ~Storing(t) /\ writer' = writer
        /\ \A u \in Threads : u # t => pc'[u] = pc[u] /\ call'[u] = call[u]
    BY <1>0, <1>3 DEF ThroughKeyed, LookupHit, LookupMiss, Compute, LockPanics, WritePanics, Return, Panic,
       Goto, lockVars, Storing, CInv, CallTypes
  <2> QED BY <1>0, <1>2, <2>1, TellingKept DEF Broadcast!kvars
<1>4. CASE Register(t)
  <2>1. /\ writer' = writer /\ call' = call /\ pc[t] = "register"
        /\ pc' = [pc EXCEPT ![t] = "publish"]
    BY <1>4 DEF Register, Goto, lockVars
  <2>2. pc'[t] = "publish" /\ \A u \in Threads : u # t => pc'[u] = pc[u]
    BY <1>0, <2>1 DEF CInv, CallTypes
  <2>3. \A p \in Pods : writer[p] # None => writer[p] \in Threads
    BY <1>0 DEF CInv, StoresLock
  <2>4. Telling' = Telling
    BY <2>1, <2>2, <2>3 DEF Telling
  <2> QED BY <1>2, <2>4 DEF Broadcast!kvars
<1>5. CASE ReadBack(t) \/ ReadBackPanics(t)
  <2> DEFINE p == PodOf[t]
  <2>1. /\ writer' = [writer EXCEPT ![p] = None] /\ pc[t] = "readback"
        /\ \A u \in Threads : u # t => pc'[u] = pc[u] /\ call'[u] = call[u]
    BY <1>0, <1>5 DEF ReadBack, ReadBackPanics, Return, Panic, Goto, CInv, CallTypes
  <2>2. /\ writer[p] = t
        /\ \A q \in Pods : q # p /\ writer[q] # None => writer[q] \in Threads /\ writer[q] # t
    BY <1>0, <2>1 DEF CInv, StoresLock, Storing
  <2>3. writer'[p] = None /\ \A q \in Pods : q # p => writer'[q] = writer[q]
    BY <1>0, <2>1 DEF CInv, StoresLock
  <2>4. Telling' = Telling
    BY <2>1, <2>2, <2>3 DEF Telling
  <2> QED BY <1>2, <2>4 DEF Broadcast!kvars
<1> QED BY <1>3, <1>4, <1>5

\* ... nor is what a subscriber does between two messages.
LEMMA SubscriberUnseen ==
  ASSUME HInv, NEW s \in Subs, lost' = lost,
         \/ SpawnWorker(s) \/ StartSubscriber(s) \/ Snapshot(s) \/ Connect(s)
         \/ AwaitMessage(s) \/ ReadTimeout(s) \/ FinishMessage(s)
  PROVE  UNCHANGED Broadcast!kvars
<1>0. CInv
  BY DEF HInv
<1>1. UNCHANGED <<index, writer, pc, call>>
  BY DEF SpawnWorker, StartSubscriber, Snapshot, Connect, AwaitMessage, ReadTimeout,
     FinishMessage, cacheVars, lockVars, callVars
<1>2. Kept' = Kept /\ Missed' = Missed /\ Telling' = Telling
  BY <1>1 DEF Kept, Missed, Telling
<1>3. ASSUME NEW r \in Subs, r # s, NEW T \in Types, NEW a \in Args
      PROVE  Pending(r, T, a)' <=> Pending(r, T, a)
  BY <1>0, <1>3, OthersKept DEF Pending, InHand, Subscriber
<1>4. spc'[s] # "handling" /\ Unread(s)' = Unread(s)
  <2>1. CASE Connect(s)
    <3>1. inbox[s] = <<>>
      BY <1>0, <2>1 DEF Connect, CInv, SubscriberTypes, Connections, OnlySubscribedRead
    <3>2. inbox'[s] = <<>>
      BY <1>0, <2>1 DEF Connect, Subscribe, CInv, SubscriberTypes, Connections, RedisTypes
    <3> QED BY <1>0, <2>1, <3>1, <3>2 DEF Connect, SubGoto, Unread, CInv, SubscriberTypes
  <2>2. CASE ~Connect(s)
    <3>1. UNCHANGED redisVars
      BY <2>2 DEF SpawnWorker, StartSubscriber, Snapshot, AwaitMessage, ReadTimeout, FinishMessage
    <3>2. spc'[s] # "handling"
      BY <1>0, <2>2 DEF SpawnWorker, StartSubscriber, Snapshot, AwaitMessage, ReadTimeout,
         FinishMessage, SubGoto, CInv, SubscriberTypes
    <3> QED BY <3>1, <3>2 DEF Unread, redisVars
  <2> QED BY <2>1, <2>2
<1>5. \A T \in Types, a \in Args : ~InHand(s, T, a)
  <2>1. CASE FinishMessage(s)
    <3>1. ToSet(todo[s]) = {}
      BY <1>0, <2>1, ToSetFacts DEF FinishMessage, CInv, SubscriberTypes
    <3> QED BY <3>1 DEF InHand
  <2>2. CASE ~FinishMessage(s)
    BY <2>2 DEF InHand, SpawnWorker, StartSubscriber, Snapshot, Connect, AwaitMessage, ReadTimeout
  <2> QED BY <2>1, <2>2
<1>6. \A T \in Types, a \in Args : Pending(s, T, a)' <=> Pending(s, T, a)
  BY <1>4, <1>5 DEF Pending, InHand
<1>7. Owed' = Owed
  BY <1>3, <1>6, OwedKept
<1> QED BY <1>2, <1>7 DEF Broadcast!kvars

LEMMA EnvironmentUnseen ==
  ASSUME \/ \E p \in Pods : DropWorker(p)
         \/ \E i \in Ids : DbUpdate(i)
         \/ TimePasses \/ UNCHANGED cvars,
         lost' = lost
  PROVE  UNCHANGED Broadcast!kvars
<1>1. UNCHANGED <<index, writer, spc, msg, todo, redisVars, pc, call>>
  BY EnvironmentFrame DEF lockVars, subVars, callVars
<1> QED BY <1>1, OwedUntouched DEF Kept, Missed, Telling, Broadcast!kvars

LEMMA BroadcastStep ==
  ASSUME HInv, [CHNext]_hvars
  PROVE  [Broadcast!KNext]_Broadcast!kvars
<1>0. CInv /\ [CNext]_cvars
  BY HistoryStep DEF HInv
<1>1. ASSUME NEW t \in Threads, pc[t] = "store" \/ pc[t] = "publish"
      PROVE  PodOf[t] \in Pods /\ <<call[t].type, call[t].args>> \in Broadcast!TypedKeys
  BY <1>0, <1>1, CriticalAssumption DEF CInv, CallLocals, Broadcast!TypedKeys
<1>2. ASSUME NEW t \in Threads, StoreValue(t), lost' = lost
      PROVE  Broadcast!KNext
  <2>1. pc[t] = "store"
    BY <1>2 DEF StoreValue
  <2> QED BY <1>1, <1>2, <2>1, StoreRefines DEF Broadcast!KNext
<1>3. ASSUME NEW t \in Threads, Announced(t) \/ NotAnnounced(t)
      PROVE  Broadcast!KNext
  <2>1. pc[t] = "publish"
    BY <1>3 DEF Announced, NotAnnounced, Publish, SkipPublish
  <2> QED BY <1>1, <1>3, <2>1, TellRefines, TellNobodyRefines DEF Broadcast!KNext
<1>4. ASSUME NEW s \in Subs, Removed(s)
      PROVE  Broadcast!KNext
  <2>1. SubPod[s] \in Pods /\ <<Head(todo[s]), msg[s].args>> \in Broadcast!TypedKeys
    BY <1>0, <1>4, RemoveNextFacts DEF Removed, Broadcast!TypedKeys
  <2> QED BY <1>4, <2>1, DropRefines DEF Broadcast!KNext
<1>5. ASSUME NEW s \in Subs, Dropped(s)
      PROVE  Broadcast!KNext
  <2>1. SubPod[s] \in Pods
    BY CriticalAssumption
  <2> QED BY <1>5, <2>1, MissRefines DEF Broadcast!KNext
<1>6. ASSUME NEW s \in Subs, TakeMessage(s), lost' = lost
      PROVE  Broadcast!KNext
  <2>1. SubPod[s] \in Pods
    BY CriticalAssumption
  <2> QED BY <1>6, <2>1, SettleRefines DEF Broadcast!KNext
<1>7. ASSUME NEW t \in Threads, Begin(t)
      PROVE  UNCHANGED Broadcast!kvars
  BY <1>0, <1>7, CallerUnseen DEF Begin
<1>8. CASE Unrecorded
  <2>1. lost' = lost
    BY <1>8 DEF Unrecorded
  <2> QED BY <1>0, <1>2, <1>6, <1>8, <2>1, CallerUnseen, SubscriberUnseen, EnvironmentUnseen
       DEF Unrecorded
<1>9. CASE UNCHANGED hvars
  <2>1. UNCHANGED cvars /\ lost' = lost
    BY <1>9 DEF hvars
  <2> QED BY <2>1, EnvironmentUnseen
<1>10. ASSUME NEW p \in Pods, Forgotten(p)
       PROVE  Broadcast!KNext
  BY <1>10, ForgetRefines DEF Broadcast!KNext
<1> QED BY <1>3, <1>4, <1>5, <1>7, <1>8, <1>9, <1>10 DEF CHNext

\* after_store and subscriber_loop of critical.rs implement KeyedBroadcast, whatever
\* the pods, types, channels, calls, workers and broken connections.  Sweeps, commands
\* and callers drop keys of their pod as they like, but none that a call has stored
\* and not yet told of; and what a pod was told of it drops, unless it does not keep
\* it, has stored it anew and will be told again, or is put on record as missing it.
THEOREM BroadcastRefinement == CHSpec => BroadcastSpec
<1>1. CHInit => Broadcast!KInit
  <2> SUFFICES ASSUME CHInit
               PROVE  Broadcast!KInit
    OBVIOUS
  <2>1. Kept = [p \in Pods |-> {}] /\ Telling = [p \in Pods |-> None]
    BY DEF CHInit, CInit, EmptyIndex, Kept, Telling
  <2>2. \A s \in Subs, T \in Types, a \in Args : ~Pending(s, T, a)
    <3>1. \A s \in Subs : spc[s] = "unborn" /\ inbox[s] = <<>>
      BY DEF CHInit, CInit, RedisInit
    <3>2. <<>> \in Seq(Messages) /\ ToSet(<<>>) = {}
      BY EmptySeq, ToSetFacts
    <3> QED BY <3>1, <3>2 DEF Pending, InHand, Unread
  <2>3. Owed = [p \in Pods |-> {}]
    BY <2>2 DEF Owed, SubsOf
  <2>4. Missed = [p \in Pods |-> {}]
    BY DEF CHInit, Missed
  <2> QED BY <2>1, <2>3, <2>4 DEF Broadcast!KInit
<1>2. HInv /\ [CHNext]_hvars => [Broadcast!KNext]_Broadcast!kvars
  BY BroadcastStep
<1> QED BY <1>1, <1>2, HInvHolds, PTL DEF CHSpec, BroadcastSpec, Broadcast!KSpec
=============================================================================
