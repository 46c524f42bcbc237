-------------------------- MODULE ImcWorker_proofs --------------------------
(***************************************************************************)
(* What the cache keeps when workers sweep it and execute commands beside  *)
(* its callers, for every number of threads, workers and commands.  The    *)
(* inductive invariant is LockInv of ImcApi_proofs beside WorkerTypeOK: a  *)
(* worker's thread writes only when nobody is in the lock, and then only   *)
(* takes away; and WORKER_TX is set exactly while one handle is registered.*)
(***************************************************************************)
EXTENDS ImcWorker, ImcApi_proofs

-----------------------------------------------------------------------------
\* What a worker's thread does to the cache, it does alone, and it only takes away.
LEMMA WorkerWrites ==
  ASSUME LockInv, NEW w \in Workers, Execute(w) \/ Sweep(w)
  PROVE  /\ CanWrite /\ UNCHANGED <<apiRest, workerTx>>
         /\ data' \in DataMap /\ index' \in IndexMap
         /\ \A i \in Ids : data'[i] \in {data[i], None}
         /\ \A a \in Args : index'[a] \in {index[a], None}
<1>1. data \in DataMap /\ index \in IndexMap
  BY DEF LockInv, TypeOK
<1>2. CASE Execute(w)
  <2>1. /\ CanWrite /\ UNCHANGED <<apiRest, workerTx>>
        /\ \/ data' = RemoveData(data, job[w].id) /\ index' = index
           \/ data' = EmptyData /\ index' = EmptyIndex
    BY <1>2 DEF Execute
  <2> QED BY <1>1, <2>1 DEF RemoveData, EmptyData, EmptyIndex, DataMap, IndexMap
<1>3. CASE Sweep(w)
  <2>1. /\ CanWrite /\ UNCHANGED <<apiRest, workerTx>>
        /\ data' \in EvictedToMaxSize(WithoutAllExpired(data), strategy) /\ index' = Retained(index, data')
    BY <1>3 DEF Sweep
  <2>2. index' \in IndexMap /\ \A a \in Args : index'[a] \in {index[a], None}
    BY <1>1, <2>1 DEF Retained, Cached, IndexMap
  <2> QED BY <1>1, <2>1, <2>2, SweepFacts
<1> QED BY <1>2, <1>3

\* The size of the cache is a number.
LEMMA LenIsNat == CacheLen \in Nat
BY CachedFinite DEF CacheLen

-----------------------------------------------------------------------------
\* Nothing that beginning, using or dropping a worker does is felt in the lock.
LEMMA LockInvStep ==
  ASSUME LockInv, [WNext]_WVars
  PROVE  LockInv'
<1>1. ASSUME [Next]_vars
      PROVE  LockInv'
  BY <1>1, LockStep
<1>2. ASSUME NEW w \in Workers, Execute(w) \/ Sweep(w)
      PROVE  LockInv'
  <2>1. /\ CanWrite /\ UNCHANGED <<apiRest, workerTx>>
        /\ data' \in DataMap /\ index' \in IndexMap
    BY <1>2, WorkerWrites
  <2>2. TypeOK' /\ LocalsOK'
    BY <2>1, LockKept DEF LockInv, TypeOK, apiRest
  <2>3. HitHeld' /\ StoredValueReadable'
    BY <2>1, HeldByNone DEF apiRest
  <2> QED BY <2>2, <2>3 DEF LockInv
<1>3. ASSUME UNCHANGED <<data, index, strategy, clock, lockVars, db, pc, call>>,
             workerTx' \in BOOLEAN, calls' \in Nat
      PROVE  LockInv'
  <2>1. TypeOK' /\ LocalsOK'
    BY <1>3, LockKept DEF LockInv, TypeOK
  <2>2. HitHeld' /\ StoredValueReadable'
    BY <1>3 DEF LockInv, HitHeld, StoredValueReadable
  <2> QED BY <2>1, <2>2 DEF LockInv
<1>4. ASSUME NEW w \in Workers,
             Spawn(w) \/ SpawnFails(w) \/ DropUnregisters(w)
      PROVE  LockInv'
  <2>1. UNCHANGED <<data, index, apiRest>> /\ workerTx' \in BOOLEAN
    BY <1>4 DEF Spawn, SpawnFails, DropUnregisters
  <2> QED BY <1>3, <2>1 DEF LockInv, TypeOK, apiRest
<1>5. ASSUME (\E t \in Threads : ImcLen(t))
               \/ (\E w \in Workers, c \in Commands : Send(w, c))
      PROVE  LockInv'
  <2>1. UNCHANGED <<cacheVars, lockVars, workerTx, db, pc, call>> /\ calls' = calls + 1
    BY <1>5 DEF ImcLen, Send
  <2> QED BY <1>3, <2>1 DEF LockInv, TypeOK, cacheVars
<1>6. ASSUME NEW w \in Workers,
             \/ DropSends(w) \/ DropResetsGauge(w)
             \/ Receive(w) \/ ReceiveShutdown(w) \/ ReceiveTimeout(w)
             \/ Count(w) \/ SetGauge(w) \/ WorkerPanics(w)
      PROVE  LockInv'
  <2>1. UNCHANGED vars
    BY <1>6 DEF DropSends, DropResetsGauge, Receive, ReceiveShutdown,
       ReceiveTimeout, Count, SetGauge, WorkerPanics
  <2> QED BY <1>1, <2>1
<1>7. UNCHANGED WVars => UNCHANGED vars
  BY DEF WVars
<1> QED
  BY <1>1, <1>2, <1>4, <1>5, <1>6, <1>7 DEF WNext, DropProceeds, WorkerLoop

-----------------------------------------------------------------------------
\* WorkerTypeOK but for its first conjunct, in two parts: the types, with the
\* position of threads that have not begun, ...
WorkerTypes ==
  /\ spawned \in 0 .. MaxSpawns
  /\ handle \in [Workers -> HandleStates]
  /\ queue \in [Workers -> Seq(Commands)]
  /\ job \in [Workers -> Commands \cup {None}]
  /\ wpc \in [Workers -> WorkerSteps]
  /\ total \in [Workers -> Nat \cup {None}]
  /\ \A w \in Workers : wpc[w] = "gauge" <=> total[w] # None
  /\ entries \in Nat
  /\ \A w \in Workers : w > spawned => wpc[w] = "unborn"

\* ... and the registration.
Registration ==
  /\ \A w \in Workers : w > spawned <=> handle[w] = "none"
  /\ workerTx <=> \E w \in Workers : Registered(w)
  /\ \A v, w \in Workers : Registered(v) /\ Registered(w) => v = w

\* Commands are sent, received and executed in the order of a sequence of commands.
LEMMA QueueFacts ==
  ASSUME NEW q \in Seq(Commands)
  PROVE  /\ \A c \in Commands : Append(q, c) \in Seq(Commands)
         /\ q # <<>> => Head(q) \in Commands /\ Tail(q) \in Seq(Commands)
         /\ <<>> \in Seq(Commands) /\ Shutdown \in Commands
<1>1. Shutdown \in Commands
  BY DEF Shutdown, Commands
<1> QED BY <1>1

\* Every step keeps the types of the worker's variables.
LEMMA WorkerTypesStep ==
  ASSUME WorkerTypes, workerTx \in BOOLEAN, [WNext]_WVars
  PROVE  WorkerTypes'
<1> USE DEF WorkerTypes
<1> USE WorkerAssumption
<1>1. ASSUME UNCHANGED workerVars
      PROVE  WorkerTypes'
  BY <1>1 DEF workerVars, gaugeVars
<1>2. ASSUME NEW t \in Threads, ImcLen(t)
      PROVE  WorkerTypes'
  BY <1>2, LenIsNat DEF ImcLen
<1>3. ASSUME NEW w \in Workers, Spawn(w) \/ SpawnFails(w)
      PROVE  WorkerTypes'
  <2> DEFINE Begun ==
        /\ spawned' \in 0 .. MaxSpawns
        /\ handle' \in [Workers -> HandleStates] /\ wpc' \in [Workers -> WorkerSteps]
        /\ \A v \in Workers : wpc'[v] = "gauge" <=> total[v] # None
        /\ \A v \in Workers : v > spawned' => wpc'[v] = "unborn"
        /\ UNCHANGED <<queue, job, gaugeVars>>
  <2>1. Begun
    <3>1. spawned \in Nat /\ w = spawned + 1 /\ w \in 1 .. MaxSpawns /\ wpc[w] = "unborn"
      BY <1>3 DEF Spawn, SpawnFails, Workers
    <3>2. CASE Spawn(w)
      <4>1. /\ spawned' = w /\ handle' = [handle EXCEPT ![w] = "held"]
            /\ wpc' = [wpc EXCEPT ![w] = "receive"] /\ UNCHANGED <<queue, job, gaugeVars>>
        BY <3>2 DEF Spawn
      <4>2. handle' \in [Workers -> HandleStates] /\ wpc' \in [Workers -> WorkerSteps]
        BY <4>1 DEF HandleStates, WorkerSteps
      <4>3. \A v \in Workers : wpc'[v] = "gauge" <=> total[v] # None
        BY <3>1, <4>1
      <4>4. \A v \in Workers : v > spawned' => wpc'[v] = "unborn"
        BY <3>1, <4>1 DEF Workers
      <4> QED BY <3>1, <4>1, <4>2, <4>3, <4>4
    <3>3. CASE SpawnFails(w)
      <4>1. /\ spawned' = w /\ handle' = [handle EXCEPT ![w] = "failed"]
            /\ wpc' = wpc /\ UNCHANGED <<queue, job, gaugeVars>>
        BY <3>3 DEF SpawnFails
      <4> QED BY <3>1, <4>1 DEF Workers, HandleStates
    <3> QED BY <1>3, <3>2, <3>3
  <2> QED BY <2>1 DEF gaugeVars
<1>4. ASSUME NEW w \in Workers, NEW c \in Commands, Send(w, c)
      PROVE  WorkerTypes'
  <2>1. Append(queue[w], c) \in Seq(Commands)
    BY QueueFacts
  <2> QED BY <1>4, <2>1 DEF Send, gaugeVars
<1>5. ASSUME NEW w \in Workers, DropSends(w)
      PROVE  WorkerTypes'
  <2>1. queue' \in [Workers -> Seq(Commands)]
    <3>1. Append(queue[w], Shutdown) \in Seq(Commands)
      BY QueueFacts
    <3> QED BY <1>5, <3>1 DEF DropSends, ShutdownQueued
  <2> QED BY <1>5, <2>1 DEF DropSends, HandleStates, gaugeVars
<1>6. ASSUME NEW w \in Workers, DropUnregisters(w) \/ DropResetsGauge(w)
      PROVE  WorkerTypes'
  <2>1. /\ \E state \in HandleStates : handle' = [handle EXCEPT ![w] = state]
        /\ entries' \in {entries, 0}
        /\ UNCHANGED <<spawned, queue, job, wpc, total>>
    BY <1>6 DEF DropUnregisters, DropResetsGauge, HandleStates, gaugeVars
  <2> QED BY <2>1
<1>7. ASSUME NEW w \in Workers, Receive(w)
      PROVE  WorkerTypes'
  <2>1. Head(queue[w]) \in Commands /\ Tail(queue[w]) \in Seq(Commands)
    BY <1>7, QueueFacts DEF Receive
  <2> QED BY <1>7, <2>1 DEF Receive, WorkerGoto, WorkerSteps, gaugeVars
<1>8. ASSUME NEW w \in Workers, ReceiveShutdown(w) \/ ReceiveTimeout(w)
      PROVE  WorkerTypes'
  BY <1>8, QueueFacts DEF ReceiveShutdown, ReceiveTimeout, WorkerGoto, WorkerSteps, gaugeVars
<1>9. ASSUME NEW w \in Workers, Execute(w) \/ Sweep(w)
      PROVE  WorkerTypes'
  BY <1>9 DEF Execute, Sweep, WorkerGoto, WorkerSteps, gaugeVars
<1>10. ASSUME NEW w \in Workers, Count(w)
       PROVE  WorkerTypes'
  <2>1. CacheLen \in Nat /\ CacheLen # None
    BY LenIsNat, VersionAssumption
  <2> QED BY <1>10, <2>1 DEF Count, WorkerGoto, WorkerSteps
<1>11. ASSUME NEW w \in Workers, SetGauge(w)
       PROVE  WorkerTypes'
  BY <1>11 DEF SetGauge, WorkerGoto, WorkerSteps
<1>12. ASSUME NEW w \in Workers, WorkerPanics(w)
       PROVE  WorkerTypes'
  BY <1>12, QueueFacts DEF WorkerPanics, WorkerGoto, WorkerSteps, gaugeVars
<1>13. UNCHANGED WVars => UNCHANGED workerVars
  BY DEF WVars
<1> QED
  BY <1>1, <1>2, <1>3, <1>4, <1>5, <1>6, <1>7, <1>8, <1>9, <1>10, <1>11, <1>12, <1>13
  DEF WNext, DropProceeds, WorkerLoop

\* WORKER_TX is taken only when nobody has it and released by its holder.
LEMMA RegistrationStep ==
  ASSUME WorkerTypes, Registration, [WNext]_WVars
  PROVE  Registration'
<1> USE DEF WorkerTypes, Registration, Registered
<1>1. ASSUME UNCHANGED <<workerTx, handle, spawned>>
      PROVE  Registration'
  BY <1>1
<1>2. ASSUME NEW w \in Workers, Spawn(w) \/ SpawnFails(w)
      PROVE  Registration'
  <2>1. /\ w = spawned + 1 /\ ~workerTx /\ workerTx' = TRUE /\ spawned' = w
        /\ \E state \in {"held", "failed"} : handle' = [handle EXCEPT ![w] = state]
    BY <1>2 DEF Spawn, SpawnFails, Unregistered
  <2> QED BY <2>1 DEF Workers
<1>3. ASSUME NEW w \in Workers, DropSends(w)
      PROVE  Registration'
  <2>1. /\ handle[w] = "held" /\ handle' = [handle EXCEPT ![w] = "dropping"]
        /\ workerTx' = workerTx /\ spawned' = spawned
    BY <1>3 DEF DropSends, vars
  <2> QED BY <2>1
<1>4. ASSUME NEW w \in Workers, DropUnregisters(w)
      PROVE  Registration'
  <2>1. /\ handle[w] = "dropping" /\ handle' = [handle EXCEPT ![w] = "unregistered"]
        /\ workerTx' = FALSE /\ spawned' = spawned
    BY <1>4 DEF DropUnregisters
  <2> QED BY <2>1
<1>5. ASSUME NEW w \in Workers, DropResetsGauge(w)
      PROVE  Registration'
  <2>1. /\ handle[w] = "unregistered" /\ handle' = [handle EXCEPT ![w] = "dropped"]
        /\ workerTx' = workerTx /\ spawned' = spawned
    BY <1>5 DEF DropResetsGauge, vars
  <2> QED BY <2>1
<1>6. ASSUME NEW w \in Workers,
             (\E c \in Commands : Send(w, c)) \/ WorkerLoop(w)
      PROVE  UNCHANGED <<workerTx, handle, spawned>>
  BY <1>6 DEF WorkerLoop, Send, Receive, ReceiveShutdown, ReceiveTimeout, Execute, Sweep,
     Count, SetGauge, WorkerPanics, vars
<1>7. ASSUME NEW t \in Threads, ImcLen(t)
      PROVE  UNCHANGED <<workerTx, handle, spawned>>
  BY <1>7 DEF ImcLen
<1>8. ASSUME [Next]_vars, UNCHANGED workerVars
      PROVE  UNCHANGED <<workerTx, handle, spawned>>
  BY <1>8, RegistrationKept DEF workerVars
<1>9. UNCHANGED WVars => UNCHANGED <<vars, workerVars>>
  BY DEF WVars
<1> QED
  BY <1>1, <1>2, <1>3, <1>4, <1>5, <1>6, <1>7, <1>8, <1>9 DEF WNext, DropProceeds

-----------------------------------------------------------------------------
WorkerInv == LockInv /\ WorkerTypes /\ Registration

\* WorkerInv is inductive, and WorkerTypeOK is part of it.
LEMMA InitWorkerInv == WInit => WorkerInv
<1> SUFFICES ASSUME WInit PROVE WorkerInv
  OBVIOUS
<1>1. LockInv
  <2>1. IInv
    BY InitIInv DEF WInit
  <2> QED BY <2>1 DEF IInv, LockInv
<1>2. WorkerTypes
  <2>1. <<>> \in Seq(Commands)
    OBVIOUS
  <2> QED BY <2>1, WorkerAssumption DEF WInit, WorkerTypes, HandleStates, WorkerSteps, Workers
<1>3. Registration
  BY DEF WInit, Init, Registration, Registered, Workers
<1> QED BY <1>1, <1>2, <1>3 DEF WorkerInv

\* ... as every step of a caller, a worker's thread or its owner shows.
LEMMA NextWorkerInv == WorkerInv /\ [WNext]_WVars => WorkerInv'
<1> SUFFICES ASSUME WorkerInv, [WNext]_WVars PROVE WorkerInv'
  OBVIOUS
<1>1. LockInv'
  BY LockInvStep DEF WorkerInv
<1>2. WorkerTypes'
  BY WorkerTypesStep DEF WorkerInv, LockInv, TypeOK
<1>3. Registration'
  BY RegistrationStep DEF WorkerInv
<1> QED BY <1>1, <1>2, <1>3 DEF WorkerInv

\* WorkerInv holds throughout every behaviour.
THEOREM WorkerInvariance == WSpec => []WorkerInv
<1>1. WInit => WorkerInv
  BY InitWorkerInv
<1>2. WorkerInv /\ [WNext]_WVars => WorkerInv'
  BY NextWorkerInv
<1> QED BY <1>1, <1>2, PTL DEF WSpec

\* At most one worker is registered, and WORKER_TX tells whether one is.
THEOREM WorkerTypeCorrect == WSpec => []WorkerTypeOK
<1>1. WorkerInv => WorkerTypeOK
  BY DEF WorkerInv, LockInv, WorkerTypes, Registration, WorkerTypeOK
<1> QED BY <1>1, WorkerInvariance, PTL

\* Sweeps and commands take no entry from a reader that has found it ...
THEOREM HitsHeldUnderWorkers == WSpec => []HitHeld
<1>1. WorkerInv => HitHeld
  BY DEF WorkerInv, LockInv
<1> QED BY <1>1, WorkerInvariance, PTL

\* ... nor from a store that has not read it back.
THEOREM ReadableUnderWorkers == WSpec => []StoredValueReadable
<1>1. WorkerInv => StoredValueReadable
  BY DEF WorkerInv, LockInv
<1> QED BY <1>1, WorkerInvariance, PTL

-----------------------------------------------------------------------------
\* The steps of workers, their owner and imc_len() but for the writing ones leave cache
\* and callers alone.
LEMMA CacheUntouched ==
  ASSUME \/ \E t \in Threads : ImcLen(t)
         \/ \E w \in Workers :
              \/ Spawn(w) \/ SpawnFails(w) \/ (\E c \in Commands : Send(w, c))
              \/ DropSends(w) \/ DropUnregisters(w) \/ DropResetsGauge(w)
              \/ Receive(w) \/ ReceiveShutdown(w) \/ ReceiveTimeout(w)
              \/ Count(w) \/ SetGauge(w) \/ WorkerPanics(w)
         \/ UNCHANGED WVars
  PROVE  UNCHANGED <<cacheVars, lockVars, pc, call>>
<1>1. (\E t \in Threads : ImcLen(t)) => UNCHANGED <<cacheVars, lockVars, pc, call>>
  BY DEF ImcLen
<1>2. ASSUME NEW w \in Workers,
             \/ Spawn(w) \/ SpawnFails(w) \/ (\E c \in Commands : Send(w, c))
             \/ DropSends(w) \/ DropUnregisters(w) \/ DropResetsGauge(w)
             \/ Receive(w) \/ ReceiveShutdown(w) \/ ReceiveTimeout(w)
             \/ Count(w) \/ SetGauge(w) \/ WorkerPanics(w)
      PROVE  UNCHANGED <<cacheVars, lockVars, pc, call>>
  BY <1>2 DEF Spawn, SpawnFails, Send, DropSends, DropUnregisters, DropResetsGauge, Receive,
     ReceiveShutdown, ReceiveTimeout, Count, SetGauge, WorkerPanics, apiRest, vars, cacheVars
<1>3. UNCHANGED WVars => UNCHANGED <<cacheVars, lockVars, pc, call>>
  BY DEF WVars, vars
<1> QED BY <1>1, <1>2, <1>3

-----------------------------------------------------------------------------
\* Sweeps and commands hand out no access number and poison nothing.
LEMMA SharedWithWorkers == SharedInv /\ [WNext]_WVars => SharedInv'
<1> SUFFICES ASSUME SharedInv, [WNext]_WVars PROVE CacheInv'
  BY LockInvStep DEF SharedInv
<1>1. CASE [Next]_vars
  BY <1>1, SharedStep DEF SharedInv
<1>2. ASSUME NEW w \in Workers, Execute(w) \/ Sweep(w)
      PROVE  CacheInv'
  <2>1. ~poisoned /\ UNCHANGED <<clock, poisoned, pc, call>>
    BY <1>2 DEF Execute, Sweep, apiRest, lockVars
  <2>2. \A i \in Ids : data'[i] \in {data[i], None}
    BY <1>2, WorkerWrites DEF SharedInv
  <2> QED BY <2>1, <2>2, OutsideWriterKeeps
<1>3. ASSUME UNCHANGED <<cacheVars, lockVars, pc, call>>
      PROVE  CacheInv'
  BY <1>3, QuietStep DEF cacheVars, lockVars
<1> QED BY <1>1, <1>2, <1>3, CacheUntouched DEF WNext, DropProceeds, WorkerLoop

\* What every behaviour of callers and workers keeps.
THEOREM SharedInvariance == WSpec => []SharedInv
<1>1. WInit => SharedInv
  BY InitIInv DEF WInit, IInv, SharedInv, LockInv, CacheInv
<1>2. SharedInv /\ [WNext]_WVars => SharedInv'
  BY SharedWithWorkers
<1> QED BY <1>1, <1>2, PTL DEF WSpec

\* cache.rs, set() then get() in one lock: workers never take the value in between,
\* so that also beside them only expiry poisons the lock.
THEOREM OnlyExpiryPoisonsUnderWorkers == WSpec => []PoisonOnlyByExpiry
<1>1. SharedInv => PoisonOnlyByExpiry
  BY DEF SharedInv, CacheInv
<1> QED BY <1>1, SharedInvariance, PTL

\* cache.rs, evict_candidate(): what a sweep does to the entries leaves the accesses
\* of those it keeps apart, and the victim is one entry.
THEOREM UniqueVictimsUnderWorkers == WSpec => []VictimIsUnique
<1>1. SharedInv => VictimIsUnique
  BY DistinctStampsTell
<1> QED BY <1>1, SharedInvariance, PTL

-----------------------------------------------------------------------------
\* A sweep or a command is a loss of the abstract table.
LEMMA WorkerForgets ==
  ASSUME LockInv, NEW w \in Workers, Execute(w) \/ Sweep(w)
  PROVE  Memo!Forget
BY WorkerWrites, WriterForgets DEF apiRest

\* Workers do not keep the cache from implementing the table of one copy per
\* identity: what they do are losses.
THEOREM RefinementUnderWorkers == WSpec => MemoSpec
<1>1. WInit => Memo!MInit
  BY InitTable DEF WInit
<1>2. WorkerInv /\ [WNext]_WVars => [Memo!MNext]_Memo!mvars
  <2> SUFFICES ASSUME WorkerInv, [WNext]_WVars PROVE [Memo!MNext]_Memo!mvars
    OBVIOUS
  <2>1. CASE [Next]_vars
    BY <2>1, StepTable DEF WorkerInv
  <2>2. ASSUME NEW w \in Workers, Execute(w) \/ Sweep(w)
        PROVE  Memo!MNext
    BY <2>2, WorkerForgets DEF WorkerInv, Memo!MNext
  <2>3. UNCHANGED <<cacheVars, lockVars, pc, call>> => UNCHANGED Memo!mvars
    BY TableUntouched DEF cacheVars
  <2> QED BY <2>1, <2>2, <2>3, CacheUntouched DEF WNext, DropProceeds, WorkerLoop
<1> QED BY <1>1, <1>2, WorkerInvariance, PTL DEF WSpec, MemoSpec, Memo!MSpec

-----------------------------------------------------------------------------
\* Without a registered worker no step takes the cache above the limit, also
\* while threads of dropped workers still sweep.
LEMMA GrowthStep ==
  ASSUME LockInv, [WNext]_WVars, ~workerTx
  PROVE  \/ Cardinality(Cached(data')) <= Cardinality(Cached(data))
         \/ Cardinality(Cached(data')) <= Limit
<1>1. Cached(data') \subseteq Cached(data)
        => Cardinality(Cached(data')) <= Cardinality(Cached(data))
  BY CachedFinite
<1>2. ASSUME NEW t \in Threads, StoreValue(t)
      PROVE  \/ Cardinality(Cached(data')) <= Cardinality(Cached(data))
             \/ Cardinality(Cached(data')) <= Limit
  <2>1. /\ data \in DataMap /\ call[t].id \in Ids /\ call[t].ver \in Nat /\ clock \in Nat
        /\ data' \in SetOutcomes(data, call[t].id, call[t].ver, clock, strategy, ~workerTx)
    BY <1>2 DEF LockInv, TypeOK, LocalsOK, Locals, StoreValue
  <2>2. (~workerTx) = TRUE
    OBVIOUS
  <2>3. data' \in SetOutcomes(data, call[t].id, call[t].ver, clock, strategy, TRUE)
    BY <2>1, <2>2
  <2> QED BY <2>1, <2>3, SetWithinLimit
<1>3. ASSUME NEW w \in Workers, Execute(w) \/ Sweep(w)
      PROVE  Cached(data') \subseteq Cached(data)
  <2>1. \A i \in Ids : data'[i] \in {data[i], None}
    BY <1>3, WorkerWrites
  <2> QED BY <2>1 DEF Cached
<1>4. CASE [Next]_vars
  BY <1>1, <1>2, <1>4, CallerEntries
<1>5. UNCHANGED cacheVars => Cached(data') \subseteq Cached(data)
  BY DEF cacheVars
<1> QED
  BY <1>1, <1>3, <1>4, <1>5, CacheUntouched DEF WNext, DropProceeds, WorkerLoop

\* tests.rs, inline eviction resumes after drop.
THEOREM Growth == WSpec => GrowthOnlyUnderWorker
<1>1. WorkerInv /\ [WNext]_WVars =>
        (~workerTx =>
           \/ Cardinality(Cached(data')) <= Cardinality(Cached(data))
           \/ Cardinality(Cached(data')) <= IF MaxSize = 0 THEN 1 ELSE MaxSize)
  BY GrowthStep DEF WorkerInv, Limit
<1> QED BY <1>1, WorkerInvariance, PTL DEF WSpec, GrowthOnlyUnderWorker

-----------------------------------------------------------------------------
\* A failed spawn is registered, so that nothing is spawned or unregistered.
LEMMA FailedStays ==
  ASSUME WorkerInv, [WNext]_WVars, NEW f \in Workers, handle[f] = "failed"
  PROVE  workerTx /\ workerTx' /\ spawned' = spawned
<1>1. /\ workerTx
      /\ \A w \in Workers : Registered(w) => w = f
      /\ workerTx \in BOOLEAN
  BY DEF WorkerInv, Registration, Registered, LockInv, TypeOK
<1>2. ASSUME NEW w \in Workers, Spawn(w) \/ SpawnFails(w) \/ DropUnregisters(w)
      PROVE  FALSE
  <2>1. ~workerTx \/ handle[w] = "dropping"
    BY <1>2 DEF Spawn, SpawnFails, Unregistered, DropUnregisters
  <2>2. handle[w] = "dropping" => w = f
    BY <1>1 DEF Registered
  <2> QED BY <1>1, <2>1, <2>2
<1>3. ASSUME [Next]_vars, UNCHANGED workerVars
      PROVE  workerTx' = workerTx /\ spawned' = spawned
  BY <1>3, RegistrationKept DEF workerVars
<1>4. ASSUME NEW t \in Threads, ImcLen(t)
      PROVE  workerTx' = workerTx /\ spawned' = spawned
  BY <1>4 DEF ImcLen
<1>5. ASSUME NEW w \in Workers,
             \/ (\E c \in Commands : Send(w, c)) \/ WorkerLoop(w)
             \/ DropSends(w) \/ DropResetsGauge(w)
      PROVE  workerTx' = workerTx /\ spawned' = spawned
  BY <1>5 DEF WorkerLoop, Send, DropSends, DropResetsGauge, Receive, ReceiveShutdown,
     ReceiveTimeout, Execute, Sweep, Count, SetGauge, WorkerPanics, vars
<1>6. UNCHANGED WVars => UNCHANGED <<vars, workerVars>>
  BY DEF WVars
<1> QED
  BY <1>1, <1>2, <1>3, <1>4, <1>5, <1>6 DEF WNext, DropProceeds

\* Once the threads of earlier workers have ended, only calls take entries away
\* from a cache whose worker is registered.
LEMMA NothingSwept ==
  ASSUME WorkerInv, [WNext]_WVars, workerTx, calls' = calls,
         \A w \in Workers : wpc[w] \in Ended
  PROVE  \A i \in Ids : data[i] # None => data'[i] # None
<1>1. ASSUME [Next]_vars
      PROVE  Cached(data) \subseteq Cached(data')
  BY <1>1, CallerEntries DEF WorkerInv
<1>2. ASSUME NEW w \in Workers
      PROVE  ~Execute(w) /\ ~Sweep(w)
  BY <1>2 DEF Execute, Sweep, Ended
<1>3. UNCHANGED cacheVars => data' = data
  BY DEF cacheVars
<1>4. Cached(data) \subseteq Cached(data')
  BY <1>1, <1>2, <1>3, CacheUntouched DEF WNext, DropProceeds, WorkerLoop
<1> QED BY <1>4 DEF Cached

\* A spawn that panicked after it had registered its worker leaves the process
\* without sweep and without inline eviction, and no later spawn mends it.
THEOREM FailedSpawn == WSpec => FailedSpawnIsForGood
<1>1. WorkerInv /\ [WNext]_WVars =>
        ((\E w \in Workers : handle[w] = "failed") =>
           /\ workerTx' /\ spawned' = spawned
           /\ ((\A w \in Workers : wpc[w] \in Ended) /\ calls' = calls) =>
                \A i \in Ids : data[i] # None => data'[i] # None)
  BY FailedStays, NothingSwept
<1> QED BY <1>1, WorkerInvariance, PTL DEF WSpec, FailedSpawnIsForGood

-----------------------------------------------------------------------------
\* A worker replaces no copy, and one that finds the lock poisoned writes nothing.
LEMMA WorkersReplaceNothing ==
  ASSUME LockInv, [WNext]_WVars
  PROVE  /\ \A i \in Ids : (data[i] # None /\ data'[i] # None /\ data[i].ver # data'[i].ver)
                           => Expired(data[i])
         /\ poisoned => poisoned' /\ Cached(data') = Cached(data) /\ index' = index
<1>1. CASE Next
  BY <1>1, CopyKeptStep, DeadStep
<1>2. ASSUME NEW w \in Workers, Execute(w) \/ Sweep(w)
      PROVE  ~poisoned /\ \A i \in Ids : data'[i] \in {data[i], None}
  <2>1. ~poisoned
    BY <1>2 DEF Execute, Sweep
  <2> QED BY <1>2, <2>1, WorkerWrites
<1>3. ASSUME UNCHANGED <<cacheVars, lockVars, pc, call>>
      PROVE  data' = data /\ index' = index /\ poisoned' = poisoned
  BY <1>3 DEF cacheVars, lockVars
<1> QED
  BY <1>1, <1>2, <1>3, CacheUntouched DEF WNext, DropProceeds, WorkerLoop

\* The copy stored first stays canonical, also when workers sweep.
THEOREM CanonicalCopyUnderWorkers == WSpec => CanonicalCopyKept
<1>1. WorkerInv /\ [WNext]_WVars =>
        [\A i \in Ids : (data[i] # None /\ data'[i] # None /\ data[i].ver # data'[i].ver)
                        => Expired(data[i])]_vars
  BY WorkersReplaceNothing DEF WorkerInv
<1> QED BY <1>1, WorkerInvariance, PTL DEF WSpec, CanonicalCopyKept

\* One panic under the write lock stops the workers, too: no sweep and no command
\* touches the cache any more.
THEOREM PoisonIsFinalUnderWorkers == WSpec => DeadAfterPoison
<1>1. WorkerInv /\ [WNext]_WVars => [poisoned =>
        poisoned' /\ Cached(data') = Cached(data) /\ index' = index]_vars
  BY WorkersReplaceNothing DEF WorkerInv
<1> QED BY <1>1, WorkerInvariance, PTL DEF WSpec, DeadAfterPoison

-----------------------------------------------------------------------------
\* What is left when entries are taken out.
LEMMA WithoutFacts ==
  ASSUME NEW d \in DataMap, NEW gone \in SUBSET Cached(d)
  PROVE  /\ Cached(Without(d, gone)) = Cached(d) \ gone
         /\ \A i \in Cached(d) \ gone : Without(d, gone)[i] = d[i]
BY DEF Without, Cached

\* The victims of one eviction after the other are as many as the excess, for no
\* entry goes twice, and each was before those that stay in the strategy's order.
LEMMA EvictionFacts ==
  ASSUME NEW d \in DataMap, NEW e \in EvictedToMaxSize(d, strategy), Cardinality(Cached(d)) > MaxSize
  PROVE  /\ Cardinality(Cached(e)) = MaxSize
         /\ \A v \in Cached(d) \ Cached(e), k \in Cached(e) : EvictedBefore(d[v], d[k], strategy)
<1> DEFINE excess == Cardinality(Cached(d)) - MaxSize
<1>1. /\ IsFiniteSet(Cached(d)) /\ Cardinality(Cached(d)) \in Nat /\ MaxSize \in Nat
      /\ excess \in Int
  <2>1. Cardinality(Cached(d)) \in Nat /\ IsFiniteSet(Cached(d))
    BY CachedFinite
  <2> QED BY <2>1, CacheAssumption
<1>2. excess > 0
  BY <1>1
<1>3. PICK vs \in [1 .. excess -> Cached(d)] :
        /\ \A k \in 1 .. excess :
             vs[k] \in EvictCandidates(Without(d, {vs[j] : j \in 1 .. k - 1}), strategy)
        /\ e = Without(d, {vs[k] : k \in 1 .. excess})
  BY <1>2 DEF EvictedToMaxSize
<1> HIDE DEF excess
<1> DEFINE gone == {vs[k] : k \in 1 .. excess}
           before(k) == {vs[j] : j \in 1 .. k - 1}
<1>4. gone \in SUBSET Cached(d) /\ e = Without(d, gone)
  BY <1>3
<1>5. ASSUME NEW k \in 1 .. excess
      PROVE  /\ vs[k] \in Cached(d) \ before(k)
             /\ \A j \in Cached(d) \ before(k) : EvictedBefore(d[vs[k]], d[j], strategy)
  <2>1. before(k) \in SUBSET Cached(d)
    BY <1>1, <1>3
  <2>2. Cached(Without(d, before(k))) = Cached(d) \ before(k)
    BY <2>1, WithoutFacts
  <2>3. \A i \in Cached(d) \ before(k) : Without(d, before(k))[i] = d[i]
    BY <2>1, WithoutFacts
  <2>4. vs[k] \in EvictCandidates(Without(d, before(k)), strategy)
    BY <1>3
  <2> QED BY <2>2, <2>3, <2>4 DEF EvictCandidates
<1>6. Cached(e) = Cached(d) \ gone
  BY <1>4, WithoutFacts
<1>7. Cardinality(gone) = excess
  <2>1. ASSUME NEW j \in 1 .. excess, NEW k \in 1 .. excess, vs[j] = vs[k], j < k
        PROVE  FALSE
    <3>1. j \in 1 .. k - 1
      BY <1>1, <2>1
    <3>2. vs[k] \in before(k)
      BY <2>1, <3>1
    <3> QED BY <1>5, <3>2
  <2>2. \A j, k \in 1 .. excess : vs[j] = vs[k] => j = k
    <3> SUFFICES ASSUME NEW j \in 1 .. excess, NEW k \in 1 .. excess, vs[j] = vs[k]
                 PROVE  j = k
      OBVIOUS
    <3>1. j < k \/ k < j \/ j = k
      BY <1>1
    <3> QED BY <2>1, <3>1
  <2>3. vs \in Surjection(1 .. excess, gone) /\ vs \in Injection(1 .. excess, gone)
    BY <1>3, <2>2 DEF Surjection, Injection, IsInjective
  <2>4. IsFiniteSet(1 .. excess) /\ Cardinality(1 .. excess) = excess
    <3>1. ~(1 > excess) /\ excess - 1 + 1 = excess
      BY <1>1, <1>2
    <3> QED BY <1>1, <3>1, FS_Interval
  <2> QED BY <2>3, <2>4, FS_Surjection
<1>8. Cardinality(Cached(e)) = MaxSize
  <2>1. Cardinality(Cached(d) \ gone) = Cardinality(Cached(d)) - Cardinality(Cached(d) \cap gone)
    BY <1>1, FS_Difference
  <2>2. Cached(d) \cap gone = gone
    BY <1>4
  <2>3. Cardinality(Cached(e)) = Cardinality(Cached(d)) - excess
    BY <1>6, <1>7, <2>1, <2>2
  <2> HIDE DEF gone
  <2> QED BY <1>1, <2>3 DEF excess
<1>9. ASSUME NEW v \in Cached(d) \ Cached(e), NEW k \in Cached(e)
      PROVE  EvictedBefore(d[v], d[k], strategy)
  <2>1. PICK n \in 1 .. excess : v = vs[n]
    BY <1>6
  <2>2. before(n) \subseteq gone
    BY <1>1
  <2> QED BY <1>5, <1>6, <2>1, <2>2
<1> QED BY <1>8, <1>9

\* evict_to_max_size() keeps what the strategy prefers and no more than the limit.
THEOREM EvictionFollows == WSpec => []SweepFollowsStrategy
<1>1. WorkerInv => SweepFollowsStrategy
  <2> SUFFICES ASSUME WorkerInv, NEW d \in EvictedToMaxSize(data, strategy)
               PROVE  /\ IF Cardinality(Cached(data)) > MaxSize
                         THEN Cardinality(Cached(d)) = MaxSize ELSE d = data
                      /\ \A v \in Cached(data) \ Cached(d), k \in Cached(d) :
                           CASE strategy = "Lru"  -> data[v].last <= data[k].last
                             [] strategy = "Mru"  -> data[v].last >= data[k].last
                             [] strategy = "Lfu"  -> data[v].count <= data[k].count
                             [] strategy = "Mfu"  -> data[v].count >= data[k].count
                             [] strategy = "Fifo" -> data[v].inserted <= data[k].inserted
    BY DEF SweepFollowsStrategy
  <2>1. data \in DataMap /\ strategy \in Strategies
    BY DEF WorkerInv, LockInv, TypeOK
  <2>2. /\ Cardinality(Cached(data)) \in Nat /\ MaxSize \in Nat
        /\ Cardinality(Cached(data)) > MaxSize <=> Cardinality(Cached(data)) - MaxSize > 0
    <3>1. Cardinality(Cached(data)) \in Nat
      BY CachedFinite
    <3> QED BY <3>1, CacheAssumption
  <2>3. CASE Cardinality(Cached(data)) > MaxSize
    <3>1. Cardinality(Cached(d)) = MaxSize
      BY <2>1, <2>3, EvictionFacts
    <3>2. ASSUME NEW v \in Cached(data) \ Cached(d), NEW k \in Cached(d)
          PROVE  EvictedBefore(data[v], data[k], strategy)
      BY <2>1, <2>3, <3>2, EvictionFacts
    <3> QED BY <2>1, <2>3, <3>1, <3>2 DEF EvictedBefore, Rank, Strategies
  <2>4. CASE ~(Cardinality(Cached(data)) > MaxSize)
    <3>1. d = data
      BY <2>2, <2>4 DEF EvictedToMaxSize
    <3> QED BY <2>4, <3>1
  <2> QED BY <2>3, <2>4
<1> QED BY <1>1, WorkerInvariance, PTL
-----------------------------------------------------------------------------
\* The removals of a queue before its first Shutdown, and a command in hand.
Ahead(q) ==
  {i \in Ids : \E n \in DOMAIN q : q[n] = Remove(i) /\ \A m \in 1 .. n : q[m] # Shutdown}

JobInv == \A w \in Workers : job[w] # None => wpc[w] = "execute"

\* What is sent goes behind what is queued, and what is received is the first.
LEMMA AheadFacts ==
  ASSUME NEW q \in Seq(Commands), NEW i \in Ahead(q)
  PROVE  /\ \A c \in Commands : i \in Ahead(Append(q, c))
         /\ q # <<>> /\ Head(q) # Shutdown
         /\ Head(q) = Remove(i) \/ i \in Ahead(Tail(q))
<1>1. PICK n \in DOMAIN q : q[n] = Remove(i) /\ \A m \in 1 .. n : q[m] # Shutdown
  BY DEF Ahead
<1>2. /\ n \in 1 .. Len(q) /\ Len(q) \in Nat /\ DOMAIN q = 1 .. Len(q)
      /\ i \in Ids /\ Head(q) = q[1] /\ q # <<>>
  BY <1>1 DEF Ahead
<1>3. ASSUME NEW c \in Commands
      PROVE  i \in Ahead(Append(q, c))
  <2> DEFINE p == Append(q, c)
  <2>1. n \in DOMAIN p /\ \A m \in 1 .. n : p[m] = q[m]
    BY <1>2
  <2> HIDE DEF p
  <2>2. p[n] = Remove(i) /\ \A m \in 1 .. n : p[m] # Shutdown
    BY <1>1, <1>2, <2>1
  <2> QED BY <1>2, <2>1, <2>2 DEF Ahead, p
<1>4. Head(q) # Shutdown
  BY <1>1, <1>2
<1>5. CASE n = 1
  BY <1>1, <1>2, <1>3, <1>4, <1>5
<1>6. CASE n # 1
  <2> DEFINE p == Tail(q)
  <2>1. n - 1 \in DOMAIN p /\ \A m \in 1 .. n - 1 : p[m] = q[m + 1]
    BY <1>2, <1>6
  <2> HIDE DEF p
  <2>2. p[n - 1] = Remove(i) /\ \A m \in 1 .. n - 1 : p[m] # Shutdown
    <3>1. n - 1 \in 1 .. n - 1 /\ (n - 1) + 1 = n /\ \A m \in 1 .. n - 1 : m + 1 \in 1 .. n
      BY <1>2, <1>6
    <3> QED BY <1>1, <2>1, <3>1
  <2>3. i \in Ahead(p)
    BY <1>2, <2>1, <2>2 DEF Ahead
  <2> QED BY <1>2, <1>3, <1>4, <2>3 DEF p
<1> QED BY <1>5, <1>6

\* A thread has a command in hand only until it has executed it or dies.
LEMMA JobStep ==
  ASSUME WorkerTypes, JobInv, [WNext]_WVars
  PROVE  JobInv'
<1>1. wpc \in [Workers -> WorkerSteps] /\ job \in [Workers -> Commands \cup {None}]
  BY DEF WorkerTypes
<1>2. ASSUME UNCHANGED <<job, wpc>>
      PROVE  JobInv'
  BY <1>2 DEF JobInv
<1>3. ASSUME NEW w \in Workers, Spawn(w)
      PROVE  JobInv'
  <2>1. wpc[w] = "unborn" /\ job' = job /\ wpc' = [wpc EXCEPT ![w] = "receive"]
    BY <1>3 DEF Spawn, WorkerTypes, Workers
  <2> QED BY <1>1, <2>1 DEF JobInv
<1>4. ASSUME NEW w \in Workers, WorkerLoop(w)
      PROVE  JobInv'
  <2>1. \/ job' = job /\ wpc[w] # "execute" /\ \E step : wpc' = [wpc EXCEPT ![w] = step]
        \/ wpc' = [wpc EXCEPT ![w] = "execute"] /\ job' = [job EXCEPT ![w] = Head(queue[w])]
        \/ job' = [job EXCEPT ![w] = None] /\ \E step : wpc' = [wpc EXCEPT ![w] = step]
    BY <1>4 DEF WorkerLoop, Receive, ReceiveShutdown, ReceiveTimeout, Execute, Sweep, Count,
       SetGauge, WorkerPanics, WorkerGoto
  <2> QED BY <1>1, <2>1 DEF JobInv
<1>5. ASSUME NEW w \in Workers,
             SpawnFails(w) \/ (\E c \in Commands : Send(w, c)) \/ DropSends(w) \/ DropProceeds(w)
      PROVE  UNCHANGED <<job, wpc>>
  BY <1>5 DEF SpawnFails, Send, DropSends, DropProceeds, DropUnregisters, DropResetsGauge
<1>6. (UNCHANGED workerVars \/ (\E t \in Threads : ImcLen(t)) \/ UNCHANGED WVars) =>
        UNCHANGED <<job, wpc>>
  BY DEF workerVars, ImcLen, WVars
<1> QED BY <1>2, <1>3, <1>4, <1>5, <1>6 DEF WNext

\* What QueuedRemoveKept asks of a step for one worker and one entry.
RemovalKept(w, i) ==
  /\ i \in Ahead(queue[w]) => i \in Ahead(queue'[w]) \/ job'[w] = Remove(i)
  /\ job[w] = Remove(i) => job'[w] = Remove(i) \/ data'[i] = None

\* A step neither overtakes a queued removal nor drops one in hand.
LEMMA QueuedRemovalStep ==
  ASSUME WorkerInv, JobInv, [WNext]_WVars,
         NEW u \in Workers, NEW i \in Ids, wpc'[u] # "died"
  PROVE  RemovalKept(u, i)
<1>1. /\ wpc \in [Workers -> WorkerSteps] /\ job \in [Workers -> Commands \cup {None}]
      /\ queue \in [Workers -> Seq(Commands)] /\ queue[u] \in Seq(Commands)
      /\ Shutdown \in Commands /\ DOMAIN data = Ids
  BY DEF WorkerInv, LockInv, TypeOK, DataMap, WorkerTypes, Shutdown, Commands
<1>2. ASSUME UNCHANGED <<queue, job>>
      PROVE  RemovalKept(u, i)
  BY <1>2 DEF RemovalKept
<1>3. ASSUME NEW v \in Workers, (\E c \in Commands : Send(v, c)) \/ DropSends(v)
      PROVE  RemovalKept(u, i)
  <2>1. /\ job' = job
        /\ \/ queue' = queue
           \/ \E c \in Commands : queue' = [queue EXCEPT ![v] = Append(@, c)]
    BY <1>1, <1>3 DEF Send, DropSends, ShutdownQueued
  <2>2. queue'[u] = queue[u] \/ \E c \in Commands : queue'[u] = Append(queue[u], c)
    BY <1>1, <2>1
  <2> QED BY <1>1, <2>1, <2>2, AheadFacts DEF RemovalKept
<1>4. ASSUME NEW v \in Workers, Receive(v)
      PROVE  RemovalKept(u, i)
  <2>1. /\ wpc[v] = "receive"
        /\ queue' = [queue EXCEPT ![v] = Tail(@)] /\ job' = [job EXCEPT ![v] = Head(queue[v])]
    BY <1>4 DEF Receive
  <2>2. CASE v = u
    <3>1. job[u] = None /\ Remove(i) # None
      <4>1. job[u] = None
        BY <2>1, <2>2 DEF JobInv
      <4>2. Remove(i) \in Commands
        BY DEF Remove, Commands
      <4> QED BY <4>1, <4>2, WorkerAssumption
    <3>2. queue'[u] = Tail(queue[u]) /\ job'[u] = Head(queue[u])
      BY <1>1, <2>1, <2>2
    <3> QED BY <1>1, <3>1, <3>2, AheadFacts DEF RemovalKept
  <2>3. CASE v # u
    BY <1>1, <2>1, <2>3 DEF RemovalKept
  <2> QED BY <2>2, <2>3
<1>5. ASSUME NEW v \in Workers, ReceiveShutdown(v)
      PROVE  RemovalKept(u, i)
  <2>1. Head(queue[v]) = Shutdown /\ queue' = [queue EXCEPT ![v] = <<>>] /\ job' = job
    BY <1>5 DEF ReceiveShutdown
  <2>2. v = u => i \notin Ahead(queue[u])
    BY <1>1, <2>1, AheadFacts
  <2>3. v # u => queue'[u] = queue[u]
    BY <1>1, <2>1
  <2> QED BY <2>1, <2>2, <2>3 DEF RemovalKept
<1>6. ASSUME NEW v \in Workers, Execute(v)
      PROVE  RemovalKept(u, i)
  <2>1. /\ queue' = queue /\ job' = [job EXCEPT ![v] = None]
        /\ data' = IF job[v].op = "Remove" THEN RemoveData(data, job[v].id) ELSE EmptyData
    BY <1>6 DEF Execute
  <2>2. v = u /\ job[u] = Remove(i) => data'[i] = None
    BY <1>1, <2>1 DEF Remove, RemoveData
  <2>3. v # u => job'[u] = job[u]
    BY <1>1, <2>1
  <2> QED BY <2>1, <2>2, <2>3 DEF RemovalKept
<1>7. ASSUME NEW v \in Workers, WorkerPanics(v)
      PROVE  RemovalKept(u, i)
  <2>1. /\ wpc' = [wpc EXCEPT ![v] = "died"] /\ queue' = [queue EXCEPT ![v] = <<>>]
        /\ job' = [job EXCEPT ![v] = None]
    BY <1>7 DEF WorkerPanics, WorkerGoto
  <2>2. v # u
    BY <1>1, <2>1
  <2> QED BY <1>1, <2>1, <2>2 DEF RemovalKept
<1>8. ASSUME NEW v \in Workers,
             \/ Spawn(v) \/ SpawnFails(v) \/ DropProceeds(v) \/ ReceiveTimeout(v)
             \/ Sweep(v) \/ Count(v) \/ SetGauge(v)
      PROVE  UNCHANGED <<queue, job>>
  BY <1>8 DEF Spawn, SpawnFails, DropProceeds, DropUnregisters, DropResetsGauge,
     ReceiveTimeout, Sweep, Count, SetGauge
<1>9. (UNCHANGED workerVars \/ (\E t \in Threads : ImcLen(t)) \/ UNCHANGED WVars) =>
        UNCHANGED <<queue, job>>
  BY DEF workerVars, ImcLen, WVars
<1>10. ASSUME NEW v \in Workers, WorkerLoop(v)
       PROVE  RemovalKept(u, i)
  BY <1>2, <1>4, <1>5, <1>6, <1>7, <1>8, <1>10 DEF WorkerLoop
<1>11. ASSUME NEW v \in Workers, Spawn(v) \/ SpawnFails(v) \/ DropProceeds(v)
       PROVE  RemovalKept(u, i)
  BY <1>2, <1>8, <1>11
<1>12. ASSUME UNCHANGED workerVars \/ (\E t \in Threads : ImcLen(t)) \/ UNCHANGED WVars
       PROVE  RemovalKept(u, i)
  BY <1>2, <1>9, <1>12
<1> QED BY <1>3, <1>10, <1>11, <1>12 DEF WNext

\* worker.rs, remove() and drop(): a removal accepted by a worker's channel comes
\* before its Shutdown, and the entry is gone before the thread takes up anything
\* else, unless the lock is poisoned.
THEOREM QueuedRemovals == WSpec => QueuedRemoveKept
<1>1. WInit => JobInv
  BY DEF WInit, JobInv
<1>2. WorkerInv /\ JobInv /\ [WNext]_WVars => JobInv'
  BY JobStep DEF WorkerInv
<1>3. WorkerInv /\ JobInv /\ [WNext]_WVars =>
        [\A w \in Workers, i \in Ids : wpc'[w] # "died" =>
           /\ i \in RemovalsAhead(w) => i \in RemovalsAhead(w)' \/ job'[w] = Remove(i)
           /\ job[w] = Remove(i) => job'[w] = Remove(i) \/ data'[i] = None]_WVars
  <2> SUFFICES ASSUME WorkerInv, JobInv, [WNext]_WVars,
                      NEW u \in Workers, NEW i \in Ids, wpc'[u] # "died"
               PROVE  /\ i \in RemovalsAhead(u) => i \in RemovalsAhead(u)' \/ job'[u] = Remove(i)
                      /\ job[u] = Remove(i) => job'[u] = Remove(i) \/ data'[i] = None
    OBVIOUS
  <2>1. RemovalsAhead(u) = Ahead(queue[u]) /\ RemovalsAhead(u)' = Ahead(queue'[u])
    BY DEF RemovalsAhead, Ahead
  <2> QED BY <2>1, QueuedRemovalStep DEF RemovalKept
<1> QED BY <1>1, <1>2, <1>3, WorkerInvariance, PTL DEF WSpec, QueuedRemoveKept
=============================================================================
