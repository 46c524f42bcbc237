--------------------------- MODULE ImcApi_proofs ---------------------------
(***************************************************************************)
(* The safety properties of ImcApi for every number of threads, arguments  *)
(* and identities, every capacity, time-to-live and strategy.  They follow *)
(* from one inductive invariant, IInv.  Its first part, LockInv, is        *)
(* inductive by itself:                                                    *)
(*   TypeOK            also says who holds the lock;                       *)
(*   LocalsOK          what a call knows at each of its steps;             *)
(*   HitHeld, StoredValueReadable                                          *)
(*                     what a thread in the lock has found or stored stays.*)
(* SharedInv adds                                                          *)
(*   StampsDistinct    no two accesses, stored or pending, share a number; *)
(*   PoisonOnlyByExpiry                                                    *)
(* and is inductive, too.  Neither needs inline eviction, so that the      *)
(* proofs about workers and subscribers use both.  The rest of IInv is     *)
(*   NoWorker          nothing in this module spawns a worker;             *)
(* and WithinCapacity, which follows from it.  The second part of this     *)
(* module proves that ImcApi implements MemoTable.                         *)
(***************************************************************************)
EXTENDS ImcApi, PerTypeCache_proofs

LocalsOK ==
  \A t \in Threads :
    /\ pc[t] \notin {"idle", "panicked"} => call[t].args \in Args
    /\ pc[t] \in {"tick", "stamp", "store", "readback"} => call[t].id \in Ids

NoWorker == workerTx = FALSE

StampsDistinct ==
  /\ \A i \in Cached(data) : data[i].last < clock /\ data[i].inserted < clock
  /\ \A i, j \in Cached(data) : i # j =>
       data[i].last # data[j].last /\ data[i].inserted # data[j].inserted
  /\ \A t \in Threads : pc[t] = "stamp" =>
       /\ call[t].stamp < clock
       /\ \A i \in Cached(data) : data[i].last # call[t].stamp
  /\ \A s, t \in Threads : s # t /\ pc[s] = "stamp" /\ pc[t] = "stamp" =>
       call[s].stamp # call[t].stamp

LockInv   == TypeOK /\ LocalsOK /\ HitHeld /\ StoredValueReadable
CacheInv  == StampsDistinct /\ PoisonOnlyByExpiry
SharedInv == LockInv /\ CacheInv

IInv ==
  /\ TypeOK
  /\ LocalsOK
  /\ HitHeld
  /\ NoWorker
  /\ StampsDistinct
  /\ StoredValueReadable
  /\ PoisonOnlyByExpiry
  /\ WithinCapacity

-----------------------------------------------------------------------------
\* The initial state satisfies every conjunct.
LEMMA InitIInv == Init => IInv
<1> SUFFICES ASSUME Init PROVE IInv
  OBVIOUS
<1>1. TypeOK
  <2>1. /\ strategy \in Strategies
        /\ clock \in Nat \ {0}
        /\ db \in [Ids -> Nat] /\ calls \in Nat
    BY ApiAssumption DEF Init
  <2>5. poisoned \in BOOLEAN /\ workerTx \in BOOLEAN
    BY DEF Init
  <2>2. data \in DataMap /\ index \in IndexMap
    BY DEF Init, DataMap, IndexMap, EmptyData, EmptyIndex
  <2>3. pc \in [Threads -> Steps] /\ call \in [Threads -> Locals]
    BY DEF Init, Steps, Locals, NoCall
  <2>4. /\ readers = {t \in Threads : pc[t] \in {"tick", "stamp"}}
        /\ writer \in Threads \cup {None}
        /\ \A t \in Threads : pc[t] = "readback" <=> writer = t
        /\ writer # None => readers = {}
    <3>1. \A t \in Threads : pc[t] = "idle"
      BY DEF Init
    <3>2. \A t \in Threads : t # None
      BY ApiAssumption
    <3>3. readers = {} /\ writer = None
      BY DEF Init
    <3> QED BY <3>1, <3>2, <3>3
  <2> QED BY <2>1, <2>2, <2>3, <2>4, <2>5 DEF TypeOK
<1>2. Cached(data) = {}
  BY DEF Init, EmptyData, Cached
<1>3. Cardinality(Cached(data)) = 0
  BY <1>2, FS_EmptySet
<1>4. LocalsOK /\ HitHeld /\ NoWorker /\ StoredValueReadable /\ PoisonOnlyByExpiry
  BY DEF Init, LocalsOK, HitHeld, NoWorker, StoredValueReadable, PoisonOnlyByExpiry
<1>5. StampsDistinct
  BY <1>2 DEF Init, StampsDistinct
<1>6. WithinCapacity
  BY <1>3, CacheAssumption DEF WithinCapacity
<1> QED BY <1>1, <1>4, <1>5, <1>6 DEF IInv

\* Every step keeps the types, the lock's books and what a call knows.
LEMMA TypeStep ==
  ASSUME LockInv, [Next]_vars
  PROVE  TypeOK' /\ LocalsOK'
<1> USE CacheAssumption, ApiAssumption
<1> USE DEF LockInv, TypeOK, LocalsOK, cacheVars, lockVars, Goto, Return, Panic, CanRead, CanWrite,
            Locals, NoCall, Steps
<1>1. ASSUME NEW t \in Threads, NEW a \in Args, ThroughImc(t, a)
      PROVE  TypeOK' /\ LocalsOK'
  BY <1>1 DEF ThroughImc
<1>2. ASSUME NEW t \in Threads, LookupHit(t)
      PROVE  TypeOK' /\ LocalsOK'
  <2> DEFINE i == index[call[t].args]
  <2>1. i \in Ids /\ data[i] \in Entry
    BY <1>2 DEF LookupHit, Hit, DataMap, IndexMap
  <2>2. data' \in DataMap
    <3>1. [data[i] EXCEPT !.count = @ + 1] \in Entry
      BY <2>1, HitFacts
    <3>2. data' = [data EXCEPT ![i] = [data[i] EXCEPT !.count = @ + 1]]
      BY <1>2 DEF LookupHit
    <3> QED BY <2>1, <3>1, <3>2 DEF DataMap
  <2>3. call' = [call EXCEPT ![t].id = i]
    BY <1>2 DEF LookupHit
  <2> QED BY <1>2, <2>1, <2>2, <2>3 DEF LookupHit
<1>3. ASSUME NEW t \in Threads, TickHit(t)
      PROVE  TypeOK' /\ LocalsOK'
  BY <1>3 DEF TickHit
<1>4. ASSUME NEW t \in Threads, StampHit(t)
      PROVE  TypeOK' /\ LocalsOK'
  <2> DEFINE i == call[t].id
  <2>1. i \in Ids /\ data[i] \in Entry /\ call[t].stamp \in Nat
    BY <1>4 DEF StampHit, HitHeld, DataMap
  <2>2. data' = [data EXCEPT ![i] = [data[i] EXCEPT !.last = call[t].stamp]]
    BY <1>4 DEF StampHit
  <2>3. data' \in DataMap
    BY <2>1, <2>2, HitFacts DEF DataMap
  <2> QED BY <1>4, <2>3 DEF StampHit
<1>5. ASSUME NEW t \in Threads, LookupMiss(t)
      PROVE  TypeOK' /\ LocalsOK'
  BY <1>5 DEF LookupMiss
<1>6. ASSUME NEW t \in Threads, Compute(t)
      PROVE  TypeOK' /\ LocalsOK'
  <2>1. PICK i \in Answers[call[t].args] :
             call' = [call EXCEPT ![t] = [@ EXCEPT !.id = i, !.ver = db[i]]]
    BY <1>6 DEF Compute
  <2>2. i \in Ids /\ db[i] \in Nat
    BY <1>6 DEF Compute
  <2> DEFINE found == [call[t] EXCEPT !.id = i, !.ver = db[i]]
  <2>3. found \in Locals /\ found.args = call[t].args /\ found.id = i
    <3>1. call[t] \in Locals
      OBVIOUS
    <3> QED BY <2>2, <3>1
  <2>4. /\ call' \in [Threads -> Locals] /\ call'[t] = found
        /\ \A s \in Threads : s # t => call'[s] = call[s]
    BY <2>1, <2>3
  <2> QED BY <1>6, <2>2, <2>3, <2>4 DEF Compute
<1>7. ASSUME NEW t \in Threads, ComputeOversized(t) \/ Abandon(t)
      PROVE  TypeOK' /\ LocalsOK'
  <2>1. /\ pc[t] = "compute" /\ pc' = [pc EXCEPT ![t] = "idle"]
        /\ call' = [call EXCEPT ![t] = NoCall]
        /\ UNCHANGED <<cacheVars, lockVars, workerTx, db, calls>>
    BY <1>7 DEF ComputeOversized, Abandon
  <2> QED BY <2>1
<1>8. ASSUME NEW t \in Threads, StoreValue(t)
      PROVE  TypeOK' /\ LocalsOK'
  <2>1. data' \in DataMap
    BY <1>8, SetFacts DEF StoreValue
  <2> QED BY <1>8, <2>1 DEF StoreValue, IndexMap
<1>9. ASSUME NEW t \in Threads, ReadBack(t)
      PROVE  TypeOK' /\ LocalsOK'
  <2>1. index[call[t].args] \in Ids /\ data[index[call[t].args]] \in Entry
    BY <1>9 DEF ReadBack, Hit, DataMap, IndexMap
  <2>2. Accessed(data[index[call[t].args]], clock) \in Entry
    BY <2>1, AccessedFacts
  <2>3. data' \in DataMap
    BY <1>9, <2>1, <2>2 DEF ReadBack, DataMap
  <2> QED BY <1>9, <2>3 DEF ReadBack
<1>10. ASSUME NEW t \in Threads, ReadBackPanics(t) \/ LockPanics(t) \/ WritePanics(t)
       PROVE  TypeOK' /\ LocalsOK'
  <2>1. CASE ReadBackPanics(t)
    BY <2>1 DEF ReadBackPanics
  <2>2. CASE LockPanics(t)
    BY <2>2 DEF LockPanics
  <2>3. CASE WritePanics(t)
    BY <2>3 DEF WritePanics
  <2> QED BY <1>10, <2>1, <2>2, <2>3
<1>11. ASSUME NEW t \in Threads, NEW i \in Ids, ImcRemove(t, i)
       PROVE  TypeOK' /\ LocalsOK'
  BY <1>11 DEF ImcRemove, RemoveData, DataMap
<1>12. ASSUME NEW t \in Threads, ImcClear(t)
       PROVE  TypeOK' /\ LocalsOK'
  BY <1>12 DEF ImcClear, EmptyData, EmptyIndex, DataMap, IndexMap
<1>13. ASSUME NEW i \in Ids, DbUpdate(i)
       PROVE  TypeOK' /\ LocalsOK'
  BY <1>13 DEF DbUpdate
<1>14. ASSUME TimePasses
       PROVE  TypeOK' /\ LocalsOK'
  BY <1>14 DEF TimePasses, Aged, DataMap, Entry
<1>15. ASSUME Finished \/ UNCHANGED vars
       PROVE  TypeOK' /\ LocalsOK'
  BY <1>15 DEF Finished, vars
<1> QED
  BY <1>1, <1>2, <1>3, <1>4, <1>5, <1>6, <1>7, <1>8, <1>9, <1>10, <1>11, <1>12, <1>13,
     <1>14, <1>15 DEF Next, Proceed

-----------------------------------------------------------------------------
\* Entries that threads in the lock have found or stored stay, whoever steps.
LEMMA HeldKept ==
  ASSUME LockInv, index' = index,
         \A i \in Ids : data[i] # None => data'[i] # None,
         \A s \in Threads : pc'[s] \in {"tick", "stamp"} =>
           \/ pc[s] \in {"tick", "stamp"} /\ call'[s].id = call[s].id
           \/ data'[call'[s].id] # None,
         \A s \in Threads : pc'[s] = "readback" =>
           pc[s] = "readback" /\ call'[s].id = call[s].id /\ call'[s].args = call[s].args
  PROVE  HitHeld' /\ StoredValueReadable'
<1>1. HitHeld'
  BY DEF LockInv, LocalsOK, HitHeld
<1>2. StoredValueReadable'
  BY DEF LockInv, LocalsOK, StoredValueReadable
<1> QED BY <1>1, <1>2

\* A writer that leaves the lock finds nobody in it who could miss an entry.
LEMMA HeldByNone ==
  ASSUME LockInv, CanWrite, UNCHANGED <<pc, call>>
  PROVE  HitHeld' /\ StoredValueReadable'
<1>1. \A s \in Threads : pc[s] \notin {"tick", "stamp", "readback"}
  BY ApiAssumption DEF LockInv, TypeOK, CanWrite
<1> QED BY <1>1 DEF HitHeld, StoredValueReadable

\* Whoever comes and goes beside the callers and keeps the types leaves the lock's
\* books and what a call knows alone.
LEMMA LockKept ==
  ASSUME LockInv, data' \in DataMap, index' \in IndexMap, workerTx' \in BOOLEAN, calls' \in Nat,
         UNCHANGED <<strategy, clock, lockVars, db, pc, call>>
  PROVE  TypeOK' /\ LocalsOK'
<1>1. TypeOK'
  BY DEF LockInv, TypeOK, lockVars
<1>2. LocalsOK'
  BY DEF LockInv, LocalsOK
<1> QED BY <1>1, <1>2

\* Access and time neither add nor lose entries.
LEMMA EntriesKept ==
  ASSUME LockInv, (\E t \in Threads : LookupHit(t) \/ StampHit(t) \/ ReadBack(t)) \/ TimePasses
  PROVE  \A j \in Ids : data'[j] # None <=> data[j] # None
<1>1. data \in DataMap /\ clock \in Nat
  BY DEF LockInv, TypeOK
<1>2. ASSUME NEW i \in Ids, NEW e \in Entry, data[i] # None, data' = [data EXCEPT ![i] = e]
      PROVE  \A j \in Ids : data'[j] # None <=> data[j] # None
  BY <1>1, <1>2, CacheAssumption DEF DataMap
<1>3. ASSUME NEW t \in Threads, LookupHit(t)
      PROVE  \A j \in Ids : data'[j] # None <=> data[j] # None
  <2> DEFINE i == index[call[t].args]
  <2>1. i \in Ids /\ data[i] \in Entry /\ data[i] # None
    BY <1>1, <1>3 DEF LockInv, TypeOK, LocalsOK, LookupHit, Hit, DataMap, IndexMap
  <2>2. data' = [data EXCEPT ![i] = [data[i] EXCEPT !.count = @ + 1]]
    BY <1>3 DEF LookupHit
  <2>3. [data[i] EXCEPT !.count = @ + 1] \in Entry
    BY <2>1, HitFacts
  <2> QED BY <1>2, <2>1, <2>2, <2>3
<1>4. ASSUME NEW t \in Threads, StampHit(t)
      PROVE  \A j \in Ids : data'[j] # None <=> data[j] # None
  <2> DEFINE i == call[t].id
  <2>1. i \in Ids /\ data[i] \in Entry /\ data[i] # None /\ call[t].stamp \in Nat
    BY <1>1, <1>4 DEF LockInv, TypeOK, LocalsOK, Locals, HitHeld, StampHit, DataMap
  <2>2. data' = [data EXCEPT ![i] = [data[i] EXCEPT !.last = call[t].stamp]]
    BY <1>4 DEF StampHit
  <2>3. [data[i] EXCEPT !.last = call[t].stamp] \in Entry
    BY <2>1, HitFacts
  <2> QED BY <1>2, <2>1, <2>2, <2>3
<1>5. ASSUME NEW t \in Threads, ReadBack(t)
      PROVE  \A j \in Ids : data'[j] # None <=> data[j] # None
  <2> DEFINE i == index[call[t].args]
  <2>1. i \in Ids /\ data[i] \in Entry /\ data[i] # None
    BY <1>1, <1>5 DEF LockInv, TypeOK, LocalsOK, ReadBack, Hit, DataMap, IndexMap
  <2>2. data' = [data EXCEPT ![i] = Accessed(data[i], clock)]
    BY <1>5 DEF ReadBack
  <2>3. Accessed(data[i], clock) \in Entry
    BY <1>1, <2>1, AccessedFacts
  <2> QED BY <1>2, <2>1, <2>2, <2>3
<1>6. ASSUME TimePasses
      PROVE  \A j \in Ids : data'[j] # None <=> data[j] # None
  BY <1>1, <1>6, AgedFacts DEF TimePasses
<1> QED BY <1>3, <1>4, <1>5, <1>6

\* LockInv is inductive.
LEMMA LockStep == LockInv /\ [Next]_vars => LockInv'
<1> SUFFICES ASSUME LockInv, [Next]_vars PROVE HitHeld' /\ StoredValueReadable'
  BY TypeStep DEF LockInv
<1> DEFINE Alone(t) == \A s \in Threads \ {t} : pc'[s] = pc[s] /\ call'[s] = call[s]
           Lock == {"tick", "stamp", "readback"}
<1>1. pc \in [Threads -> Steps] /\ call \in [Threads -> Locals] /\ data \in DataMap
  BY DEF LockInv, TypeOK
<1>2. ASSUME NEW t \in Threads,
             \/ (\E a \in Args : ThroughImc(t, a)) \/ LookupMiss(t)
             \/ Compute(t) \/ ComputeOversized(t) \/ Abandon(t)
             \/ ReadBackPanics(t) \/ LockPanics(t) \/ WritePanics(t)
      PROVE  HitHeld' /\ StoredValueReadable'
  <2>1. data' = data /\ index' = index
    BY <1>2 DEF ThroughImc, LookupMiss, Compute, ComputeOversized, Abandon,
       ReadBackPanics, LockPanics, WritePanics, cacheVars
  <2>2. pc'[t] \notin Lock /\ Alone(t)
    BY <1>1, <1>2 DEF ThroughImc, LookupMiss, Compute, ComputeOversized, Abandon,
       ReadBackPanics, LockPanics, WritePanics, Return, Panic, Goto
  <2> QED BY <2>1, <2>2, HeldKept
<1>3. ASSUME NEW t \in Threads, LookupHit(t)
      PROVE  HitHeld' /\ StoredValueReadable'
  <2> DEFINE i == index[call[t].args]
  <2>1. i \in Ids /\ data[i] \in Entry /\ data[i] # None
    BY <1>1, <1>3 DEF LockInv, TypeOK, LocalsOK, LookupHit, Hit, DataMap, IndexMap
  <2>2. /\ data' = [data EXCEPT ![i].count = @ + 1] /\ index' = index
        /\ call' = [call EXCEPT ![t].id = i] /\ pc' = [pc EXCEPT ![t] = "tick"]
    BY <1>3 DEF LookupHit, Goto
  <2>3. \A j \in Ids : data[j] # None => data'[j] # None
    BY <1>3, EntriesKept
  <2>4. pc'[t] = "tick" /\ call'[t].id = i /\ Alone(t)
    BY <1>1, <2>2 DEF Locals
  <2> QED BY <2>1, <2>2, <2>3, <2>4, HeldKept
<1>4. ASSUME NEW t \in Threads, TickHit(t)
      PROVE  HitHeld' /\ StoredValueReadable'
  <2>1. /\ data' = data /\ index' = index /\ pc[t] = "tick"
        /\ call' = [call EXCEPT ![t].stamp = clock] /\ pc' = [pc EXCEPT ![t] = "stamp"]
    BY <1>4 DEF TickHit, Goto
  <2>2. pc'[t] = "stamp" /\ call'[t].id = call[t].id /\ Alone(t)
    BY <1>1, <2>1 DEF Locals
  <2> QED BY <2>1, <2>2, HeldKept
<1>5. ASSUME NEW t \in Threads, StampHit(t)
      PROVE  HitHeld' /\ StoredValueReadable'
  <2>1. \A j \in Ids : data[j] # None => data'[j] # None
    BY <1>5, EntriesKept
  <2>2. index' = index /\ pc'[t] = "idle" /\ Alone(t)
    BY <1>1, <1>5 DEF StampHit, Return, Goto
  <2> QED BY <2>1, <2>2, HeldKept
<1>6. ASSUME NEW t \in Threads, StoreValue(t)
      PROVE  HitHeld' /\ StoredValueReadable'
  <2> DEFINE i == call[t].id
  <2>1. /\ i \in Ids /\ call[t].args \in Args /\ call[t].ver \in Nat /\ clock \in Nat
        /\ index \in IndexMap /\ CanWrite
    BY <1>6 DEF LockInv, TypeOK, LocalsOK, Locals, StoreValue
  <2>2. /\ data' \in SetOutcomes(data, i, call[t].ver, clock, strategy, ~workerTx)
        /\ index' = [index EXCEPT ![call[t].args] = i]
        /\ call' = call /\ pc' = [pc EXCEPT ![t] = "readback"]
    BY <1>6 DEF StoreValue, Goto
  <2>3. data'[i] # None
    BY <1>1, <2>1, <2>2, SetFacts
  <2>4. \A s \in Threads : pc[s] \notin Lock
    BY <2>1, ApiAssumption DEF LockInv, TypeOK, CanWrite
  <2>5. \A s \in Threads : pc'[s] \in Lock => s = t /\ pc'[s] = "readback"
    BY <1>1, <2>2, <2>4
  <2>6. index'[call[t].args] = i
    BY <2>1, <2>2 DEF IndexMap
  <2> QED BY <2>2, <2>3, <2>5, <2>6 DEF HitHeld, StoredValueReadable
<1>7. ASSUME NEW t \in Threads, ReadBack(t)
      PROVE  HitHeld' /\ StoredValueReadable'
  <2>1. \A s \in Threads : pc'[s] \notin Lock
    BY <1>1, <1>7, ApiAssumption DEF LockInv, TypeOK, ReadBack, Return, Goto
  <2> QED BY <2>1 DEF HitHeld, StoredValueReadable
<1>8. ASSUME NEW t \in Threads, (\E i \in Ids : ImcRemove(t, i)) \/ ImcClear(t)
      PROVE  HitHeld' /\ StoredValueReadable'
  <2>1. CanWrite /\ UNCHANGED <<pc, call>>
    BY <1>8 DEF ImcRemove, ImcClear
  <2> QED BY <2>1, HeldByNone
<1>9. ASSUME TimePasses
      PROVE  HitHeld' /\ StoredValueReadable'
  <2>1. index' = index /\ pc' = pc /\ call' = call
    BY <1>9 DEF TimePasses
  <2>2. \A j \in Ids : data[j] # None => data'[j] # None
    BY <1>9, EntriesKept
  <2> QED BY <2>1, <2>2, HeldKept
<1>10. ASSUME (\E i \in Ids : DbUpdate(i)) \/ Finished \/ UNCHANGED vars
       PROVE  HitHeld' /\ StoredValueReadable'
  <2>1. data' = data /\ index' = index /\ pc' = pc /\ call' = call
    BY <1>10 DEF DbUpdate, Finished, vars, cacheVars
  <2> QED BY <2>1, HeldKept
<1> QED
  BY <1>2, <1>3, <1>4, <1>5, <1>6, <1>7, <1>8, <1>9, <1>10 DEF Next, Proceed

-----------------------------------------------------------------------------
\* The conjuncts of SharedInv that LockStep leaves open.

\* A step that leaves cache and poison alone and hands no stamp to any thread.
LEMMA QuietStep ==
  ASSUME SharedInv, UNCHANGED <<data, index, clock, poisoned>>,
         \A t \in Threads :
           \/ pc'[t] = pc[t] /\ call'[t] = call[t]
           \/ pc'[t] # "stamp"
  PROVE  CacheInv'
<1>1. StampsDistinct'
  BY DEF SharedInv, LockInv, CacheInv, StampsDistinct, Cached
<1>2. PoisonOnlyByExpiry'
  BY DEF SharedInv, LockInv, CacheInv, PoisonOnlyByExpiry
<1> QED BY <1>1, <1>2 DEF CacheInv

\* A step that removes entries or changes no stamp of those it keeps.
LEMMA StampsKept ==
  ASSUME SharedInv, clock' = clock,
         \A i \in Ids : data'[i] # None =>
           /\ data[i] # None
           /\ data'[i].last = data[i].last
           /\ data'[i].inserted = data[i].inserted,
         \A t \in Threads : pc'[t] = "stamp" => pc[t] = "stamp" /\ call'[t] = call[t]
  PROVE  StampsDistinct'
BY DEF SharedInv, LockInv, CacheInv, StampsDistinct, Cached

\* get() under the read lock: nothing but one entry's count changes.
LEMMA LookupHitStep ==
  ASSUME SharedInv, NEW t \in Threads, LookupHit(t)
  PROVE  CacheInv'
<1> DEFINE i == index[call[t].args]
<1>1. i \in Ids /\ data[i] # None /\ data[i] \in Entry
  BY DEF SharedInv, LockInv, CacheInv, TypeOK, LocalsOK, LookupHit, Hit, DataMap, IndexMap
<1>2. /\ data' = [data EXCEPT ![i].count = @ + 1]
      /\ call' = [call EXCEPT ![t].id = i]
      /\ pc' = [pc EXCEPT ![t] = "tick"]
      /\ UNCHANGED <<index, clock, poisoned>>
  BY DEF LookupHit, Goto
<1>3. /\ data' \in DataMap
      /\ \A j \in Ids : data'[j] # None <=> data[j] # None
      /\ \A j \in Ids : data[j] # None =>
           /\ data'[j].last = data[j].last /\ data'[j].inserted = data[j].inserted
           /\ data'[j].age = data[j].age
  BY <1>1, <1>2, CacheAssumption DEF SharedInv, LockInv, CacheInv, TypeOK, DataMap, Entry
<1>4. /\ pc'[t] = "tick" /\ call'[t].id = i
      /\ \A s \in Threads : s # t => pc'[s] = pc[s] /\ call'[s] = call[s]
  BY <1>2 DEF SharedInv, LockInv, CacheInv, TypeOK, Locals
<1>5. StampsDistinct'
  BY <1>2, <1>3, <1>4, StampsKept
<1>6. PoisonOnlyByExpiry'
  BY DEF LookupHit, PoisonOnlyByExpiry
<1> QED BY <1>5, <1>6 DEF CacheInv

\* A hit's tick(): the number it takes is larger than any stored or pending.
LEMMA TickHitStep ==
  ASSUME SharedInv, NEW t \in Threads, TickHit(t)
  PROVE  CacheInv'
<1>1. /\ pc[t] = "tick" /\ clock \in Nat /\ clock' = clock + 1
      /\ UNCHANGED <<data, index, poisoned>>
      /\ pc'[t] = "stamp" /\ call'[t].stamp = clock /\ call'[t].id = call[t].id
      /\ \A s \in Threads : s # t => pc'[s] = pc[s] /\ call'[s] = call[s]
  <2>1. /\ pc \in [Threads -> Steps] /\ call \in [Threads -> Locals] /\ clock \in Nat
    BY DEF SharedInv, LockInv, CacheInv, TypeOK
  <2>2. /\ pc[t] = "tick" /\ clock' = clock + 1
        /\ UNCHANGED <<data, index, poisoned>>
        /\ pc' = [pc EXCEPT ![t] = "stamp"]
        /\ call' = [call EXCEPT ![t].stamp = clock]
    BY DEF TickHit, Goto, lockVars
  <2> QED BY <2>1, <2>2 DEF Locals
<1>2. \A j \in Cached(data) : data[j].last \in Nat /\ data[j].inserted \in Nat
  BY DEF SharedInv, LockInv, CacheInv, TypeOK, DataMap, Entry, Cached
<1>3. \A s \in Threads : call[s].stamp \in Nat
  BY DEF SharedInv, LockInv, CacheInv, TypeOK, Locals
<1>4. StampsDistinct'
  BY <1>1, <1>2, <1>3 DEF SharedInv, LockInv, CacheInv, StampsDistinct, Cached
<1>5. PoisonOnlyByExpiry'
  BY <1>1 DEF SharedInv, LockInv, CacheInv, PoisonOnlyByExpiry
<1> QED BY <1>4, <1>5 DEF CacheInv

\* A hit's store to last_accessed: the number was its own and pending, so it is
\* no other entry's.
LEMMA StampHitStep ==
  ASSUME SharedInv, NEW t \in Threads, StampHit(t)
  PROVE  CacheInv'
<1> DEFINE i == call[t].id
<1>1. /\ pc[t] = "stamp" /\ i \in Ids /\ data[i] # None /\ data[i] \in Entry
      /\ call[t].stamp \in Nat
  BY DEF SharedInv, LockInv, CacheInv, TypeOK, LocalsOK, HitHeld, StampHit, DataMap, Locals
<1>2. /\ data' = [data EXCEPT ![i].last = call[t].stamp]
      /\ UNCHANGED <<index, clock, poisoned>>
      /\ pc'[t] = "idle"
      /\ \A s \in Threads : s # t => pc'[s] = pc[s] /\ call'[s] = call[s]
  BY DEF SharedInv, LockInv, CacheInv, TypeOK, StampHit, Return, Goto
<1>3. /\ \A j \in Ids : data'[j] # None <=> data[j] # None
      /\ data'[i].last = call[t].stamp
      /\ \A j \in Ids : j # i => data'[j] = data[j]
      /\ data'[i].inserted = data[i].inserted /\ data'[i].age = data[i].age
  BY <1>1, <1>2, CacheAssumption DEF SharedInv, LockInv, CacheInv, TypeOK, DataMap, Entry
<1>4. StampsDistinct'
  BY <1>1, <1>2, <1>3 DEF SharedInv, LockInv, CacheInv, StampsDistinct, Cached
<1>5. PoisonOnlyByExpiry'
  BY <1>1, <1>2, <1>3 DEF SharedInv, LockInv, CacheInv, PoisonOnlyByExpiry, Expired
<1> QED BY <1>4, <1>5 DEF CacheInv

\* set() under the write lock: no reader is in, so no entry it evicts is about
\* to be stamped, and the entry it inserts takes a number of its own.
LEMMA StoreValueStep ==
  ASSUME SharedInv, NEW t \in Threads, StoreValue(t)
  PROVE  CacheInv'
<1> DEFINE i == call[t].id
<1> DEFINE inserts == SetInserts(data, i)
<1>1. /\ i \in Ids /\ call[t].args \in Args /\ call[t].ver \in Nat /\ clock \in Nat
      /\ data \in DataMap /\ index \in IndexMap /\ readers = {} /\ writer = None
      /\ ~poisoned
  BY DEF SharedInv, LockInv, CacheInv, TypeOK, LocalsOK, StoreValue, Locals, CanWrite
<1>2. /\ data' \in SetOutcomes(data, i, call[t].ver, clock, strategy, ~workerTx)
      /\ clock' = IF inserts THEN clock + 1 ELSE clock
      /\ index' = [index EXCEPT ![call[t].args] = i]
      /\ call' = call /\ pc' = [pc EXCEPT ![t] = "readback"]
      /\ poisoned' = poisoned
  BY <1>1 DEF StoreValue, Goto
<1>3. /\ data' \in DataMap /\ data'[i] # None
      /\ \A j \in Ids : j # i => data'[j] = data[j] \/ data'[j] = None
      /\ ~inserts => data' = data
      /\ inserts => data'[i] = NewEntry(call[t].ver, clock)
  BY <1>1, <1>2, SetFacts
<1>4. \A s \in Threads : pc'[s] # "stamp"
  BY <1>1, <1>2, ApiAssumption DEF SharedInv, LockInv, CacheInv, TypeOK
<1>5. StampsDistinct'
  <2>1. CASE ~inserts
    BY <1>2, <1>3, <1>4, <2>1 DEF SharedInv, LockInv, CacheInv, StampsDistinct
  <2>2. CASE inserts
    <3>1. clock' = clock + 1
      BY <1>2, <2>2
    <3>2. data'[i].last = clock /\ data'[i].inserted = clock
      BY <1>3, <2>2 DEF NewEntry
    <3>3. \A j \in Cached(data') : j # i =>
             /\ j \in Cached(data) /\ data'[j] = data[j]
             /\ data[j].last \in Nat /\ data[j].inserted \in Nat
             /\ data[j].last < clock /\ data[j].inserted < clock
      BY <1>1, <1>3 DEF SharedInv, LockInv, CacheInv, StampsDistinct, Cached, DataMap, Entry
    <3>4. \A j \in Cached(data') : data'[j].last < clock' /\ data'[j].inserted < clock'
      BY <1>1, <3>1, <3>2, <3>3
    <3>5. \A j, k \in Cached(data') : j # k =>
             data'[j].last # data'[k].last /\ data'[j].inserted # data'[k].inserted
      BY <1>1, <3>2, <3>3 DEF SharedInv, LockInv, CacheInv, StampsDistinct
    <3> QED BY <1>4, <3>4, <3>5 DEF StampsDistinct
  <2> QED BY <2>1, <2>2
<1>6. PoisonOnlyByExpiry'
  BY <1>1, <1>2 DEF PoisonOnlyByExpiry
<1> QED BY <1>5, <1>6 DEF CacheInv

\* get() of what was stored: its entry is counted and takes the next number.
LEMMA ReadBackStep ==
  ASSUME SharedInv, NEW t \in Threads, ReadBack(t)
  PROVE  CacheInv'
<1> DEFINE i == index[call[t].args]
<1>1. /\ i \in Ids /\ data[i] \in Entry /\ data[i] # None /\ clock \in Nat
      /\ data \in DataMap /\ pc \in [Threads -> Steps]
  BY DEF SharedInv, LockInv, CacheInv, TypeOK, LocalsOK, ReadBack, Hit, DataMap, IndexMap
<1>2. /\ data' = [data EXCEPT ![i] = Accessed(data[i], clock)]
      /\ clock' = clock + 1
      /\ UNCHANGED <<index, poisoned>>
      /\ pc' = [pc EXCEPT ![t] = "idle"]
      /\ \A s \in Threads : s # t => call'[s] = call[s]
  BY DEF SharedInv, LockInv, CacheInv, TypeOK, ReadBack, Return, Goto
<1>3. /\ data'[i] \in Entry /\ data'[i].last = clock
      /\ data'[i].inserted = data[i].inserted /\ data'[i].age = data[i].age
      /\ \A j \in Ids : j # i => data'[j] = data[j]
  BY <1>1, <1>2, AccessedFacts DEF DataMap
<1>4. Cached(data') = Cached(data)
  BY <1>1, <1>3, CacheAssumption DEF Cached
<1>5. \A s \in Threads : pc'[s] # "stamp"
  BY <1>1, <1>2, ApiAssumption DEF SharedInv, LockInv, CacheInv, TypeOK, ReadBack
<1>6. StampsDistinct'
  <2>1. \A j \in Cached(data) :
           /\ data[j].last \in Nat /\ data[j].inserted \in Nat
           /\ data[j].last < clock /\ data[j].inserted < clock
    BY <1>1 DEF SharedInv, LockInv, CacheInv, StampsDistinct, Cached, DataMap, Entry
  <2>2. \A j \in Cached(data) : data'[j].inserted = data[j].inserted
    BY <1>3 DEF Cached
  <2>3. \A j \in Cached(data) : j # i => data'[j].last = data[j].last
    BY <1>3 DEF Cached
  <2>4. \A j \in Cached(data') : data'[j].last < clock' /\ data'[j].inserted < clock'
    BY <1>1, <1>2, <1>3, <1>4, <2>1, <2>2, <2>3
  <2>5. \A j, k \in Cached(data') : j # k =>
           data'[j].last # data'[k].last /\ data'[j].inserted # data'[k].inserted
    BY <1>1, <1>3, <1>4, <2>1, <2>2, <2>3 DEF SharedInv, LockInv, CacheInv, StampsDistinct
  <2> QED BY <1>5, <2>4, <2>5 DEF StampsDistinct
<1>7. PoisonOnlyByExpiry'
  BY <1>1, <1>2, <1>3, CacheAssumption DEF SharedInv, LockInv, CacheInv, PoisonOnlyByExpiry, Expired
<1> QED BY <1>6, <1>7 DEF CacheInv

\* get() finds nothing: as the binding and the entry are there, it has expired.
LEMMA ReadBackPanicsStep ==
  ASSUME SharedInv, NEW t \in Threads, ReadBackPanics(t)
  PROVE  CacheInv'
<1>1. /\ UNCHANGED <<data, index, clock>>
      /\ pc'[t] = "panicked"
      /\ \A s \in Threads : s # t => pc'[s] = pc[s] /\ call'[s] = call[s]
  BY DEF SharedInv, LockInv, CacheInv, TypeOK, ReadBackPanics, Panic, Goto, cacheVars
<1>2. StampsDistinct'
  BY <1>1 DEF SharedInv, LockInv, CacheInv, StampsDistinct, Cached
<1>3. PoisonOnlyByExpiry'
  <2>1. call[t].id \in Ids /\ data[call[t].id] # None /\ index[call[t].args] = call[t].id
    BY DEF SharedInv, LockInv, CacheInv, LocalsOK, StoredValueReadable, ReadBackPanics
  <2>2. Expired(data[call[t].id])
    BY <2>1, CacheAssumption DEF ReadBackPanics, Hit
  <2> QED BY <1>1, <2>1, <2>2 DEF PoisonOnlyByExpiry
<1> QED BY <1>2, <1>3 DEF CacheInv

\* imc_remove and imc_clear: removal waits until no thread is in the lock.
LEMMA RemovalStep ==
  ASSUME SharedInv, NEW t \in Threads,
         (\E i \in Ids : ImcRemove(t, i)) \/ ImcClear(t)
  PROVE  CacheInv'
<1>1. /\ clock' = clock /\ pc' = pc /\ call' = call
      /\ poisoned' = poisoned
      /\ ~poisoned /\ writer = None /\ readers = {}
  BY DEF ImcRemove, ImcClear, lockVars, CanWrite
<1>2. \A j \in Ids : data'[j] # None => data'[j] = data[j]
  BY DEF SharedInv, LockInv, CacheInv, TypeOK, DataMap, ImcRemove, RemoveData, ImcClear, EmptyData
<1>3. PoisonOnlyByExpiry'
  BY <1>1 DEF PoisonOnlyByExpiry
<1>4. StampsDistinct'
  BY <1>1, <1>2, StampsKept
<1> QED BY <1>3, <1>4 DEF CacheInv

\* Time changes nothing but ages, and what has expired stays expired.
LEMMA TimeStep ==
  ASSUME SharedInv, TimePasses
  PROVE  CacheInv'
<1>1. /\ data' = Aged(data)
      /\ UNCHANGED <<index, clock, poisoned, pc, call>>
  BY DEF TimePasses, lockVars
<1>2. data \in DataMap
  BY DEF SharedInv, LockInv, CacheInv, TypeOK
<1>3. \A j \in Ids :
        /\ data[j] # None <=> data'[j] # None
        /\ data[j] # None =>
             /\ data'[j].last = data[j].last /\ data'[j].inserted = data[j].inserted
             /\ Expired(data[j]) => Expired(data'[j])
  BY <1>1, <1>2, AgedFacts
<1>4. StampsDistinct'
  BY <1>1, <1>3, StampsKept
<1>5. PoisonOnlyByExpiry'
  BY <1>1, <1>3 DEF SharedInv, LockInv, CacheInv, PoisonOnlyByExpiry
<1> QED BY <1>4, <1>5 DEF CacheInv

-----------------------------------------------------------------------------
\* Where no two accesses share a number, the least and the greatest are one entry's.
LEMMA DistinctStampsTell == SharedInv => VictimIsUnique
<1> SUFFICES ASSUME SharedInv, strategy \in {"Lru", "Mru", "Fifo"},
                    NEW v \in EvictCandidates(data, strategy),
                    NEW w \in EvictCandidates(data, strategy)
             PROVE  v = w
  BY DEF VictimIsUnique
<1>1. data \in DataMap
  BY DEF SharedInv, LockInv, TypeOK
<1>2. \A i, j \in Cached(data) : i # j =>
        data[i].last # data[j].last /\ data[i].inserted # data[j].inserted
  BY DEF SharedInv, CacheInv, StampsDistinct
<1> QED BY <1>1, <1>2, UniqueVictim

\* Writers that are no callers: workers and subscribers take entries away while
\* nobody is in the lock, and unwrap() ends them once it is poisoned.
LEMMA OutsideWriterKeeps ==
  ASSUME SharedInv, ~poisoned, UNCHANGED <<clock, poisoned, pc, call>>,
         \A i \in Ids : data'[i] \in {data[i], None}
  PROVE  CacheInv'
<1>1. StampsDistinct'
  BY StampsKept
<1>2. PoisonOnlyByExpiry'
  BY DEF PoisonOnlyByExpiry
<1> QED BY <1>1, <1>2 DEF CacheInv

\* No caller registers or drops a worker.
LEMMA RegistrationKept == [Next]_vars => workerTx' = workerTx
BY DEF Next, Proceed, vars, ThroughImc, LookupHit, TickHit, StampHit,
   LookupMiss, Compute, ComputeOversized, Abandon, StoreValue, ReadBack,
   ReadBackPanics, LockPanics, ImcRemove, ImcClear, WritePanics, DbUpdate,
   TimePasses, Finished

\* SharedInv is inductive, whether or not a worker is registered.
LEMMA SharedStep ==
  ASSUME SharedInv, [Next]_vars
  PROVE  SharedInv'
<1> SUFFICES CacheInv'
  BY LockStep DEF SharedInv
<1> DEFINE Frame == UNCHANGED <<data, index, clock, poisoned>>
<1> DEFINE Outside(t) ==
      /\ pc'[t] # "stamp"
      /\ \A s \in Threads : s # t => pc'[s] = pc[s] /\ call'[s] = call[s]
<1>1. pc \in [Threads -> Steps] /\ call \in [Threads -> Locals]
  BY DEF SharedInv, LockInv, TypeOK
<1>2. ASSUME NEW t \in Threads, NEW a \in Args, ThroughImc(t, a)
      PROVE  CacheInv'
  <2>1. Frame /\ Outside(t)
    BY <1>1, <1>2 DEF ThroughImc, Goto, cacheVars, lockVars
  <2> QED BY <2>1, QuietStep
<1>3. ASSUME NEW t \in Threads, LookupMiss(t)
      PROVE  CacheInv'
  <2>1. Frame /\ Outside(t)
    BY <1>1, <1>3 DEF LookupMiss, Goto, cacheVars, lockVars
  <2> QED BY <2>1, QuietStep
<1>4. ASSUME NEW t \in Threads, Compute(t)
      PROVE  CacheInv'
  <2>1. Frame /\ Outside(t)
    BY <1>1, <1>4 DEF Compute, Goto, cacheVars, lockVars
  <2> QED BY <2>1, QuietStep
<1>5. ASSUME NEW t \in Threads, ComputeOversized(t) \/ Abandon(t)
      PROVE  CacheInv'
  <2>1. Frame /\ Outside(t)
    BY <1>1, <1>5 DEF ComputeOversized, Abandon, Return, Goto, cacheVars, lockVars
  <2> QED BY <2>1, QuietStep
<1>6. ASSUME NEW t \in Threads, LockPanics(t) \/ WritePanics(t)
      PROVE  CacheInv'
  <2>1. Frame /\ Outside(t)
    BY <1>1, <1>6 DEF LockPanics, WritePanics, Panic, Goto, cacheVars, lockVars
  <2> QED BY <2>1, QuietStep
<1>7. ASSUME (\E i \in Ids : DbUpdate(i)) \/ Finished \/ UNCHANGED vars
      PROVE  CacheInv'
  <2>1. Frame /\ pc' = pc /\ call' = call
    BY <1>7 DEF DbUpdate, Finished, vars, cacheVars, lockVars
  <2> QED BY <2>1, QuietStep
<1> QED
  BY <1>2, <1>3, <1>4, <1>5, <1>6, <1>7, LookupHitStep, TickHitStep, StampHitStep,
     StoreValueStep, ReadBackStep, ReadBackPanicsStep, RemovalStep, TimeStep
  DEF Next, Proceed

-----------------------------------------------------------------------------
\* Only a store adds an entry, and with a worker registered only the removing
\* functions, which count as calls, take one away.
LEMMA CallerEntries ==
  ASSUME LockInv, [Next]_vars
  PROVE  /\ (~ \E t \in Threads : StoreValue(t)) => Cached(data') \subseteq Cached(data)
         /\ workerTx /\ calls' = calls => Cached(data) \subseteq Cached(data')
<1>1. data \in DataMap
  BY DEF LockInv, TypeOK
<1>2. CASE (\E t \in Threads : LookupHit(t) \/ StampHit(t) \/ ReadBack(t)) \/ TimePasses
  <2>1. \A j \in Ids : data'[j] # None <=> data[j] # None
    BY <1>2, EntriesKept
  <2>2. Cached(data') = Cached(data)
    BY <2>1 DEF Cached
  <2> QED BY <2>2
<1>3. ASSUME NEW t \in Threads, StoreValue(t), workerTx
      PROVE  Cached(data) \subseteq Cached(data')
  <2>1. /\ call[t].id \in Ids /\ call[t].ver \in Nat /\ clock \in Nat
        /\ data' \in SetOutcomes(data, call[t].id, call[t].ver, clock, strategy, ~workerTx)
    BY <1>3 DEF LockInv, TypeOK, LocalsOK, Locals, StoreValue
  <2>2. \A j \in Ids : data[j] # None => data'[j] # None
    BY <1>1, <1>3, <2>1, SetKeeps
  <2> QED BY <2>2 DEF Cached
<1>4. ASSUME NEW t \in Threads, (\E i \in Ids : ImcRemove(t, i)) \/ ImcClear(t)
      PROVE  Cached(data') \subseteq Cached(data) /\ calls' = calls + 1
  BY <1>1, <1>4 DEF ImcRemove, ImcClear, RemoveData, EmptyData, Cached, DataMap
<1>5. calls + 1 # calls
  BY DEF LockInv, TypeOK
<1>6. ASSUME NEW t \in Threads,
             \/ (\E a \in Args : ThroughImc(t, a)) \/ TickHit(t) \/ LookupMiss(t)
             \/ Compute(t) \/ ComputeOversized(t) \/ Abandon(t)
             \/ ReadBackPanics(t) \/ LockPanics(t) \/ WritePanics(t)
      PROVE  data' = data
  BY <1>6 DEF ThroughImc, TickHit, LookupMiss, Compute, ComputeOversized, Abandon,
     ReadBackPanics, LockPanics, WritePanics, cacheVars
<1>7. (\E i \in Ids : DbUpdate(i)) \/ Finished \/ UNCHANGED vars => data' = data
  BY DEF DbUpdate, Finished, vars, cacheVars
<1> QED BY <1>2, <1>3, <1>4, <1>5, <1>6, <1>7 DEF Next, Proceed

\* IInv is inductive: without a worker only set() adds an entry, and it evicts.
LEMMA NextIInv == IInv /\ [Next]_vars => IInv'
<1> SUFFICES ASSUME IInv, [Next]_vars PROVE IInv'
  OBVIOUS
<1>1. SharedInv /\ LockInv
  BY DEF IInv, SharedInv, LockInv, CacheInv
<1>2. SharedInv'
  BY <1>1, SharedStep
<1>3. NoWorker'
  BY RegistrationKept DEF IInv, NoWorker
<1>4. Cardinality(Cached(data)) <= Limit
  BY DEF IInv, NoWorker, WithinCapacity, Limit
<1>5. /\ Cardinality(Cached(data)) \in Nat /\ Cardinality(Cached(data')) \in Nat
      /\ Limit \in Nat
  BY CachedFinite, CacheAssumption DEF Limit
<1>6. CASE Cached(data') \subseteq Cached(data)
  <2>1. Cardinality(Cached(data')) <= Cardinality(Cached(data))
    BY <1>6, CachedFinite
  <2>2. Cardinality(Cached(data')) <= Limit
    BY <1>4, <1>5, <2>1
  <2>3. WithinCapacity'
    BY <2>2 DEF WithinCapacity, Limit
  <2> QED BY <1>2, <1>3, <2>3 DEF IInv, SharedInv, LockInv, CacheInv
<1>7. ASSUME NEW t \in Threads, StoreValue(t)
      PROVE  IInv'
  <2>1. /\ data \in DataMap /\ call[t].id \in Ids /\ call[t].ver \in Nat /\ clock \in Nat
        /\ data' \in SetOutcomes(data, call[t].id, call[t].ver, clock, strategy, TRUE)
    BY <1>7 DEF IInv, NoWorker, TypeOK, LocalsOK, Locals, StoreValue
  <2>2. \/ Cardinality(Cached(data')) <= Cardinality(Cached(data))
        \/ Cardinality(Cached(data')) <= Limit
    BY <2>1, SetWithinLimit
  <2>3. Cardinality(Cached(data')) <= Limit
    BY <1>4, <1>5, <2>2
  <2>4. WithinCapacity'
    BY <2>3 DEF WithinCapacity, Limit
  <2> QED BY <1>2, <1>3, <2>4 DEF IInv, SharedInv, LockInv, CacheInv
<1> QED BY <1>1, <1>6, <1>7, CallerEntries

\* IInv holds throughout every behaviour.
THEOREM Invariance == Spec => []IInv
<1>1. Init => IInv
  BY InitIInv
<1>2. IInv /\ [Next]_vars => IInv'
  BY NextIInv
<1> QED BY <1>1, <1>2, PTL DEF Spec

-----------------------------------------------------------------------------
\* The variables keep their types and the lock has readers or a writer.
THEOREM TypeCorrect == Spec => []TypeOK
<1>1. IInv => TypeOK
  BY DEF IInv
<1> QED BY <1>1, Invariance, PTL

\* The entry a reader is about to stamp is still the cache's.
THEOREM HitsHeld == Spec => []HitHeld
<1>1. IInv => HitHeld
  BY DEF IInv
<1> QED BY <1>1, Invariance, PTL

\* through_imc always finds binding and entry of the value it just stored.
THEOREM StoredReadable == Spec => []StoredValueReadable
<1>1. IInv => StoredValueReadable
  BY DEF IInv
<1> QED BY <1>1, Invariance, PTL

\* Only expiry between set() and get() poisons the lock.
THEOREM OnlyExpiryPoisons == Spec => []PoisonOnlyByExpiry
<1>1. IInv => PoisonOnlyByExpiry
  BY DEF IInv
<1> QED BY <1>1, Invariance, PTL

\* A type without a time-to-live never poisons the lock.
THEOREM NoTtlNoPoison ==
  ASSUME Ttl = None
  PROVE  Spec => []~poisoned
<1>1. IInv => ~poisoned
  BY DEF IInv, PoisonOnlyByExpiry, Expired
<1> QED BY <1>1, Invariance, PTL

\* Inline eviction bounds the namespace by cache_max_size(), or by 1 if that is 0.
THEOREM Bounded == Spec => []WithinCapacity
<1>1. IInv => WithinCapacity
  BY DEF IInv
<1> QED BY <1>1, Invariance, PTL

\* The victim of stamp-based eviction does not depend on the HashMap's order.
THEOREM UniqueVictims == Spec => []VictimIsUnique
<1>1. IInv => VictimIsUnique
  BY DistinctStampsTell DEF IInv, SharedInv, LockInv, CacheInv
<1> QED BY <1>1, Invariance, PTL

-----------------------------------------------------------------------------
\* The version a step leaves in an entry it keeps is the one it found, unless
\* set() replaced an expired entry.
LEMMA CopyKeptStep ==
  ASSUME LockInv, Next, NEW i \in Ids,
         data[i] # None, data'[i] # None, data[i].ver # data'[i].ver
  PROVE  Expired(data[i])
<1>1. data \in DataMap /\ data[i] \in Entry
  BY DEF LockInv, TypeOK, DataMap
<1>2. ASSUME NEW t \in Threads, LookupHit(t)
      PROVE  FALSE
  <2>1. data'[i] = data[i] \/ data'[i] = [data[i] EXCEPT !.count = @ + 1]
    BY <1>1, <1>2 DEF LookupHit, DataMap
  <2> QED BY <1>1, <2>1 DEF Entry
<1>3. ASSUME NEW t \in Threads, StampHit(t)
      PROVE  FALSE
  <2>1. data'[i] = data[i] \/ data'[i] = [data[i] EXCEPT !.last = call[t].stamp]
    BY <1>1, <1>3 DEF StampHit, DataMap
  <2> QED BY <1>1, <2>1 DEF Entry
<1>4. ASSUME NEW t \in Threads, StoreValue(t)
      PROVE  Expired(data[i])
  <2>1. /\ call[t].id \in Ids /\ call[t].ver \in Nat /\ clock \in Nat
        /\ data' \in SetOutcomes(data, call[t].id, call[t].ver, clock, strategy, ~workerTx)
    BY <1>4 DEF LockInv, TypeOK, LocalsOK, Locals, StoreValue
  <2>2. /\ \A j \in Ids : j # call[t].id => data'[j] = data[j] \/ data'[j] = None
        /\ ~SetInserts(data, call[t].id) => data' = data
        /\ SetInserts(data, call[t].id) =>
              data[call[t].id] = None \/ Expired(data[call[t].id])
    BY <1>1, <2>1, SetFacts
  <2> QED BY <2>1, <2>2
<1>5. ASSUME NEW t \in Threads, ReadBack(t)
      PROVE  FALSE
  <2>1. data'[i] = data[i] \/ data'[i] = Accessed(data[i], clock)
    BY <1>1, <1>5 DEF ReadBack, DataMap
  <2>2. clock \in Nat
    BY DEF LockInv, TypeOK
  <2> QED BY <1>1, <2>1, <2>2, AccessedFacts
<1>6. ASSUME NEW t \in Threads, (\E j \in Ids : ImcRemove(t, j)) \/ ImcClear(t)
      PROVE  FALSE
  <2>1. data'[i] = data[i] \/ data'[i] = None
    BY <1>1, <1>6 DEF ImcRemove, RemoveData, ImcClear, EmptyData, DataMap
  <2> QED BY <2>1
<1>7. ASSUME TimePasses
      PROVE  FALSE
  BY <1>1, <1>7, AgedFacts DEF TimePasses
<1>8. CASE data' = data
  BY <1>8
<1>9. ASSUME NEW t \in Threads,
             \/ (\E a \in Args : ThroughImc(t, a)) \/ TickHit(t) \/ LookupMiss(t)
             \/ Compute(t) \/ ComputeOversized(t) \/ Abandon(t)
             \/ ReadBackPanics(t) \/ LockPanics(t) \/ WritePanics(t)
      PROVE  data' = data
  BY <1>9 DEF ThroughImc, TickHit, LookupMiss, Compute, ComputeOversized, Abandon,
     ReadBackPanics, LockPanics, WritePanics, cacheVars
<1>10. ASSUME (\E j \in Ids : DbUpdate(j)) \/ Finished
       PROVE  data' = data
  BY <1>10 DEF DbUpdate, Finished, cacheVars, vars
<1> QED
  BY <1>2, <1>3, <1>4, <1>5, <1>6, <1>7, <1>8, <1>9, <1>10 DEF Next, Proceed

\* The copy stored first stays canonical while its entry lives.
THEOREM CanonicalCopy == Spec => CanonicalCopyKept
<1> DEFINE Kept == \A i \in Ids :
             (data[i] # None /\ data'[i] # None /\ data[i].ver # data'[i].ver)
               => Expired(data[i])
<1>1. IInv /\ [Next]_vars => [Kept]_vars
  BY CopyKeptStep DEF IInv, LockInv
<1>2. Spec => [][Kept]_vars
  BY <1>1, Invariance, PTL DEF Spec
<1> QED BY <1>2 DEF CanonicalCopyKept

\* Once poisoned, the lock lets nobody store, bind, remove or clear.
LEMMA DeadStep ==
  ASSUME LockInv, Next, poisoned
  PROVE  poisoned' /\ Cached(data') = Cached(data) /\ index' = index
<1>1. ASSUME (\E t \in Threads : StampHit(t) \/ ReadBack(t)) \/ TimePasses
      PROVE  poisoned' /\ Cached(data') = Cached(data) /\ index' = index
  <2>1. \A j \in Ids : data'[j] # None <=> data[j] # None
    BY <1>1, EntriesKept
  <2>2. Cached(data') = Cached(data)
    BY <2>1 DEF Cached
  <2> QED BY <1>1, <2>2 DEF StampHit, ReadBack, TimePasses, lockVars
<1>2. ASSUME NEW t \in Threads,
             \/ (\E a \in Args : ThroughImc(t, a)) \/ TickHit(t)
             \/ Compute(t) \/ ComputeOversized(t) \/ Abandon(t)
             \/ ReadBackPanics(t) \/ LockPanics(t) \/ WritePanics(t)
      PROVE  poisoned' /\ Cached(data') = Cached(data) /\ index' = index
  BY <1>2 DEF ThroughImc, TickHit, Compute, ComputeOversized, Abandon,
     ReadBackPanics, LockPanics, WritePanics, cacheVars, lockVars
<1>3. ASSUME NEW t \in Threads,
             \/ LookupHit(t) \/ LookupMiss(t) \/ StoreValue(t)
             \/ (\E j \in Ids : ImcRemove(t, j)) \/ ImcClear(t)
      PROVE  FALSE
  BY <1>3 DEF LookupHit, LookupMiss, StoreValue, ImcRemove, ImcClear
<1>4. ASSUME (\E j \in Ids : DbUpdate(j)) \/ Finished
      PROVE  poisoned' /\ Cached(data') = Cached(data) /\ index' = index
  BY <1>4 DEF DbUpdate, Finished, cacheVars, lockVars, vars
<1> QED BY <1>1, <1>2, <1>3, <1>4 DEF Next, Proceed

\* One panic under the write lock ends caching for good.
THEOREM PoisonIsFinal == Spec => DeadAfterPoison
<1>1. IInv /\ [Next]_vars => [poisoned =>
        poisoned' /\ Cached(data') = Cached(data) /\ index' = index]_vars
  BY DeadStep DEF IInv, LockInv
<1> QED BY <1>1, Invariance, PTL DEF Spec, DeadAfterPoison

-----------------------------------------------------------------------------
(***************************************************************************)
(* ImcApi implements MemoTable, for every number of threads, arguments and *)
(* identities, every capacity, time-to-live and strategy.  A caller's step *)
(* out of compute, store, lookup or a lock is the abstract step of that    *)
(* name, removal and time are Forget, and everything else stutters.  What  *)
(* the simulation needs of the concrete state is LockInv: a caller that    *)
(* has its answer is in the lock (TypeOK), its entry is there (HitHeld,    *)
(* StoredValueReadable), and so nobody replaces it meanwhile.              *)
(***************************************************************************)

\* The abstract phase of each step of a call.
LEMMA PhaseTable ==
  /\ PhaseOf["idle"] = "idle" /\ PhaseOf["lookup"] = "asking"
  /\ PhaseOf["compute"] = "computing" /\ PhaseOf["store"] = "offering"
  /\ \A step \in {"tick", "stamp", "readback"} : PhaseOf[step] = "answered"
  /\ PhaseOf["panicked"] = "failed"
BY DEF PhaseOf

\* A step of t moves the abstract phase of t alone.
LEMMA PhaseMoves ==
  ASSUME LockInv, NEW t \in Threads, NEW step \in Steps, pc' = [pc EXCEPT ![t] = step]
  PROVE  Memo!Enter(t, PhaseOf[pc[t]], PhaseOf[step])
<1>1. pc \in [Threads -> Steps]
  BY DEF LockInv, TypeOK
<1>2. Phase' = [Phase EXCEPT ![t] = PhaseOf[step]]
  BY <1>1 DEF Phase
<1> QED BY <1>2 DEF Memo!Enter, Phase

\* ... and what t wants alone.
LEMMA WantMoves ==
  ASSUME NEW t \in Threads, \A s \in Threads \ {t} : call'[s] = call[s]
  PROVE  /\ Want' = [Want EXCEPT ![t] = call'[t].args]
         /\ Want[t] = call[t].args
BY DEF Want

Answered(s) == pc[s] \in {"tick", "stamp", "readback"}

\* ... and the answer of t alone, if entries others were answered with stay.
LEMMA GotMoves ==
  ASSUME NEW t \in Threads,
         \A s \in Threads \ {t} : pc'[s] = pc[s] /\ call'[s] = call[s],
         \A s \in Threads \ {t} : Answered(s) =>
           data'[call[s].id].ver = data[call[s].id].ver
  PROVE  Got' = [Got EXCEPT ![t] = Answer(t)'] /\ Got[t] = Answer(t)
<1>1. ASSUME NEW s \in Threads \ {t}
      PROVE  Answer(s)' = Answer(s)
  BY DEF Answer, Answered
<1> QED BY <1>1 DEF Got

\* The canonical copies are those of entries that keep version and age.
LEMMA CanonicalKept ==
  ASSUME \A i \in Ids : data'[i] = None <=> data[i] = None,
         \A i \in Ids : data[i] # None =>
           data'[i].ver = data[i].ver /\ data'[i].age = data[i].age
  PROVE  Canonical' = Canonical
BY DEF Canonical, Expired

\* Return and Panic.
LEMMA CallEnds ==
  ASSUME LockInv, NEW t \in Threads, NEW step \in {"idle", "panicked"},
         pc' = [pc EXCEPT ![t] = step], call' = [call EXCEPT ![t] = NoCall],
         \A s \in Threads \ {t} : Answered(s) =>
           data'[call[s].id].ver = data[call[s].id].ver
  PROVE  Memo!Leave(t, PhaseOf[pc[t]], PhaseOf[step])
<1>1. pc \in [Threads -> Steps] /\ call \in [Threads -> Locals] /\ step \in Steps
  BY DEF LockInv, TypeOK, Steps
<1>2. /\ \A s \in Threads \ {t} : pc'[s] = pc[s] /\ call'[s] = call[s]
      /\ pc'[t] = step /\ call'[t] = NoCall
  BY <1>1
<1>3. Memo!Enter(t, PhaseOf[pc[t]], PhaseOf[step])
  BY <1>1, PhaseMoves
<1>4. Want' = [Want EXCEPT ![t] = None]
  BY <1>2, WantMoves DEF NoCall
<1>5. Got' = [Got EXCEPT ![t] = None]
  <2>1. Answer(t)' = None
    BY <1>2 DEF Answer
  <2> QED BY <1>2, <2>1, GotMoves
<1> QED BY <1>3, <1>4, <1>5 DEF Memo!Leave

-----------------------------------------------------------------------------
\* A call begins: nothing but its caller's phase and argument changes.
LEMMA AskStep ==
  ASSUME LockInv, NEW t \in Threads, NEW a \in Args, ThroughImc(t, a)
  PROVE  Memo!Ask(t, a)
<1>1. /\ pc \in [Threads -> Steps] /\ call \in [Threads -> Locals]
      /\ pc[t] = "idle" /\ pc' = [pc EXCEPT ![t] = "lookup"]
      /\ call' = [call EXCEPT ![t].args = a] /\ data' = data /\ index' = index
  BY DEF LockInv, TypeOK, ThroughImc, Goto, cacheVars
<1>2. Memo!Enter(t, "idle", "asking")
  BY <1>1, PhaseMoves, PhaseTable DEF Steps
<1>3. call'[t].args = a /\ \A s \in Threads \ {t} : call'[s] = call[s] /\ pc'[s] = pc[s]
  BY <1>1 DEF Locals
<1>4. Want' = [Want EXCEPT ![t] = a]
  BY <1>3, WantMoves
<1>5. Got' = Got
  <2>1. Answer(t)' = Answer(t)
    BY <1>1 DEF Answer
  <2>2. Got' = [Got EXCEPT ![t] = Answer(t)'] /\ Got[t] = Answer(t)
    BY <1>1, <1>3, GotMoves
  <2> QED BY <2>1, <2>2 DEF Got
<1>6. Canonical' = Canonical
  BY <1>1, CanonicalKept
<1> QED BY <1>1, <1>2, <1>4, <1>5, <1>6 DEF Memo!Ask

\* A hit is answered with the copy the table has.
LEMMA ServeStep ==
  ASSUME LockInv, NEW t \in Threads, LookupHit(t)
  PROVE  Memo!Serve(t)
<1> DEFINE i == index[call[t].args]
<1>1. /\ pc \in [Threads -> Steps] /\ call \in [Threads -> Locals] /\ data \in DataMap
      /\ call[t].args \in Args /\ i \in Ids /\ i # None /\ data[i] # None /\ ~Expired(data[i])
      /\ data[i] \in Entry
  BY DEF LockInv, TypeOK, LocalsOK, LookupHit, Hit, DataMap, IndexMap
<1>2. /\ pc[t] = "lookup" /\ pc' = [pc EXCEPT ![t] = "tick"]
      /\ data' = [data EXCEPT ![i].count = @ + 1]
      /\ call' = [call EXCEPT ![t].id = i] /\ index' = index
  BY DEF LookupHit, Goto
<1>3. /\ \A j \in Ids : data'[j] = None <=> data[j] = None
      /\ \A j \in Ids : data[j] # None =>
           data'[j].ver = data[j].ver /\ data'[j].age = data[j].age
  BY <1>1, <1>2, CacheAssumption DEF DataMap, Entry
<1>4. /\ pc'[t] = "tick" /\ call'[t].id = i /\ call'[t].args = call[t].args
      /\ \A s \in Threads \ {t} : pc'[s] = pc[s] /\ call'[s] = call[s]
  BY <1>1, <1>2 DEF Locals
<1>5. \A s \in Threads : Answered(s) => call[s].id \in Ids /\ data[call[s].id] # None
  BY DEF LockInv, LocalsOK, HitHeld, StoredValueReadable, Answered
<1>6. Memo!Enter(t, "asking", "answered")
  BY <1>2, PhaseMoves, PhaseTable DEF Steps
<1>7. Canonical' = Canonical /\ Canonical[i] = data[i].ver /\ Canonical[i] # None
  <2>1. data[i].ver \in Nat /\ \A n \in Nat : n # None
    BY <1>1, VersionAssumption DEF Entry
  <2> QED BY <1>1, <1>3, <2>1, CanonicalKept DEF Canonical
<1>8. Want' = Want /\ Want[t] = call[t].args
  BY <1>4, WantMoves DEF Want
<1>9. Got' = [Got EXCEPT ![t] = [id |-> i, ver |-> data[i].ver]]
  <2>1. Answer(t)' = [id |-> i, ver |-> data[i].ver]
    BY <1>1, <1>3, <1>4 DEF Answer
  <2> QED BY <1>3, <1>4, <1>5, <2>1, GotMoves
<1> QED BY <1>1, <1>2, <1>6, <1>7, <1>8, <1>9 DEF Memo!Serve, Memo!Known

\* A miss changes nothing: the argument is unbound, or its copy lost.
LEMMA MissStep ==
  ASSUME LockInv, NEW t \in Threads, LookupMiss(t)
  PROVE  Memo!Miss(t)
<1>1. /\ pc[t] = "lookup" /\ pc' = [pc EXCEPT ![t] = "compute"]
      /\ UNCHANGED <<data, index, call>> /\ ~Hit(data, index, call[t].args)
      /\ pc \in [Threads -> Steps] /\ index \in IndexMap /\ call[t].args \in Args
  BY DEF LockInv, TypeOK, LocalsOK, LookupMiss, Goto, cacheVars
<1>2. Memo!Enter(t, "asking", "computing")
  BY <1>1, PhaseMoves, PhaseTable DEF Steps
<1>3. ~Memo!Known(Want[t])
  BY <1>1 DEF Memo!Known, Want, Canonical, Hit, IndexMap
<1>4. Got' = Got
  BY <1>1 DEF Got, Answer
<1> QED BY <1>1, <1>2, <1>3, <1>4, CanonicalKept DEF Memo!Miss, Want

\* The closure's value is any version of an identity, and only t's answer changes.
LEMMA ComputeStep ==
  ASSUME LockInv, NEW t \in Threads, Compute(t)
  PROVE  Memo!Compute(t)
<1>1. PICK i \in Answers[call[t].args] :
           call' = [call EXCEPT ![t] = [@ EXCEPT !.id = i, !.ver = db[i]]]
  BY DEF Compute
<1>2. /\ pc[t] = "compute" /\ pc' = [pc EXCEPT ![t] = "store"]
      /\ UNCHANGED <<data, index>> /\ i \in Ids /\ db[i] \in Nat
      /\ pc \in [Threads -> Steps] /\ call \in [Threads -> Locals]
  BY ApiAssumption DEF LockInv, TypeOK, LocalsOK, Compute, Goto, cacheVars
<1>3. /\ pc'[t] = "store" /\ call'[t].id = i /\ call'[t].ver = db[i]
      /\ call'[t].args = call[t].args
      /\ \A s \in Threads \ {t} : pc'[s] = pc[s] /\ call'[s] = call[s]
  BY <1>1, <1>2 DEF Locals
<1>4. Memo!Enter(t, "computing", "offering")
  BY <1>2, PhaseMoves, PhaseTable DEF Steps
<1>5. Want' = Want
  BY <1>3, WantMoves DEF Want
<1>6. Got' = [Got EXCEPT ![t] = Got'[t]] /\ Got'[t] \in Memo!Values
  <2>1. Answer(t)' = [id |-> i, ver |-> db[i]]
    BY <1>3 DEF Answer
  <2>2. Got' = [Got EXCEPT ![t] = Answer(t)']
    BY <1>2, <1>3, GotMoves
  <2>3. Got'[t] = Answer(t)'
    BY DEF Got
  <2>4. Answer(t)' \in Memo!Values
    BY <1>2, <2>1 DEF Memo!Values
  <2> QED BY <2>2, <2>3, <2>4
<1> QED BY <1>2, <1>4, <1>5, <1>6, CanonicalKept DEF Memo!Compute

-----------------------------------------------------------------------------
\* Whoever writes is alone: no other caller has an answer from an entry.
LEMMA WriterAlone ==
  ASSUME LockInv, NEW t \in Threads, CanWrite \/ writer = t
  PROVE  \A s \in Threads \ {t} : ~Answered(s)
<1>1. readers = {} /\ (\A s \in Threads \ {t} : writer # s)
  BY ApiAssumption DEF LockInv, TypeOK, CanWrite
<1> QED BY <1>1 DEF LockInv, TypeOK, Answered

\* Making room takes one entry at most.
LEMMA RoomMadeTakesOne ==
  ASSUME NEW d \in DataMap, NEW inline, NEW e \in RoomMade(d, strategy, inline)
  PROVE  \/ e = d
         \/ \E v \in Cached(d) : e = [d EXCEPT ![v] = None]
BY DEF RoomMade, RemoveData, EvictCandidates

\* A copy inserted takes the place of none and drives out one at most.
LEMMA InsertsOne ==
  ASSUME LockInv, NEW i \in Ids, NEW ver \in Nat, clock \in Nat,
         NEW d \in SetOutcomes(data, i, ver, clock, strategy, ~workerTx),
         data' = d, SetInserts(data, i)
  PROVE  /\ Canonical[i] = None /\ Canonical'[i] = ver
         /\ \/ Canonical' = [Canonical EXCEPT ![i] = ver]
            \/ \E v \in Ids \ {i} : Canonical' = [Canonical EXCEPT ![v] = None, ![i] = ver]
<1> DEFINE live == WithoutExpired(data, i)
<1>1. data \in DataMap /\ live \in DataMap /\ (\A j \in Ids \ {i} : live[j] = data[j])
  BY WithoutExpiredFacts DEF LockInv, TypeOK
<1>2. i \notin Cached(live) /\ (data[i] = None \/ Expired(data[i]))
  BY SetFacts, <1>1 DEF SetInserts
<1>3. PICK r \in RoomMade(live, strategy, ~workerTx) : d = [r EXCEPT ![i] = NewEntry(ver, clock)]
  BY <1>2 DEF SetOutcomes
<1>4. NewEntry(ver, clock) # None /\ ~Expired(NewEntry(ver, clock)) /\ NewEntry(ver, clock).ver = ver
  <2>1. NewEntry(ver, clock) \in Entry
    BY DEF NewEntry, Entry
  <2> QED BY <2>1, CacheAssumption DEF NewEntry, Expired
<1>5. r \in DataMap /\ d[i] = NewEntry(ver, clock) /\ (\A j \in Ids \ {i} : d[j] = r[j])
  BY <1>1, <1>3, RoomMadeFacts DEF DataMap
<1>6. Canonical[i] = None
  BY <1>2 DEF Canonical
<1>7. Canonical'[i] = ver
  BY <1>4, <1>5 DEF Canonical, Expired
<1>8. CASE r = live
  <2>1. \A j \in Ids \ {i} : Canonical'[j] = Canonical[j]
    BY <1>1, <1>5, <1>8 DEF Canonical
  <2> QED BY <1>6, <1>7, <2>1 DEF Canonical
<1>9. ASSUME NEW v \in Cached(live), r = [live EXCEPT ![v] = None]
      PROVE  Canonical' = [Canonical EXCEPT ![v] = None, ![i] = ver] /\ v \in Ids \ {i}
  <2>1. v \in Ids \ {i}
    BY <1>2 DEF Cached
  <2>2. r[v] = None /\ \A j \in Ids \ {v} : r[j] = live[j]
    BY <1>1, <1>9, <2>1 DEF DataMap
  <2>3. Canonical'[v] = None /\ \A j \in Ids \ {i, v} : Canonical'[j] = Canonical[j]
    BY <1>1, <1>5, <2>1, <2>2 DEF Canonical
  <2> QED BY <1>7, <2>1, <2>3 DEF Canonical
<1> QED BY <1>1, <1>6, <1>7, <1>8, <1>9, RoomMadeTakesOne

\* set() binds the argument and answers with the identity's copy, the one it
\* found or the one it put there.
LEMMA AdoptStep ==
  ASSUME LockInv, NEW t \in Threads, StoreValue(t)
  PROVE  Memo!Adopt(t)
<1> DEFINE i == call[t].id
           ver == call[t].ver
<1>1. /\ pc \in [Threads -> Steps] /\ call \in [Threads -> Locals] /\ data \in DataMap
      /\ clock \in Nat /\ i \in Ids /\ ver \in Nat /\ pc[t] = "store" /\ CanWrite
  BY DEF LockInv, TypeOK, LocalsOK, Locals, StoreValue
<1>2. /\ data' \in SetOutcomes(data, i, ver, clock, strategy, ~workerTx)
      /\ index' = [index EXCEPT ![call[t].args] = i]
      /\ pc' = [pc EXCEPT ![t] = "readback"] /\ call' = call
  BY DEF StoreValue, Goto
<1>3. Memo!Enter(t, "offering", "answered")
  BY <1>1, <1>2, PhaseMoves, PhaseTable DEF Steps
<1>4. Want' = Want /\ Want[t] = call[t].args
  BY <1>2 DEF Want
<1>5. \A s \in Threads \ {t} : ~Answered(s)
  BY <1>1, WriterAlone
<1>6. Answer(t) = [id |-> i, ver |-> ver] /\ Answer(t)' = [id |-> i, ver |-> data'[i].ver]
  BY <1>1, <1>2 DEF Answer
<1>7. Got' = [Got EXCEPT ![t] = Answer(t)'] /\ Got[t] = Answer(t)
  <2>1. \A s \in Threads \ {t} : pc'[s] = pc[s] /\ call'[s] = call[s]
    BY <1>1, <1>2
  <2> QED BY <1>5, <2>1, GotMoves
<1>8. /\ ~SetInserts(data, i) => data' = data
      /\ SetInserts(data, i) => data'[i] = NewEntry(ver, clock)
      /\ data'[i] # None
  BY <1>1, <1>2, SetFacts
<1>9. ASSUME NEW w, Answer(t)' = [id |-> i, ver |-> w]
       PROVE  Got' = [Got EXCEPT ![t].ver = w]
  <2>1. [Got[t] EXCEPT !.ver = w] = [id |-> i, ver |-> w]
    BY <1>6, <1>7
  <2> QED BY <1>7, <1>9, <2>1
<1>10. Got[t].id = i /\ Got[t].ver = ver
  BY <1>6, <1>7
<1>11. CASE SetInserts(data, i)
  <2>1. /\ Canonical[i] = None /\ Canonical'[i] = ver
        /\ \/ Canonical' = [Canonical EXCEPT ![i] = ver]
           \/ \E v \in Ids \ {i} : Canonical' = [Canonical EXCEPT ![v] = None, ![i] = ver]
    BY <1>1, <1>2, <1>11, InsertsOne
  <2>2. data'[i].ver = ver
    BY <1>8, <1>11 DEF NewEntry
  <2>3. Answer(t)' = [id |-> i, ver |-> Canonical'[i]]
    BY <1>6, <2>1, <2>2
  <2>4. Got' = [Got EXCEPT ![t].ver = Canonical'[i]]
    BY <1>9, <2>3
  <2> QED BY <1>2, <1>3, <1>4, <1>10, <2>1, <2>4 DEF Memo!Adopt
<1>12. CASE ~SetInserts(data, i)
  <2>1. data' = data /\ data[i] # None /\ ~Expired(data[i]) /\ data[i] \in Entry
    BY <1>1, <1>8, <1>12 DEF SetInserts, Cached, WithoutExpired, RemoveData, DataMap
  <2>2. Canonical' = Canonical /\ Canonical[i] = data[i].ver /\ Canonical[i] # None
    <3>1. data[i].ver \in Nat /\ \A n \in Nat : n # None
      BY <2>1, VersionAssumption DEF Entry
    <3>2. Canonical' = Canonical
      BY <2>1, CanonicalKept
    <3> QED BY <1>1, <2>1, <3>1, <3>2 DEF Canonical
  <2>3. Answer(t)' = [id |-> i, ver |-> Canonical'[i]]
    BY <1>6, <2>1, <2>2
  <2>4. Got' = [Got EXCEPT ![t].ver = Canonical'[i]]
    BY <1>9, <2>3
  <2> QED BY <1>2, <1>3, <1>4, <1>10, <2>2, <2>4 DEF Memo!Adopt
<1> QED BY <1>11, <1>12

\* The call returns the answer it has; the entry's metadata is not the table's.
LEMMA ReplyStep ==
  ASSUME LockInv, NEW t \in Threads, StampHit(t) \/ ReadBack(t)
  PROVE  Memo!Reply(t)
<1>1. /\ pc \in [Threads -> Steps] /\ data \in DataMap /\ clock \in Nat
      /\ call[t].args \in Args /\ call[t].id \in Ids /\ call[t].stamp \in Nat
      /\ data[call[t].id] # None /\ PhaseOf[pc[t]] = "answered"
  BY PhaseTable DEF LockInv, TypeOK, LocalsOK, Locals, HitHeld, StoredValueReadable,
     StampHit, ReadBack
<1>2. /\ pc' = [pc EXCEPT ![t] = "idle"] /\ call' = [call EXCEPT ![t] = NoCall]
      /\ index' = index
  BY DEF StampHit, ReadBack, Return, Goto
<1>3. /\ \A j \in Ids : data'[j] = None <=> data[j] = None
      /\ \A j \in Ids : data[j] # None =>
           data'[j].ver = data[j].ver /\ data'[j].age = data[j].age
  <2> DEFINE i == call[t].id
  <2>1. data[i] \in Entry
    BY <1>1 DEF DataMap
  <2>2. CASE StampHit(t)
    <3>1. data' = [data EXCEPT ![i].last = call[t].stamp]
      BY <2>2 DEF StampHit
    <3> QED BY <1>1, <2>1, <3>1, CacheAssumption DEF DataMap, Entry
  <2>3. CASE ReadBack(t)
    <3>1. data' = [data EXCEPT ![i] = Accessed(data[i], clock)]
      BY <2>3 DEF LockInv, StoredValueReadable, ReadBack
    <3>2. /\ Accessed(data[i], clock) # None
          /\ Accessed(data[i], clock).ver = data[i].ver
          /\ Accessed(data[i], clock).age = data[i].age
      BY <1>1, <2>1, AccessedFacts, CacheAssumption
    <3> QED BY <1>1, <3>1, <3>2 DEF DataMap
  <2> QED BY <2>2, <2>3
<1>4. \A s \in Threads : Answered(s) => call[s].id \in Ids /\ data[call[s].id] # None
  BY DEF LockInv, LocalsOK, HitHeld, StoredValueReadable, Answered
<1>5. Memo!Leave(t, "answered", PhaseOf["idle"])
  BY <1>1, <1>2, <1>3, <1>4, CallEnds
<1>6. Canonical' = Canonical
  BY <1>3, CanonicalKept
<1> QED BY <1>2, <1>5, <1>6, PhaseTable DEF Memo!Reply

\* A value that is not cached or not computed leaves the table as it is.
LEMMA BypassStep ==
  ASSUME LockInv, NEW t \in Threads, ComputeOversized(t) \/ Abandon(t)
  PROVE  Memo!Bypass(t)
<1>1. /\ pc[t] = "compute" /\ UNCHANGED <<data, index>>
      /\ pc' = [pc EXCEPT ![t] = "idle"] /\ call' = [call EXCEPT ![t] = NoCall]
  BY DEF ComputeOversized, Abandon, Return, Goto, cacheVars
<1>2. Memo!Leave(t, "computing", "idle")
  BY <1>1, CallEnds, PhaseTable
<1>3. Canonical' = Canonical
  BY <1>1, CanonicalKept
<1> QED BY <1>1, <1>2, <1>3 DEF Memo!Bypass

\* ... and so does a panic, also the one that poisons the lock.
LEMMA FailStep ==
  ASSUME LockInv, NEW t \in Threads, ReadBackPanics(t) \/ LockPanics(t) \/ WritePanics(t)
  PROVE  Memo!Fail(t)
<1>1. /\ UNCHANGED <<data, index>>
      /\ pc' = [pc EXCEPT ![t] = "panicked"] /\ call' = [call EXCEPT ![t] = NoCall]
  BY DEF ReadBackPanics, LockPanics, WritePanics, Panic, Goto, cacheVars
<1>2. Memo!Leave(t, Phase[t], "failed")
  BY <1>1, CallEnds, PhaseTable DEF Phase
<1>3. Canonical' = Canonical
  BY <1>1, CanonicalKept
<1> QED BY <1>1, <1>2, <1>3 DEF Memo!Fail

\* Removal, clearing and time take copies and bindings away; no caller has an
\* answer meanwhile, or it keeps it.
LEMMA ForgetStep ==
  ASSUME LockInv,
         \/ \E t \in Threads : ImcClear(t) \/ \E i \in Ids : ImcRemove(t, i)
         \/ TimePasses
  PROVE  Memo!Forget
<1>1. pc' = pc /\ call' = call
  BY DEF ImcClear, ImcRemove, TimePasses
<1>2. data \in DataMap /\ index \in IndexMap
  BY DEF LockInv, TypeOK
<1> DEFINE Lost ==
      /\ \A a \in Args : index'[a] \in {index[a], None}
      /\ \A i \in Ids : Canonical'[i] \in {Canonical[i], None}
      /\ \A s \in Threads : Answered(s) => data'[call[s].id].ver = data[call[s].id].ver
<1>3. Lost
  <2>1. ASSUME NEW t \in Threads, ImcClear(t) \/ \E i \in Ids : ImcRemove(t, i)
        PROVE  Lost
    <3>1. pc[t] = "idle" /\ CanWrite
      BY <2>1 DEF ImcClear, ImcRemove
    <3>2. \A s \in Threads : ~Answered(s)
      BY <3>1, WriterAlone DEF Answered
    <3>3. \A a \in Args : index'[a] \in {index[a], None}
      BY <1>2, <2>1 DEF ImcClear, ImcRemove, EmptyIndex, IndexMap
    <3>4. \A i \in Ids : data'[i] \in {data[i], None}
      BY <1>2, <2>1 DEF ImcClear, ImcRemove, EmptyData, RemoveData, DataMap
    <3> QED BY <3>2, <3>3, <3>4 DEF Canonical
  <2>2. ASSUME TimePasses
        PROVE  Lost
    <3>1. data' = Aged(data) /\ index' = index
      BY <2>2 DEF TimePasses
    <3>2. \A i \in Ids :
            /\ data'[i] # None <=> data[i] # None
            /\ data[i] # None =>
                 data'[i].ver = data[i].ver /\ (Expired(data[i]) => Expired(data'[i]))
      BY <1>2, <3>1, AgedFacts
    <3>3. \A s \in Threads : Answered(s) => call[s].id \in Ids /\ data[call[s].id] # None
      BY DEF LockInv, LocalsOK, HitHeld, StoredValueReadable, Answered
    <3> QED BY <3>1, <3>2, <3>3 DEF Canonical
  <2> QED BY <2>1, <2>2
<1>4. UNCHANGED <<Phase, Want>>
  BY <1>1 DEF Phase, Want
<1>5. Got' = Got
  BY <1>1, <1>3 DEF Got, Answer, Answered
<1> QED BY <1>3, <1>4, <1>5 DEF Memo!Forget

\* A tick, the system of record and the end of the behaviour are not the table's.
LEMMA StutterStep ==
  ASSUME LockInv,
         \/ \E t \in Threads : TickHit(t)
         \/ \E i \in Ids : DbUpdate(i)
         \/ Finished \/ UNCHANGED vars
  PROVE  UNCHANGED Memo!mvars
<1>1. data' = data /\ index' = index
  BY DEF TickHit, DbUpdate, Finished, vars, cacheVars
<1>2. /\ Phase' = Phase /\ Want' = Want /\ Got' = Got
  <2>1. CASE pc' = pc /\ call' = call
    BY <1>1, <2>1 DEF Phase, Want, Got, Answer
  <2>2. ASSUME NEW t \in Threads, TickHit(t)
        PROVE  Phase' = Phase /\ Want' = Want /\ Got' = Got
    <3>1. /\ pc \in [Threads -> Steps] /\ call \in [Threads -> Locals] /\ pc[t] = "tick"
          /\ pc' = [pc EXCEPT ![t] = "stamp"] /\ call' = [call EXCEPT ![t].stamp = clock]
      BY <2>2 DEF LockInv, TypeOK, TickHit, Goto
    <3>2. /\ pc'[t] = "stamp" /\ call'[t].args = call[t].args /\ call'[t].id = call[t].id
          /\ \A s \in Threads \ {t} : pc'[s] = pc[s] /\ call'[s] = call[s]
      BY <3>1 DEF Locals
    <3>3. PhaseOf["tick"] = PhaseOf["stamp"]
      BY PhaseTable
    <3>4. Phase' = Phase
      BY <3>1, <3>2, <3>3 DEF Phase
    <3>5. Want' = Want
      BY <3>2 DEF Want
    <3>6. \A s \in Threads : Answer(s)' = Answer(s)
      BY <1>1, <3>1, <3>2 DEF Answer
    <3> QED BY <3>4, <3>5, <3>6 DEF Got
  <2>3. (\E i \in Ids : DbUpdate(i)) \/ Finished \/ UNCHANGED vars => pc' = pc /\ call' = call
    BY DEF DbUpdate, Finished, vars
  <2> QED BY <2>1, <2>2, <2>3
<1>3. Canonical' = Canonical
  BY <1>1, CanonicalKept
<1> QED BY <1>1, <1>2, <1>3 DEF Memo!mvars

\* Whoever finds the lock free and only takes away makes the table forget ...
LEMMA WriterForgets ==
  ASSUME LockInv, CanWrite, UNCHANGED <<pc, call>>,
         \A i \in Ids : data'[i] \in {data[i], None},
         \A a \in Args : index'[a] \in {index[a], None}
  PROVE  Memo!Forget
<1>1. \A s \in Threads : ~Answered(s)
  BY ApiAssumption DEF LockInv, TypeOK, CanWrite, Answered
<1>2. \A i \in Ids : Canonical'[i] \in {Canonical[i], None}
  BY DEF Canonical
<1>3. UNCHANGED <<Phase, Want>>
  BY DEF Phase, Want
<1>4. Got' = Got
  BY <1>1 DEF Got, Answer, Answered
<1> QED BY <1>2, <1>3, <1>4 DEF Memo!Forget

\* ... and what touches neither the maps nor a call leaves the table alone.
LEMMA TableUntouched ==
  ASSUME UNCHANGED <<data, index, pc, call>>
  PROVE  UNCHANGED Memo!mvars
<1>1. Canonical' = Canonical /\ Phase' = Phase /\ Want' = Want /\ Got' = Got
  BY DEF Canonical, Phase, Want, Got, Answer
<1> QED BY <1>1 DEF Memo!mvars

-----------------------------------------------------------------------------
\* The cache starts as an empty table.
LEMMA InitTable == Init => Memo!MInit
<1> SUFFICES ASSUME Init PROVE Memo!MInit
  OBVIOUS
<1>1. \A t \in Threads : Answer(t) = None
  BY DEF Init, Answer
<1>2. Got = [t \in Threads |-> None]
  BY <1>1 DEF Got
<1>3. Want = [t \in Threads |-> None]
  BY DEF Want, Init, NoCall
<1>4. Phase = [t \in Threads |-> "idle"]
  BY PhaseTable DEF Phase, Init
<1>5. Canonical = [i \in Ids |-> None] /\ index = [a \in Args |-> None]
  BY DEF Canonical, Init, EmptyData, EmptyIndex
<1> QED BY <1>2, <1>3, <1>4, <1>5 DEF Memo!MInit

\* Every step of the cache is a step of the table or leaves it alone.
LEMMA StepTable == LockInv /\ [Next]_vars => [Memo!MNext]_Memo!mvars
<1> SUFFICES ASSUME LockInv, [Next]_vars PROVE [Memo!MNext]_Memo!mvars
  OBVIOUS
<1> USE DEF Memo!MNext
<1>1. ASSUME NEW t \in Threads, NEW a \in Args, ThroughImc(t, a)
      PROVE  Memo!MNext
  BY <1>1, AskStep
<1>2. ASSUME NEW t \in Threads, LookupHit(t)
      PROVE  Memo!MNext
  BY <1>2, ServeStep
<1>3. ASSUME NEW t \in Threads, LookupMiss(t)
      PROVE  Memo!MNext
  BY <1>3, MissStep
<1>4. ASSUME NEW t \in Threads, Compute(t)
      PROVE  Memo!MNext
  BY <1>4, ComputeStep
<1>5. ASSUME NEW t \in Threads, StoreValue(t)
      PROVE  Memo!MNext
  BY <1>5, AdoptStep
<1>6. ASSUME NEW t \in Threads, StampHit(t) \/ ReadBack(t)
      PROVE  Memo!MNext
  BY <1>6, ReplyStep
<1>7. ASSUME NEW t \in Threads, ComputeOversized(t) \/ Abandon(t)
      PROVE  Memo!MNext
  BY <1>7, BypassStep
<1>8. ASSUME NEW t \in Threads, ReadBackPanics(t) \/ LockPanics(t) \/ WritePanics(t)
      PROVE  Memo!MNext
  BY <1>8, FailStep
<1>9. ASSUME \/ \E t \in Threads : ImcClear(t) \/ \E i \in Ids : ImcRemove(t, i)
             \/ TimePasses
      PROVE  Memo!MNext
  BY <1>9, ForgetStep
<1>10. ASSUME \/ \E t \in Threads : TickHit(t)
              \/ \E i \in Ids : DbUpdate(i)
              \/ Finished \/ UNCHANGED vars
       PROVE  UNCHANGED Memo!mvars
  BY <1>10, StutterStep
<1> QED
  BY <1>1, <1>2, <1>3, <1>4, <1>5, <1>6, <1>7, <1>8, <1>9, <1>10 DEF Next, Proceed

\* README.md, "One data copy per unique identity": the cache implements the table
\* of one copy per identity, whatever its strategy, limits and interleavings.
THEOREM Refinement == Spec => MemoSpec
<1>1. Init => Memo!MInit
  BY InitTable
<1>2. IInv /\ [Next]_vars => [Memo!MNext]_Memo!mvars
  BY StepTable DEF IInv, LockInv
<1> QED BY <1>1, <1>2, Invariance, PTL DEF Spec, MemoSpec, Memo!MSpec
=============================================================================
