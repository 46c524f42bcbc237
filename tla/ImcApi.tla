------------------------------- MODULE ImcApi -------------------------------
(***************************************************************************)
(* The public functions of api.rs called by the threads of one process on  *)
(* the cache of one type.  through_imc is three critical sections with     *)
(* caller code between them:                                               *)
(*   lookup    under the read lock; a hit then counts and stamps its entry *)
(*             with atomics while other readers do the same;               *)
(*   compute   the caller's closure, under no lock;                        *)
(*   store     under the write lock: set(), then get() of what was stored, *)
(*             which panics when it finds nothing and so poisons the lock. *)
(* imc_remove and imc_clear are one write-locked step each.  imc_len and   *)
(* the metrics change nothing this module keeps.                           *)
(***************************************************************************)
EXTENDS PerTypeCache

CONSTANTS
  Policies,   \* strategies a cacheable type may declare
  Threads,    \* threads (or tasks) of the process
  Answers,    \* identities the closure of given arguments may find
  Oversized,  \* versions whose values exceed cache_max_value_size()
  MaxVer,     \* bound on updates of the system of record, per identity
  MaxCalls    \* bound on the calls of all threads together

ASSUME ApiAssumption ==
  /\ Policies \subseteq Strategies
  /\ None \notin Threads
  /\ Answers \in [Args -> SUBSET Ids]
  /\ Oversized \subseteq Nat
  /\ MaxVer \in Nat
  /\ MaxCalls \in Nat

VARIABLES
  strategy,   \* T::cache_strategy(), fixed for a behaviour
  data, index,\* the PerTypeCache of T
  clock,      \* COUNTER of tick()
  readers,    \* threads holding the read lock of GlobalCache.stores
  writer,     \* the thread holding its write lock, or None
  poisoned,   \* a thread panicked while holding the write lock
  workerTx,   \* WORKER_TX holds a sender
  db,         \* version of each identity in the system of record
  pc, call,   \* per thread: next step, and the locals of its call
  calls       \* calls begun so far

cacheVars == <<strategy, data, index, clock>>
lockVars  == <<readers, writer, poisoned>>
vars == <<cacheVars, lockVars, workerTx, db, pc, call, calls>>

NoCall == [args |-> None, id |-> None, ver |-> 0, stamp |-> 0]

Locals == [args: Args \cup {None}, id: Ids \cup {None}, ver: Nat, stamp: Nat]

Steps == {"idle", "lookup", "tick", "stamp", "compute", "store", "readback",
          "panicked"}

Init ==
  /\ strategy \in Policies
  /\ data = EmptyData
  /\ index = EmptyIndex
  /\ clock = 1
  /\ readers = {} /\ writer = None /\ poisoned = FALSE
  /\ workerTx = FALSE
  /\ db = [i \in Ids |-> 0]
  /\ pc = [t \in Threads |-> "idle"]
  /\ call = [t \in Threads |-> NoCall]
  /\ calls = 0

-----------------------------------------------------------------------------
(* The lock around all caches: many readers or one writer. *)

CanRead  == writer = None

CanWriteAmongReaders == writer = None   \* mutant: a read lock is enough to write
CanWriteAmongWriters == readers = {}    \* mutant: two writers

CanWrite == writer = None /\ readers = {}

Goto(t, step) == pc' = [pc EXCEPT ![t] = step]

\* The call of t is over: with a value, or by a panic that ends the thread.
Return(t) == Goto(t, "idle") /\ call' = [call EXCEPT ![t] = NoCall]
Panic(t)  == Goto(t, "panicked") /\ call' = [call EXCEPT ![t] = NoCall]

-----------------------------------------------------------------------------
(* through_imc *)

ThroughImc(t, a) ==
  /\ pc[t] = "idle" /\ calls < MaxCalls
  /\ calls' = calls + 1
  /\ call' = [call EXCEPT ![t].args = a]
  /\ Goto(t, "lookup")
  /\ UNCHANGED <<cacheVars, lockVars, workerTx, db>>

\* stores.read().unwrap() and get(): the value is cloned and the access
\* counted; the read lock stays held for the next two steps.
LookupHit(t) ==
  /\ pc[t] = "lookup" /\ CanRead /\ ~poisoned
  /\ Hit(data, index, call[t].args)
  /\ LET i == index[call[t].args] IN
       /\ data' = [data EXCEPT ![i].count = @ + 1]
       /\ call' = [call EXCEPT ![t].id = i]
  /\ readers' = readers \cup {t}
  /\ Goto(t, "tick")
  /\ UNCHANGED <<strategy, index, clock, writer, poisoned, workerTx, db, calls>>

TickHitShared(t) ==   \* mutant: the clock is read, not advanced
  /\ pc[t] = "tick"
  /\ call' = [call EXCEPT ![t].stamp = clock]
  /\ Goto(t, "stamp")
  /\ UNCHANGED <<cacheVars, lockVars, workerTx, db, calls>>

\* tick(): each caller gets a number of its own ...
TickHit(t) ==
  /\ pc[t] = "tick"
  /\ call' = [call EXCEPT ![t].stamp = clock]
  /\ clock' = clock + 1
  /\ Goto(t, "stamp")
  /\ UNCHANGED <<strategy, data, index, lockVars, workerTx, db, calls>>

StampHitKeepsLock(t) ==   \* mutant: the read guard outlives the call
  /\ pc[t] = "stamp"
  /\ data' = [data EXCEPT ![call[t].id].last = call[t].stamp]
  /\ Return(t)
  /\ UNCHANGED <<strategy, index, clock, lockVars, workerTx, db, calls>>

\* ... which it stores over whatever last_accessed holds by then.
StampHit(t) ==
  /\ pc[t] = "stamp"
  /\ data' = [data EXCEPT ![call[t].id].last = call[t].stamp]
  /\ readers' = readers \ {t}
  /\ Return(t)
  /\ UNCHANGED <<strategy, index, clock, writer, poisoned, workerTx, db, calls>>

\* A miss, an unbound or dangling argument or an expired entry, changes nothing.
LookupMiss(t) ==
  /\ pc[t] = "lookup" /\ CanRead /\ ~poisoned
  /\ ~Hit(data, index, call[t].args)
  /\ Goto(t, "compute")
  /\ UNCHANGED <<cacheVars, lockVars, workerTx, db, call, calls>>

\* The closure reads the system of record; its value is stored later.
Compute(t) ==
  /\ pc[t] = "compute"
  /\ \E i \in Answers[call[t].args] :
       /\ db[i] \notin Oversized
       /\ call' = [call EXCEPT ![t] = [@ EXCEPT !.id = i, !.ver = db[i]]]
  /\ Goto(t, "store")
  /\ UNCHANGED <<cacheVars, lockVars, workerTx, db, calls>>

\* A value above cache_max_value_size() is returned and not stored.
ComputeOversized(t) ==
  /\ pc[t] = "compute"
  /\ \E i \in Answers[call[t].args] : db[i] \in Oversized
  /\ Return(t)
  /\ UNCHANGED <<cacheVars, lockVars, workerTx, db, calls>>

\* The closure panics, or the future of an async call is dropped at its await.
Abandon(t) ==
  /\ pc[t] = "compute"
  /\ Return(t)
  /\ UNCHANGED <<cacheVars, lockVars, workerTx, db, calls>>

StoreValueUnbound(t) ==   \* mutant: the dedup path returns without binding args
  /\ pc[t] = "store" /\ CanWrite /\ ~poisoned
  /\ LET i == call[t].id IN
       /\ data' \in SetOutcomes(data, i, call[t].ver, clock, strategy, ~workerTx)
       /\ clock' = IF SetInserts(data, i) THEN clock + 1 ELSE clock
       /\ index' = IF SetInserts(data, i) THEN [index EXCEPT ![call[t].args] = i] ELSE index
  /\ writer' = t
  /\ Goto(t, "readback")
  /\ UNCHANGED <<strategy, readers, poisoned, workerTx, db, call, calls>>

\* stores.write().unwrap() and set(); the write lock stays held.
StoreValue(t) ==
  /\ pc[t] = "store" /\ CanWrite /\ ~poisoned
  /\ LET i == call[t].id IN
       /\ data' \in SetOutcomes(data, i, call[t].ver, clock, strategy, ~workerTx)
       /\ clock' = IF SetInserts(data, i) THEN clock + 1 ELSE clock
       /\ index' = [index EXCEPT ![call[t].args] = i]
  /\ writer' = t
  /\ Goto(t, "readback")
  /\ UNCHANGED <<strategy, readers, poisoned, workerTx, db, call, calls>>

ReadBackKeepsLock(t) ==   \* mutant: the write guard outlives the call
  /\ pc[t] = "readback"
  /\ Hit(data, index, call[t].args)
  /\ data' = [data EXCEPT ![index[call[t].args]] = Accessed(@, clock)]
  /\ clock' = clock + 1
  /\ Return(t)
  /\ UNCHANGED <<strategy, index, lockVars, workerTx, db, calls>>

\* get() of what was just stored: the canonical copy is returned ...
ReadBack(t) ==
  /\ pc[t] = "readback"
  /\ Hit(data, index, call[t].args)
  /\ data' = [data EXCEPT ![index[call[t].args]] = Accessed(@, clock)]
  /\ clock' = clock + 1
  /\ writer' = None
  /\ Return(t)
  /\ UNCHANGED <<strategy, index, readers, poisoned, workerTx, db, calls>>

\* ... or expect("value was just stored") panics and poisons the lock.
ReadBackPanics(t) ==
  /\ pc[t] = "readback"
  /\ ~Hit(data, index, call[t].args)
  /\ poisoned' = TRUE
  /\ writer' = None
  /\ Panic(t)
  /\ UNCHANGED <<cacheVars, readers, workerTx, db, calls>>

\* read().unwrap() or write().unwrap() on the poisoned lock.
LockPanics(t) ==
  /\ pc[t] \in {"lookup", "store"} /\ poisoned
  /\ Panic(t)
  /\ UNCHANGED <<cacheVars, lockVars, workerTx, db, calls>>

-----------------------------------------------------------------------------
(* imc_remove and imc_clear: the calling thread does nothing else meanwhile. *)

ImcRemoveIgnoringPoison(t, i) ==   \* mutant: into_inner() where the code unwraps
  /\ pc[t] = "idle" /\ calls < MaxCalls /\ CanWrite
  /\ data' = RemoveData(data, i)
  /\ calls' = calls + 1
  /\ UNCHANGED <<strategy, index, clock, lockVars, workerTx, db, pc, call>>

ImcRemove(t, i) ==
  /\ pc[t] = "idle" /\ calls < MaxCalls /\ CanWrite /\ ~poisoned
  /\ data' = RemoveData(data, i)
  /\ calls' = calls + 1
  /\ UNCHANGED <<strategy, index, clock, lockVars, workerTx, db, pc, call>>

ImcClear(t) ==
  /\ pc[t] = "idle" /\ calls < MaxCalls /\ CanWrite /\ ~poisoned
  /\ data' = EmptyData
  /\ index' = EmptyIndex
  /\ calls' = calls + 1
  /\ UNCHANGED <<strategy, clock, lockVars, workerTx, db, pc, call>>

\* Both unwrap the poisoned lock, too.
WritePanics(t) ==
  /\ pc[t] = "idle" /\ calls < MaxCalls /\ poisoned
  /\ calls' = calls + 1
  /\ Panic(t)
  /\ UNCHANGED <<cacheVars, lockVars, workerTx, db>>

-----------------------------------------------------------------------------
(* The environment: the system of record changes, time passes. *)

DbUpdate(i) ==
  /\ db[i] < MaxVer
  /\ db' = [db EXCEPT ![i] = @ + 1]
  /\ UNCHANGED <<cacheVars, lockVars, workerTx, pc, call, calls>>

TimePasses ==
  /\ Ttl # None
  /\ data' = Aged(data)
  /\ UNCHANGED <<strategy, index, clock, lockVars, workerTx, db, pc, call, calls>>

\* The callers have made their MaxCalls calls and all are over.
Finished ==
  /\ \A t \in Threads : pc[t] = "panicked" \/ (pc[t] = "idle" /\ calls = MaxCalls)
  /\ UNCHANGED vars

-----------------------------------------------------------------------------
\* What a thread does on its own once it is in a call.
Proceed(t) ==
  \/ LookupHit(t) \/ TickHit(t) \/ StampHit(t) \/ LookupMiss(t)
  \/ Compute(t) \/ ComputeOversized(t)
  \/ StoreValue(t) \/ ReadBack(t) \/ ReadBackPanics(t) \/ LockPanics(t)

Next ==
  \/ \E t \in Threads :
       \/ \E a \in Args : ThroughImc(t, a)
       \/ Proceed(t)
       \/ Abandon(t)
       \/ \E i \in Ids : ImcRemove(t, i)
       \/ ImcClear(t)
       \/ WritePanics(t)
  \/ \E i \in Ids : DbUpdate(i)
  \/ TimePasses
  \/ Finished

Spec == Init /\ [][Next]_vars

-----------------------------------------------------------------------------
(* Correctness. *)

\* Every variable keeps its type, and the lock is what its holders' program
\* counters say: readers are the threads inside a hit, the writer the thread
\* between set() and get(), never both.
TypeOK ==
  /\ strategy \in Strategies
  /\ data \in DataMap
  /\ index \in IndexMap
  /\ clock \in Nat \ {0}
  /\ readers = {t \in Threads : pc[t] \in {"tick", "stamp"}}
  /\ writer \in Threads \cup {None}
  /\ \A t \in Threads : pc[t] = "readback" <=> writer = t
  /\ writer # None => readers = {}
  /\ poisoned \in BOOLEAN
  /\ workerTx \in BOOLEAN
  /\ db \in [Ids -> Nat]
  /\ pc \in [Threads -> Steps]
  /\ call \in [Threads -> Locals]
  /\ calls \in Nat

\* api.rs, expect("value was just stored"): between set() and get() the
\* argument is bound to the identity stored and the entry is there, whichever
\* entry the strategy evicted for it and whatever other threads did before.
StoredValueReadable ==
  \A t \in Threads : pc[t] = "readback" =>
    /\ index[call[t].args] = call[t].id
    /\ data[call[t].id] # None

\* get() after the value was cloned: the entry whose last_accessed a reader is
\* about to store is still the cache's, whoever removes, sweeps or evicts.
HitHeld ==
  \A t \in Threads : pc[t] \in {"tick", "stamp"} => data[call[t].id] # None

\* The lock is poisoned by nothing but an entry that expired before it was read
\* back: a type without a time-to-live never makes through_imc panic.
PoisonOnlyByExpiry ==
  poisoned => \E i \in Ids : data[i] # None /\ Expired(data[i])

\* Without a worker, eviction in set() keeps the namespace within
\* cache_max_size(), except that a limit of 0 still holds one entry.
WithinCapacity ==
  ~workerTx => Cardinality(Cached(data)) <= IF MaxSize = 0 THEN 1 ELSE MaxSize

\* evict_candidate() by last_accessed or inserted_at names one entry, whatever
\* the HashMap's order: tick() never gives two accesses of a cache one number,
\* also while stamps of readers are still to be stored.
VictimIsUnique ==
  strategy \in {"Lru", "Mru", "Fifo"} =>
    \A i, j \in EvictCandidates(data, strategy) : i = j

\* set(), deduplication: however many threads computed the same identity, the
\* copy stored first stays canonical until it is removed, evicted or expires.
CanonicalCopyKept ==
  [][\A i \in Ids :
       (data[i] # None /\ data'[i] # None /\ data[i].ver # data'[i].ver)
         => Expired(data[i])]_vars

\* One panic under the write lock ends caching for the whole process: nothing
\* is stored, bound, removed or cleared any more.
DeadAfterPoison ==
  [][poisoned => poisoned' /\ Cached(data') = Cached(data) /\ index' = index]_vars

\* The lock never keeps a caller waiting for good, whoever else takes it, worker
\* and subscribers included: every call of through_imc comes back, or panics.
EveryCallReturns ==
  \A t \in Threads : pc[t] # "idle" ~> pc[t] \in {"idle", "panicked"}

-----------------------------------------------------------------------------
(* The abstract table.  A caller has its answer from the step on that finds or *)
(* stores the entry, which the lock then keeps from being replaced; an expired *)
(* entry counts as lost.                                                       *)

PhaseOf ==
  [idle |-> "idle", lookup |-> "asking", compute |-> "computing", store |-> "offering",
   tick |-> "answered", stamp |-> "answered", readback |-> "answered",
   panicked |-> "failed"]

Answer(t) ==
  CASE pc[t] = "store" -> [id |-> call[t].id, ver |-> call[t].ver]
    [] pc[t] \in {"tick", "stamp", "readback"} ->
         [id |-> call[t].id, ver |-> data[call[t].id].ver]
    [] OTHER -> None

Canonical ==
  [i \in Ids |-> IF data[i] = None \/ Expired(data[i]) THEN None ELSE data[i].ver]
Phase == [t \in Threads |-> PhaseOf[pc[t]]]
Want  == [t \in Threads |-> call[t].args]
Got   == [t \in Threads |-> Answer(t)]

Memo == INSTANCE MemoTable WITH
  table <- Canonical, bound <- index, phase <- Phase, want <- Want, got <- Got

\* README.md: "One data copy per unique identity, even when the same record is
\* fetched through different query arguments."  The three critical sections of
\* through_imc, interleaved with those of other callers, removals and expiry, are
\* one atomic lookup or store of a table that keeps one copy per identity.
MemoSpec == Memo!MSpec
=============================================================================
