----------------------------- MODULE ImcWorker -----------------------------
(***************************************************************************)
(* CacheWorker of worker.rs beside the callers of ImcApi.  A worker is     *)
(* spawned, sent commands and dropped by the thread that owns its handle;  *)
(* its own thread receives a command or times out, executes the command    *)
(* under the write lock, sweeps under a second write lock, reads the sizes *)
(* under a read lock and then sets the gauge of metrics.rs.  Drop does not *)
(* wait for that thread, so that several generations may run side by side. *)
(***************************************************************************)
EXTENDS ImcApi, Sequences

CONSTANTS
  MaxSpawns   \* bound on the workers ever spawned

Workers == 1 .. MaxSpawns   \* in the order of their spawning

\* Clear stands for Clear and ClearAll, the same to one type.
Commands == [op: {"Remove"}, id: Ids] \cup [op: {"Clear", "Shutdown"}]
Shutdown == [op |-> "Shutdown"]
Clear    == [op |-> "Clear"]
Remove(i) == [op |-> "Remove", id |-> i]

ASSUME WorkerAssumption ==
  /\ MaxSpawns \in Nat
  /\ None \notin Commands

VARIABLES
  spawned,  \* workers spawned so far
  handle,   \* per worker: its CacheWorker value
  queue,    \* per worker: its command channel
  job,      \* per worker: the command it received, or None
  wpc,      \* per worker: what its thread does next
  total,    \* per worker: the size it is about to set the gauge to, or None
  entries   \* the gauge imc_cache_entries

gaugeVars  == <<total, entries>>
workerVars == <<spawned, handle, queue, job, wpc, gaugeVars>>
apiRest    == <<strategy, clock, lockVars, db, pc, call, calls>>
WVars      == <<vars, workerVars>>

\* "failed": spawn panicked after it had registered the worker.
HandleStates == {"none", "held", "dropping", "unregistered", "dropped", "failed"}
WorkerSteps  ==
  {"unborn", "receive", "execute", "sweep", "count", "gauge", "stopped", "died"}

Ended == {"unborn", "stopped", "died"}

WInit ==
  /\ Init
  /\ spawned = 0
  /\ handle = [w \in Workers |-> "none"]
  /\ queue = [w \in Workers |-> <<>>]
  /\ job = [w \in Workers |-> None]
  /\ wpc = [w \in Workers |-> "unborn"]
  /\ total = [w \in Workers |-> None]
  /\ entries = 0

-----------------------------------------------------------------------------
(* The owner of the handle. *)

UnregisteredUnchecked == TRUE   \* mutant: no assert

\* The assert of spawn; a failed one changes nothing but the thread it ends.
Unregistered == ~workerTx

\* The assert and the registration are one step under the mutex of WORKER_TX.
Spawn(w) ==
  /\ w = spawned + 1 /\ Unregistered
  /\ workerTx' = TRUE
  /\ spawned' = w
  /\ handle' = [handle EXCEPT ![w] = "held"]
  /\ wpc' = [wpc EXCEPT ![w] = "receive"]
  /\ UNCHANGED <<data, index, apiRest, queue, job, gaugeVars>>

\* A thread cannot be started (or, with tokio, there is no runtime): spawn
\* panics, there is no handle whose drop could undo the registration.
SpawnFails(w) ==
  /\ w = spawned + 1 /\ Unregistered
  /\ workerTx' = TRUE
  /\ spawned' = w
  /\ handle' = [handle EXCEPT ![w] = "failed"]
  /\ UNCHANGED <<data, index, apiRest, queue, job, wpc, gaugeVars>>

\* remove() and send(); an error, changing nothing, once the thread has ended.  By
\* send(Shutdown) the thread ends and the worker stays registered: only code of the
\* crate can do so, which does not export CacheCmd.  What is sent counts as a call.
Send(w, c) ==
  /\ handle[w] = "held" /\ calls < MaxCalls /\ wpc[w] \notin Ended
  /\ calls' = calls + 1
  /\ queue' = [queue EXCEPT ![w] = Append(@, c)]
  /\ UNCHANGED <<cacheVars, lockVars, workerTx, db, pc, call, spawned, handle, job, wpc,
                 gaugeVars>>

ShutdownFirst(w) ==   \* mutant: Shutdown overtakes what is queued
  IF wpc[w] \in Ended THEN queue ELSE [queue EXCEPT ![w] = <<Shutdown>> \o @]

ShutdownNotSent(w) == queue   \* mutant: disconnection is relied on

ShutdownQueued(w) ==
  IF wpc[w] \in Ended THEN queue ELSE [queue EXCEPT ![w] = Append(@, Shutdown)]

\* drop(), first: Shutdown is sent ...
DropSends(w) ==
  /\ handle[w] = "held"
  /\ queue' = ShutdownQueued(w)
  /\ handle' = [handle EXCEPT ![w] = "dropping"]
  /\ UNCHANGED <<vars, spawned, job, wpc, gaugeVars>>

\* ... second: the worker no longer counts as registered ...
DropUnregisters(w) ==
  /\ handle[w] = "dropping"
  /\ workerTx' = FALSE
  /\ handle' = [handle EXCEPT ![w] = "unregistered"]
  /\ UNCHANGED <<data, index, apiRest, spawned, queue, job, wpc, gaugeVars>>

\* ... third: the gauge, whoever has set it meanwhile, is reset.
DropResetsGauge(w) ==
  /\ handle[w] = "unregistered"
  /\ entries' = 0
  /\ handle' = [handle EXCEPT ![w] = "dropped"]
  /\ UNCHANGED <<vars, spawned, queue, job, wpc, total>>

DropProceeds(w) == DropUnregisters(w) \/ DropResetsGauge(w)

-----------------------------------------------------------------------------
(* worker_loop *)

WorkerGoto(w, step) == wpc' = [wpc EXCEPT ![w] = step]

\* recv_timeout() returns a command; Shutdown ends the loop without a sweep.
Receive(w) ==
  /\ wpc[w] = "receive" /\ queue[w] # <<>> /\ Head(queue[w]) # Shutdown
  /\ job' = [job EXCEPT ![w] = Head(queue[w])]
  /\ queue' = [queue EXCEPT ![w] = Tail(@)]
  /\ WorkerGoto(w, "execute")
  /\ UNCHANGED <<vars, spawned, handle, gaugeVars>>

ReceiveShutdown(w) ==
  /\ wpc[w] = "receive" /\ queue[w] # <<>> /\ Head(queue[w]) = Shutdown
  /\ queue' = [queue EXCEPT ![w] = <<>>]
  /\ WorkerGoto(w, "stopped")
  /\ UNCHANGED <<vars, spawned, handle, job, gaugeVars>>

\* Nothing came within sweep_interval.
ReceiveTimeout(w) ==
  /\ wpc[w] = "receive" /\ queue[w] = <<>>
  /\ WorkerGoto(w, "sweep")
  /\ UNCHANGED <<vars, spawned, handle, queue, job, gaugeVars>>

Execute(w) ==
  /\ wpc[w] = "execute" /\ CanWrite /\ ~poisoned
  /\ data'  = IF job[w].op = "Remove" THEN RemoveData(data, job[w].id) ELSE EmptyData
  /\ index' = IF job[w].op = "Remove" THEN index ELSE EmptyIndex
  /\ job' = [job EXCEPT ![w] = None]
  /\ WorkerGoto(w, "sweep")
  /\ UNCHANGED <<apiRest, workerTx, spawned, handle, queue, gaugeVars>>

SweepIgnoringPoison(w) ==   \* mutant: into_inner() where the code unwraps
  /\ wpc[w] = "sweep" /\ CanWrite
  /\ data' \in EvictedToMaxSize(WithoutAllExpired(data), strategy)
  /\ index' = Retained(index, data')
  /\ WorkerGoto(w, "count")
  /\ UNCHANGED <<apiRest, workerTx, spawned, handle, queue, job, gaugeVars>>

SweepGaugingChanges(w) ==   \* mutant: the gauge is set only if something went
  /\ wpc[w] = "sweep" /\ CanWrite /\ ~poisoned
  /\ data' \in EvictedToMaxSize(WithoutAllExpired(data), strategy)
  /\ index' = Retained(index, data')
  /\ WorkerGoto(w, IF data' = data THEN "receive" ELSE "count")
  /\ UNCHANGED <<apiRest, workerTx, spawned, handle, queue, job, gaugeVars>>

Sweep(w) ==
  /\ wpc[w] = "sweep" /\ CanWrite /\ ~poisoned
  /\ data' \in EvictedToMaxSize(WithoutAllExpired(data), strategy)
  /\ index' = Retained(index, data')
  /\ WorkerGoto(w, "count")
  /\ UNCHANGED <<apiRest, workerTx, spawned, handle, queue, job, gaugeVars>>

\* PerTypeCache::len()
CacheLen == Cardinality(Cached(data))

\* The sizes are read under the read lock ...
Count(w) ==
  /\ wpc[w] = "count" /\ CanRead /\ ~poisoned
  /\ total' = [total EXCEPT ![w] = CacheLen]
  /\ WorkerGoto(w, "gauge")
  /\ UNCHANGED <<vars, spawned, handle, queue, job, entries>>

\* ... and the gauge is set without it.
SetGauge(w) ==
  /\ wpc[w] = "gauge"
  /\ entries' = total[w]
  /\ total' = [total EXCEPT ![w] = None]
  /\ WorkerGoto(w, "receive")
  /\ UNCHANGED <<vars, spawned, handle, queue, job>>

\* Each of the three unwraps the lock: poisoned, it ends the thread, which
\* drops the receiver and leaves WORKER_TX as it is.
WorkerPanics(w) ==
  /\ wpc[w] \in {"execute", "sweep", "count"} /\ poisoned
  /\ WorkerGoto(w, "died")
  /\ queue' = [queue EXCEPT ![w] = <<>>]
  /\ job' = [job EXCEPT ![w] = None]
  /\ UNCHANGED <<vars, spawned, handle, gaugeVars>>

-----------------------------------------------------------------------------
WorkerLoop(w) ==
  \/ Receive(w) \/ ReceiveShutdown(w) \/ ReceiveTimeout(w)
  \/ Execute(w) \/ Sweep(w) \/ Count(w) \/ SetGauge(w)
  \/ WorkerPanics(w)

\* imc_len(): the gauge is set from one type's size, under the read lock.
ImcLen(t) ==
  /\ pc[t] = "idle" /\ calls < MaxCalls /\ CanRead /\ ~poisoned
  /\ calls' = calls + 1
  /\ entries' = CacheLen
  /\ UNCHANGED <<cacheVars, lockVars, workerTx, db, pc, call, spawned, handle, queue, job,
                 wpc, total>>

WNext ==
  \/ Next /\ UNCHANGED workerVars
  \/ \E t \in Threads : ImcLen(t)
  \/ \E w \in Workers :
       \/ Spawn(w) \/ SpawnFails(w)
       \/ \E c \in Commands : Send(w, c)
       \/ DropSends(w) \/ DropProceeds(w)
       \/ WorkerLoop(w)

WSpec == WInit /\ [][WNext]_WVars

\* Threads run, and a drop once begun is carried through; nobody is obliged to
\* spawn, send or drop.
WFairSpec ==
  /\ WSpec
  /\ \A t \in Threads : WF_WVars(Proceed(t) /\ UNCHANGED workerVars)
  /\ \A w \in Workers : WF_WVars(WorkerLoop(w)) /\ WF_WVars(DropProceeds(w))

-----------------------------------------------------------------------------
(* Correctness. *)

\* The worker of this handle is or was registered in WORKER_TX and still is.
Registered(w) == handle[w] \in {"held", "dropping", "failed"}

\* The variables keep their types; WORKER_TX holds the sender of one worker, from
\* its spawning, the failed one included, to the middle of its drop.
WorkerTypeOK ==
  /\ TypeOK
  /\ spawned \in 0 .. MaxSpawns
  /\ handle \in [Workers -> HandleStates]
  /\ queue \in [Workers -> Seq(Commands)]
  /\ job \in [Workers -> Commands \cup {None}]
  /\ wpc \in [Workers -> WorkerSteps]
  /\ total \in [Workers -> Nat \cup {None}]
  /\ \A w \in Workers : wpc[w] = "gauge" <=> total[w] # None
  /\ entries \in Nat
  /\ \A w \in Workers : w > spawned <=> handle[w] = "none"
  /\ workerTx <=> \E w \in Workers : Registered(w)
  /\ \A v, w \in Workers : Registered(v) /\ Registered(w) => v = w

\* tests.rs, inline eviction resumes after drop: once no worker is registered a
\* cache above its limit stops growing, though nothing brings it back down.
GrowthOnlyUnderWorker ==
  [][~workerTx =>
       \/ Cardinality(Cached(data')) <= Cardinality(Cached(data))
       \/ Cardinality(Cached(data')) <= IF MaxSize = 0 THEN 1 ELSE MaxSize]_WVars

\* worker.rs, spawn_with_config: the registration precedes everything that can
\* panic and is undone by Drop only.  After such a panic no worker can be spawned
\* any more, and a full cache is left to a sweep that never comes: set() evicts
\* nothing, and once earlier threads have ended nothing goes but by imc_remove,
\* imc_clear or deduplication of what has expired.
FailedSpawnIsForGood ==
  [][(\E w \in Workers : handle[w] = "failed") =>
       /\ workerTx' /\ spawned' = spawned
       /\ ((\A w \in Workers : wpc[w] \in Ended) /\ calls' = calls) =>
            \A i \in Ids : data[i] # None => data'[i] # None]_WVars

\* cache.rs, evict_to_max_size: evicting one candidate after the other leaves the
\* entries that the strategy, read as an order on all of them, prefers to each one
\* that went, and goes down to the limit, no further.
SweepFollowsStrategy ==
  \A d \in EvictedToMaxSize(data, strategy) :
    /\ IF Cardinality(Cached(data)) > MaxSize THEN Cardinality(Cached(d)) = MaxSize
                                             ELSE d = data
    /\ \A v \in Cached(data) \ Cached(d), k \in Cached(d) :
         CASE strategy = "Lru"  -> data[v].last <= data[k].last
           [] strategy = "Mru"  -> data[v].last >= data[k].last
           [] strategy = "Lfu"  -> data[v].count <= data[k].count
           [] strategy = "Mfu"  -> data[v].count >= data[k].count
           [] strategy = "Fifo" -> data[v].inserted <= data[k].inserted

\* A worker that was spawned, is not being dropped, and whose thread runs.
Served == \E w \in Workers : handle[w] = "held" /\ wpc[w] \notin Ended

\* worker.rs, "the sweep handles eviction": what set() lets grow past the limit
\* under a worker is brought back, unless the worker is dropped or the lock is
\* poisoned first.
OverCapacityTrimmed ==
  Served /\ Cardinality(Cached(data)) > MaxSize
    ~> Cardinality(Cached(data)) <= MaxSize \/ ~Served

\* A binding whose entry was removed or evicted does not stay in the index.
DanglingBindingDropped ==
  \A a \in Args :
    Served /\ index[a] # None /\ data[index[a]] = None
      ~> index[a] = None \/ data[index[a]] # None \/ ~Served

\* worker.rs, "TTL-expired entries are removed every sweep_interval".
ExpiredSwept ==
  \A i \in Ids :
    Served /\ data[i] # None /\ Expired(data[i])
      ~> data[i] = None \/ ~Expired(data[i]) \/ ~Served

\* What w is told to remove before it is told to end.
RemovalsAhead(w) ==
  {i \in Ids : \E n \in DOMAIN queue[w] :
     queue[w][n] = Remove(i) /\ \A m \in 1 .. n : queue[w][m] # Shutdown}

\* worker.rs, remove(): "The worker thread will remove the entry matching `id`
\* during its next command cycle."  A queued removal stays ahead of any Shutdown,
\* that of an immediate drop included, until the thread has it in hand, which it
\* does not let go of before the entry is gone, whatever its timeouts, sweeps and
\* other generations do meanwhile.  Only a poisoned lock ends it first.
QueuedRemoveKept ==
  [][\A w \in Workers, i \in Ids : wpc'[w] # "died" =>
       /\ i \in RemovalsAhead(w) => i \in RemovalsAhead(w)' \/ job'[w] = Remove(i)
       /\ job[w] = Remove(i) => job'[w] = Remove(i) \/ data'[i] = None]_WVars

\* worker.rs: "The background thread will shut down when the CacheWorker is
\* dropped", whatever it is doing and however busy the lock.
WorkerEnds ==
  \A w \in Workers : handle[w] = "dropping" ~> wpc[w] \in {"stopped", "died"}

\* README.md, imc_cache_entries: "Current unique entries (updated on `imc_len()` +
\* sweep)".  The gauge is overwritten by imc_len(), by drops and by threads of
\* dropped workers, each with a size of its own time; once callers pause and the
\* earlier threads have ended, a worker that stays sets it right.
GaugeSettles ==
  <>[]Served => <>[](entries = Cardinality(Cached(data)))
=============================================================================
