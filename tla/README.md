# Verification of rust-imc

TLA+ models of `rust-imc`, an in-memory cache for Rust types (`src/src/*.rs`),
the TLC runs that check them and the TLAPS proofs about them. Paths below are
relative to the repository root as `src/...`; a definition's lines are in
`PROJECT.json`, "map".

## 1. Inventory

| Component | State | Operations | Hard behaviour | What makes it correct |
|---|---|---|---|---|
| `PerTypeCache` (`cache.rs`, `entry.rs`) | `data: id_hash -> Entry`, `index: args_hash -> id_hash`, strategy, limit | `get`, `set`, `evict_candidate`, `remove_data`, `remove_by_args_hash`, `clear`, `len`, `remove_expired`, `evict_to_max_size` | access metadata written under a *shared* lock; expiry between two calls; HashMap order | a stored value is there to be read back; the limit holds; the canonical copy stays; the victim is the one the strategy names |
| Public API (`api.rs`) | the process-wide `stores: RwLock` and its poisoning | `through_imc`, `_async`, `_keyed`, `_keyed_async`, `imc_remove`, `imc_clear`, `imc_len`, `imc_invalidation_id` | three critical sections with caller code between; `expect` and `unwrap` under the lock | every call returns; no panic; a removal is final for what was computed before it |
| `CacheWorker` (`worker.rs`) | `WORKER_TX`, the command channel, the loop's position | spawn, `remove`/`send`, drop, receive, execute, sweep, count, set the gauge | drop does not join; eviction is left to a thread that may be ending; its `unwrap`; a spawn that panics half-way | nothing is taken from under a reader or a store; what outgrows the limit is trimmed; the thread ends; the gauge becomes right |
| Critical channels (`critical.rs`, derive macro) | registry mutex, `SUBSCRIBER_ACTIVE`, `REDIS_URL` | `after_store`, `subscriber_loop`, `run_subscriber`, `handle_invalidation` | second lock taken under the first, and the other way round; own messages heard; aliases; lost messages | no pod keeps a superseded copy; messages are handled to the end |
| Redis invalidation (`invalidation.rs`) | registry mutex, the snapshot of each subscriber | `register`, `redis_subscriber_loop`, `run_subscriber` | registration happens after the snapshot; one type per channel; reconnects | a published identity leaves the cache of every subscribed process |
| Redis itself | connections and what they have to read | publish, subscribe, read, lose a connection | at most once | external |
| Metrics (`metrics.rs`) | six counters, one gauge | `record_*`, `set_entries` | one event counted at two places, or at none | what the counters add up to, and what they bound |
| Hashing and `Vec` identity (`hasher.rs`, `traits.rs`) | `COUNTER` | FNV-1a, `tick`, `Vec::cache_id`, `imc_invalidation_id` | order dependence, no type tag in argument hashes | ticks are unique; equal results are one entry, different ones are not |
| Facade, logging (`lib.rs`, `log.rs`) | none of their own | `init`, `start` | | |

How they interact: all callers, the worker and both subscribers share the one
`RwLock` around all namespaces. `set()` reads `WORKER_TX` to decide whether it
evicts. Creating a namespace registers its invalidation channel; a keyed store
registers and publishes its critical channel, both under the write lock.
Spawning a worker starts the subscriber threads, which watch `WORKER_TX` to
know when to end. Pods share nothing but the system of record and Redis.

## 2. Modules

```
MemoTable      <── implemented by ── ImcApi   (MemoSpec; by ImcWorker, ImcMetrics and
                                               ImcInvalidation, too)
KeyedBroadcast <── implemented by ── ImcCriticalHistory   (BroadcastSpec)

PerTypeCache ─┬─ ImcApi ─┬─ ImcHistory
              │          ├─ ImcWorker ─ ImcMetrics
              │          └─ ImcInvalidation ──┬─ RedisPubSub
              └─ ImcCritical ─────────────────┘
                    └─ ImcCriticalHistory
ImcHash, ImcQueries (joined by MCImcHash)

PerTypeCache_proofs ─┬─ ImcApi_proofs ─┬─ ImcWorker_proofs ─ ImcMetrics_proofs
                     │                 └─ ImcInvalidation_proofs
                     └─ ImcCritical_proofs
RedisPubSub_proofs (used by ImcCritical_proofs and ImcInvalidation_proofs)
ImcQueries_proofs
MC*: instances for TLC
```

* **MemoTable** is the abstract specification: what a caller may rely on, without
  locks, strategies, time or workers. A table holds at most one canonical copy per
  identity; a call looks up (`Serve`, `Miss`) and stores (`Adopt`) in one step each;
  copies and bindings may be lost at any moment (`Forget`), none is ever replaced.
* **KeyedBroadcast** is the abstract specification of critical channels: which keys a
  pod keeps, which it was told to drop (`owes`), which announcements it missed, and
  the one key it has stored and has still to announce (`telling`). A pod stores a key,
  then tells any set of pods (`Tell`) or nobody; for a message it drops what it owes (`Drop`);
  an obligation ends only so, by being missed (`Miss`), or where there is nothing to
  drop, or the key was stored anew and will be announced again (`Settle`). A pod may
  `Forget` keys of its own accord, as sweeps, commands and callers do in the code, but
  not one it is about to tell of; and forgetting settles nothing it owes.
* **PerTypeCache** has no state: the methods of the struct as constant
  operators on `data` and `index`, those of the sweep included. Where the code's
  outcome depends on HashMap order the operator is the set of outcomes
  (`EvictCandidates`, `RoomMade`, `SetOutcomes`). `EvictedToMaxSize` is the loop of
  `evict_to_max_size` as the set of victim sequences, each victim a candidate among
  what the earlier ones left; so stated it needs no recursion, and a proof can speak
  of it. An entry's value is reduced to its version, that is, which
  state of the system of record it was computed from; time to an age that stops
  counting once expired. Hashes are opaque and free of collisions.
* **ImcApi** is the API of one process on one type. `pc[t]` and `call[t]` are
  the program counter and locals of a thread's `through_imc`. A hit is three
  steps, because `get` clones, takes a tick and stores the stamp under a read
  lock that other readers hold too; a store is two, because the `expect`
  between `set` and `get` is where the code can panic. `Abandon` is a closure
  that panics or an async call whose future is dropped: no lock is held there.
  The four `through_imc` variants have the same control and share the actions.
  `MemoSpec` is the refinement mapping to MemoTable: an expired entry counts as
  lost, a caller has its answer from the step that finds or stores the entry, and
  the answer is the entry's version *as long as the caller holds the lock*, which
  is why nobody may replace it meanwhile.
* **ImcHistory** adds the version each identity had at its last removal, for a
  promise of the docs about the past.
* **ImcWorker** adds the worker: `Spawn`, `Send` (of any command: `send` is public,
  though outside the crate only `remove` has a command to give it, so that Shutdown
  and Clear through it are more than an owner can do), the three steps of `Drop` (Shutdown, `WORKER_TX`,
  gauge), and the loop as receive, execute, sweep, count, set the gauge, each with
  the lock it takes. `Workers` are generations, since an old thread can outlive its
  handle. `SpawnFails` is the panic after the registration (a thread that cannot be
  started, or no tokio runtime). `Clear` stands for `Clear` and `ClearAll`. Channel
  disconnection is not an action: Shutdown is always sent before the last sender
  goes, and received before disconnection would be. A failed `assert!` of `spawn`
  changes nothing. `imc_len` is here for the gauge it sets.
* **ImcMetrics** puts the counters beside every step of ImcWorker, as the code
  counts: a hit twice (`get` and `through_imc`), a read back once, a miss on an
  expired entry twice, what `clear` drops as expired, the evictions of a sweep as
  one, and what `ClearAll` drops not at all. `returned` counts the `get()`s that
  returned a value, which no counter does.
* **ImcHash** is FNV-1a on all 64 bits with the code's constants, the bytes `std`
  feeds it, `u64::to_string` and `Vec::cache_id`, whose text is hashed again for the
  key of the entry. TLC's integers have 32 bits: a u64 is four digits of 16 bits, and
  multiplication and division go digit by digit. It has operators only.
* **ImcQueries** are queries one after the other on a cache that knows arguments and
  results by two hash functions, which are parameters: `MCImcHash` gives them those of
  ImcHash, the proofs any.
* **RedisPubSub** is publish/subscribe as the code uses it: delivery in order to
  the connections subscribed at that moment, and to nobody else. External.
* **ImcCritical** has several pods, each with its caches (per type), stores
  lock, registry mutex, `WORKER_TX`, `SUBSCRIBER_ACTIVE`, callers and
  subscriber threads. `StoreValue`, `Register`, `Publish`/`SkipPublish` and
  `ReadBack` are one `through_imc_keyed` under the write lock. `TakeMessage`,
  `RemoveNext` (once per entry of the channel's list) and `FinishMessage` are
  `handle_invalidation` under the registry mutex. Poisoning of both locks is
  modelled. What else takes keys from a pod is there, too: its worker's `Sweep` and
  `Execute`, `ImcRemove` and `ImcClear`. A worker that was spawned may sweep and
  execute at any time from then on; when its thread has come to its Shutdown is
  ImcWorker's matter and left open here. Access metadata is not kept: eviction takes
  any entry, which covers every strategy. There is no action for `after_store` meeting a
  poisoned registry: `CTypeOK` shows that it cannot.
* **ImcCriticalHistory** adds which announcements a pod missed and what the
  system of record was when a message removed a key; and the refinement mapping to
  KeyedBroadcast: a pod keeps the keys it has bound, owes those that a message in its
  subscriber's inbox or hands will still remove, and is telling while a call of it has
  the stores lock and has not published.
* **ImcInvalidation** composes ImcApi with the subscriber of `invalidation.rs`:
  registration inside the first `StoreValue`, the snapshot at `SpawnWorker`, the
  loops, removal under the stores lock; a `Rival` type that may claim the
  channel first; and other processes that update and then publish.

Both subscriber loops look at `WORKER_TX` at the head of the outer and of the
inner loop. A check followed at once by a step that changes nothing others see
is one action with it, and so is reading a message with taking the registry
mutex to handle it; the read timeout is an action only where the worker is
gone, since otherwise reading just goes on.

## 3. Runs

| Run | Instance | Distinct states | Shows |
|---|---|---|---|
| `api` | 2 threads, 2 arguments on any of 3 identities, limit 2, TTL 0, 2 updates, oversized version 1, all strategies, 4 calls | 956,394 | lock discipline, the stored value is readable, the limit holds, the victim is unique; only expiry poisons, the canonical copy is kept, a poisoned cache is dead; the whole implements MemoTable |
| `metrics` | 1 caller, 3 arguments on any of 3 identities, limit 1, TTL 0, all strategies, 3 calls or commands, 1 worker, failing spawns | 355,797 | sweeps that evict two entries in turn follow the strategy; sweeps and commands never take an entry from a reader or a store, and leave it a MemoTable; a cache past its limit stops growing once the worker is dropped; a queued removal stays ahead of Shutdown until it is carried out; what the counters account for; a poisoned lock stops the sweeps, too |
| `worker_live` | 1 caller, 2 arguments of an identity each, limit 1, TTL 0, Lru, 2 calls or commands, 2 workers in turn, failing spawns, fair | 109,975 | at most one worker is registered and what a failed spawn leaves; trimming, sweeping, dropping dangling bindings, the end of the thread, every call returns; the gauge settles beside drops and threads of dropped workers |
| `critical` | 2 pods with a caller each, 2 types with a channel each, 1 key, TTL 0, 2 calls, 2 workers on any of the pods | 223,425 | every binding is about to be removed or its announcement was missed, also because a channel was registered while the subscriber listened to the other; the deadlock is for good; a poisoned pod is dead; the stored value is readable while the network is used, and only expiry poisons a pod; registries, locks, Redis, broken connections, sweeps and removals implement KeyedBroadcast |
| `invalidation` | 2 callers, 1 identity, TTL 0, 1 update, 2 calls, 2 workers in turn, fair | 232,215 | which stale entries can stay, that handling a message never hangs, that every call returns, and that the whole is still a MemoTable |
| `expect`, `remove`, `critical_deadlock`, `critical_fresh`, `late_channel`, `hits`, `vec` | small | | violated: see findings |

**Bounds.** Two threads make every pairwise race on the lock and on the atomics;
three identities against a limit of two (or one) make eviction choose. `MaxCalls`
lets every path of a call happen, and the paths follow one another, on one
argument and on two; it also keeps readers from occupying the lock for ever,
which std's `RwLock` does not promise and no property relies on. Ages stop at
`Ttl + 1`, past which all entries behave alike; a coarse clock tick may fall
between any two steps, which is what a real clock can do. `MaxVer` 1 or 2
separates fresh from stale. In `metrics` three calls store three entries under a
worker against a limit of one, so that a sweep has two victims, one after the
other; and after two of them the worker may go before the third. There any closure may find any
identity, as in `api`, which makes arguments and identities interchangeable. In
`worker_live` two generations are a worker and its successor while the first
thread is still running, and write the gauge after each other's sizes; two calls
are the fewest that take a cache of limit 1 past its limit. A command sent counts as a
call (`MaxCalls`), so that it comes before or after anything else. In `vec` two queries make every pair of results and of
arguments meet. In `critical` two calls
suffice for crossing announcements, the deadlock and poisoning, a second store
of the same type makes one message name it twice, and a store of the other type
registers a channel the subscriber does not listen to; two keys of one identity
are the matter of `critical_fresh`, and types that share a channel are left to
the proofs, which hold for every `ChannelOf`. The worker bound is over both
pods, so that either each pod has one or one pod has two in turn. Symmetry is
used where a run checks safety only, and over values the model compares only
for equality. No run has a limit of 0, under which a namespace holds one entry;
`Bounded` proves it.

**Fairness.** A thread inside a call runs on (`WF` of `Proceed`, or of
`Caller`), and its closure returns; a worker's loop, a `Drop` once begun
(`DropProceeds`) and a subscriber's next step are scheduled. Nobody is obliged to call, update,
publish, send, spawn, drop a worker or a future, and neither time, timeouts nor
Redis failures are fair.

**Deadlock** is checked in every configuration of ImcApi, ImcHistory, ImcWorker
and ImcMetrics but `hits`; `Finished` marks the end of all calls there. `hits` asks of
the counters only, and those of ImcCritical, ImcInvalidation and ImcHash turn it off, since
the program may stop by itself: calls used up, threads ended or panicked, and in ImcCritical
the deadlock of the code, which is stated as a property of its own.

## 4. Findings

1. `critical_deadlock` (`critical.rs:165`): the subscriber takes the registry
   mutex, then the stores lock; a keyed store has the stores lock and takes the
   registry mutex. Since a pod hears its own announcements, two stores in a row
   on one pod are enough to stop the whole process. `StuckForGood` shows that
   nothing in the program ends it.
2. `critical_fresh` (`cache.rs:129`): when two keys name one identity, a message
   for one leaves the entry; the next read computes a fresh value and `set()`
   drops it for the old one.
3. `late_channel` (`invalidation.rs:29`): channels are registered by the first
   store of a type and read once, when the worker is spawned. The documented
   order, worker first, subscribes to nothing.
4. `expect` (`api.rs:115`): the entry that deduplication kept can expire before
   it is read back; the call panics under the write lock, and all calls of the
   process panic from then on.
5. `remove` (`api.rs:111`): a value computed before `imc_remove` and stored
   after it is served by the next call.
6. `hits` (`api.rs:84`): `imc_cache_hits_total` is documented as the successful
   `get()` returns; a call served from the cache counts two for its one `get()`.
   `HitsAdd` proves what the number is: twice the `get()`s that returned a value,
   less the values set.
7. `vec` (`traits.rs:233`): the same set of entities in another order is another
   `Vec` in the cache, where `traits.rs:224` promises that they share one.

Short of findings, and worth knowing:

* `last_accessed` may go backwards: of two concurrent hits the older tick may be
  stored last, so that Lru evicts an entry read after the one it keeps. `VictimIsUnique`
  holds all the same, and no property speaks of the order.
* A spawn that panics after its registration (`worker.rs:213`) cannot be undone:
  `FailedSpawnIsForGood`. A worker that was sent Shutdown by its owner stays
  registered too, until it is dropped; set() evicts nothing meanwhile.
* Evictions and expirations, as counted, together never exceed the sets
  (`EntriesAccounted`), though `clear` counts as expiry and a sweep's evictions as
  one, which `README.md:436-437` does not say.
* A `cache_max_size()` of 0 still caches one entry (`Bounded`), although
  `traits.rs:159` calls it the maximum number of entries.
* Arguments of different types that write the same bytes are one query
  (`AnswersAreByBytes`).
* `worker.rs:201` announces an HTTP server for `metrics_listen_addr`; nothing in
  `spawn_with_config` starts one.
* A second worker with another Redis URL subscribes there, while `after_store`
  publishes to the first (`REDIS_URL` is set once, `worker.rs:234`).

What properties excuse is as much a behaviour of the code: `~Served` in the properties of
the worker is a cache past its limit, or an index with dangling bindings, that no worker
looks after; `lost` and `missed` are the announcements that nobody heard, or that came
before the value they were about. The properties say that nothing else goes wrong.

`BindingIsAnnounced`, which holds, says more than it seems to promise: a pod
subscribes to its own channel, so that it also removes what it has just stored
itself. While a subscriber keeps up, a critical key is never cached for long.

## 5. Proofs

Assumptions: `CacheAssumption` (finitely many identities; `None` is no value; limit
and TTL natural), `VersionAssumption` (`None` is no number), `ApiAssumption` and
`WorkerAssumption`, `CriticalAssumption`, `InvalidationAssumption` (types of the remaining
constants), and for the counters alone `ThreadsAssumption` (finitely many threads); ImcQueries
assumes nothing. Nothing is said of how many threads, calls, identities, pods, types, workers or commands there are,
or of the strategy.

**`PerTypeCache_proofs`**: what the operators do. `SetFacts` (whatever the outcome
of `set`, the identity is there, a live copy is unchanged, nothing else is new),
`SetWithinLimit`, `SetKeeps`, `UniqueVictim` and lemmas on access and ageing.

**`ImcApi_proofs`**: `TypeCorrect`, `HitsHeld`, `StoredReadable`,
`OnlyExpiryPoisons`, `Bounded`, `UniqueVictims` (invariants of the runs),
`CanonicalCopy`, `PoisonIsFinal` (action properties), and `NoTtlNoPoison`, that a
type without a TTL never panics. None of these invariants is inductive alone. The
first part of the inductive one holds with or without workers,

    LockInv = TypeOK, LocalsOK, HitHeld, StoredValueReadable

`TypeOK` ties the lock to program counters, so that a removal cannot happen
between `set` and `get` or between a lookup and its stamp; `LocalsOK` says which
locals a step may rely on. `LockStep` shows it inductive. The second part,

    SharedInv = LockInv, StampsDistinct, PoisonOnlyByExpiry

needs the first and is inductive, too (`SharedStep`): `StampsDistinct` makes the victim
unique, since stamps in `data` *and stamps still held by readers* are distinct and below
the clock (without the stamps held a late one could collide); at `ReadBackPanics` binding
and entry exist, so that the miss can only be expiry, and nothing is stored, removed or
evicted afterwards. Neither depends on a worker being registered, so that the proofs about
workers and subscribers reuse both. The rest,

    IInv = SharedInv, NoWorker, WithinCapacity

says that ImcApi alone never registers a worker, so that `set` evicts inline, and what
follows from it: only a store adds an entry (`CallerEntries`), and not beyond the limit
(`SetWithinLimit`). `InitIInv`, one lemma per step group, `NextIInv`, `Invariance`;
then each theorem by PTL. `IInv` was checked by TLC before.

Its second half is `Refinement`: ImcApi implements MemoTable. Initial states map
to initial states; under `LockInv` every step is a step of the table or a stutter:
a hit is `Serve`, a store `Adopt` (with `SetFacts` for what may change beside the
identity stored), expiry, removal and time `Forget`. `HitHeld` is what keeps an
answer from changing while its caller holds the lock.

**`ImcWorker_proofs`**: the same beside workers. A worker's thread writes only when
nobody is in the lock, and then only takes away (`WorkerWrites`), so that `LockInv`
survives it and the step is a `Forget`; with the registration (`WorkerTypes`,
`Registration`: one handle at most is registered, and `WORKER_TX` says whether one
is) it makes the inductive `WorkerInv`. From it `WorkerTypeCorrect`,
`HitsHeldUnderWorkers`, `ReadableUnderWorkers`, `RefinementUnderWorkers`, `Growth`
(only a store adds an entry, and without a worker it stays within the limit),
`FailedSpawn`, and that workers change neither `CanonicalCopyKept` nor
`DeadAfterPoison`. `SharedInv` of ImcApi_proofs survives workers as well, since a sweep hands
out no access number and poisons nothing: `OnlyExpiryPoisonsUnderWorkers`,
`UniqueVictimsUnderWorkers`. `QueuedRemovals` needs that a thread has a command in hand
exactly while it executes one (`JobInv`), and that a channel is only appended to and read
from its head. `EvictionFollows` proves the eviction loop: no victim goes
twice, so that as many go as are in excess, and each was a candidate while all that stay were
there, so that the strategy prefers them to it.

**`ImcMetrics_proofs`**: `EntriesAdd` and `HitsAdd`, that the counters add up. Every
step adds five numbers to the counters (`Adds`), and `Booked` says once what they must
satisfy for

    LedgerInv = EntriesAccounted, hits + sets = 2 * returned + Late,
                sets + |Missed| <= misses, poisoned => nobody writes

to survive; one lemma per counting step shows that they do, `UncountedBooked` that
the others cannot disturb it. What `HitsAdd` states (`HitsOvercount`) is what is so of the
hits that the run `hits` finds not to be the `get()`s that returned a value. It is not
inductive: `sets <= misses` needs
the callers between miss and store (`Missed`, whose number needs finitely many
threads), and the equation needs that a poisoned lock has no writer, else one store
would owe two hits (`Late`). `LostFacts` (entries gone and entries there are disjoint) and
that a sweep only takes away make `EntriesAccounted` inductive. `CountersChangeNothing`:
a behaviour with counters is one of ImcWorker, whose theorems hold of it.

**`RedisPubSub_proofs`**: what publishing, subscribing, reading and losing a connection
do to what each connection has to read, for messages of any kind. `Connections`, that
only a subscribed connection has anything to read, is the one invariant of publish/subscribe
alone; both users of Redis have it in theirs.

**`ImcCritical_proofs`**: several pods. The inductive invariant is

    CInv = CacheTypes, CallTypes, CallLocals, StoresLock, RegistryLock,
           SubscriberTypes, StoredWhilePublishing

`StoresLock` and `RegistryLock` say who holds which lock by its program counter, that
nobody holds a poisoned stores lock and that the registry is poisoned only after it;
with `CallLocals` they keep the stored value in place while its call is on the network
(`StoredIsReadBack`), and give `CriticalTypes`. `StuckStaysStuck` is an action property
from the same invariant: every step that could release one of the two locks belongs to
the call or to the subscriber that waits; `PoisonedPodIsDead`, that a pod whose stores lock
is poisoned keeps its caches and its registry as they are, is another: nobody of that
pod is inside the lock any more. `OnlyExpiryPoisonsPods` adds `PodPoisonOnlyByExpiry` to `CInv`: a
read back finds binding and entry, and nothing happens to the expired entry of a poisoned
pod (`EntryStep`); `NoTtlNoPodPoison` follows. `PodCopies` says of every pod what
`CanonicalCopy` says of one process; no passing run has the several versions and pods it takes, so
that it is proved only. `HistoryAddsNothing` shows that the history
variables restrict nothing, so that all of this holds of ImcCriticalHistory, too.
Sweeps, commands and callers' removals (`Trims`) take the stores lock only where nobody is
in it and the lock is sound, and then only take away: `TrimFrame` and `TrimFacts` say so
once for all of them. `BindingsAreAnnounced` needs more:

    HInv = CInv, BoundRegistered, the type of `lost`, bound => Excused

A bound key is excused while its own call has still to announce it, while a subscriber
of the pod has the announcement to read or to carry out, or when it was missed. The
message alone would not do: it removes a key from the types its channel lists *when it
is taken*, so that a bound key's type must be on that list before its announcement is
sent (`BoundRegistered`), which is where the order of `Register` before `Publish` under
one write lock is used.

`BroadcastRefinement`, in the same module, shows that ImcCriticalHistory implements
KeyedBroadcast, step by step: `StoreValue` is `Store`, `Publish` and `SkipPublish` are
`Tell` and `TellNobody`, `RemoveNext` is `Drop`, whatever else takes keys away is `Forget`
(`ForgetRefines`: nobody is then between storing a key and telling of it), losing a connection and ending are `Miss`;
`TakeMessage` is `Settle`, since the message then names the types on the channel's list
and no longer all of the channel, and those it leaves out are not bound
(`BoundRegistered` again); every other step is a stutter, because it touches neither
bindings nor what a subscriber has to carry out nor the lock of a call that still has to
publish.

**`ImcInvalidation_proofs`**: the inductive invariant is

    SubInv = LockInv, RegistryTypes, SubscriberTypes, PublisherTypes, AnnouncedIsRemoved

`AnnouncedIsRemoved` becomes inductive with the connections: who starts to connect, or
was just spawned, has nothing to read, so that neither a new snapshot nor a new
connection loses a message (`PendingKept`); an entry's version changes by a store only
(`VersionsKept`, `StoreVersions`). A removal by message happens when nobody is in the
lock, so that `LockInv` survives it, `StoredReadableWithSubscriber` follows and the step
is a `Forget` of the table: `SubscribedRefinement`. `CanonicalCopySubscribed` and
`PoisonIsFinalSubscribed` are the action properties of ImcApi beside subscribers.

`OnlyExpiryPoisonsSubscribed` and `UniqueVictimsSubscribed` come from `SharedInv`, which a
removal by message survives as it survives a sweep.

**`ImcQueries_proofs`**: for any two hash functions. `QueryInv` says from which computation
a binding and an entry come; with it `AnswersWhateverCollides`, that a wrong answer takes
a collision. Under the hypotheses that no two results (`DistinctResults`), or arguments
(`DistinctArgs`), collide, `ResultsShareOneCopy` says that queries share an entry exactly
when they return the same elements in the same order, which is what the code does and not
what the run `vec` quotes, and `AnswersAreByBytes` that arguments are told apart by their
bytes alone. The hashes themselves are computed with `Bitwise`, which no prover here
knows.

**Model-checked only:** everything under fairness (`EveryCallReturns`, the temporal
properties of `worker_live`, `InvalidationHandled`), which is outside the prover's reach; what ImcHash
computes; and of course the violations. Every other property of a passing run, invariant,
action property or refinement, is a theorem.

## 6. Not modelled

* Oversized and abandoned calls in ImcCritical and ImcInvalidation: they store
  nothing, and ImcApi has them. `imc_remove`, `imc_clear` and the worker's own loop in
  ImcInvalidation: they only take entries away, which no property there forbids; ImcWorker
  has them.
* When a worker's thread in ImcCritical has come to its Shutdown, and the commands it was
  sent: it sweeps and executes at any time from its spawning on, which allows more than
  the code does.
* The mutex of invalidation.rs's registry: it is held for one insertion or copy with no
  other lock taken inside, and not across steps.
* A panic of a user's `Clone` or `Drop` while the stores lock is held.
* Several types at once in ImcApi and ImcWorker: they share nothing but the lock and
  the gauge. That `imc_len` sets the gauge to the size of its own type alone is
  therefore not seen.
* `invalidation_received`, which nothing reads; wording of log events, the
  Prometheus text and its HTTP server, parsing of payloads and URLs, the derive
  macro's channel name.
* Collisions of 64-bit hashes, outside ImcQueries.

## 7. Plan

*Done:* the modules above with their runs; proofs about PerTypeCache, ImcApi and its
refinement of MemoTable, ImcWorker, ImcMetrics, RedisPubSub, ImcCritical with its history
and its refinement of KeyedBroadcast, ImcInvalidation and ImcQueries.

*Open*, in the order of what they would say: several types under one lock in ImcApi and
ImcWorker, for the gauge that `imc_len` sets; a second Redis server, for `REDIS_URL`; a
bound on the work of one incoming message, whose list of types grows with every store.
