---------------------------- MODULE ImcCritical ----------------------------
(***************************************************************************)
(* Several pods running through_imc_keyed under the `critical` feature.    *)
(* After a store, still under the write lock of its pod's caches, a call   *)
(* registers its type with the channel of its key type (critical.rs,       *)
(* registry mutex) and publishes the hash of its key.  The subscriber      *)
(* thread that a worker brings reads such messages, those of its own pod   *)
(* included, and removes what the key is bound to: holding the registry    *)
(* mutex it takes the write lock once per registered type.  Beside it, the *)
(* thread of the worker itself sweeps the caches of the pod and carries out*)
(* what its owner commands, and callers remove and clear: none of this is  *)
(* announced to anyone.                                                    *)
(*                                                                         *)
(* A cache is PerTypeCache without access metadata: stamps and counts stay *)
(* as inserted, so that eviction takes any entry, whatever the strategy.   *)
(* A hit is therefore one step; its locking is the matter of ImcApi, the   *)
(* command channel and the order of the worker's own steps of ImcWorker.   *)
(***************************************************************************)
EXTENDS PerTypeCache, RedisPubSub

CONSTANTS
  Pods,      \* processes sharing the system of record
  Types,     \* cacheable types, the same program on every pod
  ChannelOf, \* T::Key::channel() of each type
  Threads,   \* callers, and
  PodOf,     \* ... the pod each runs in
  SubPod,    \* the pod of each worker, and so of its subscriber thread
  Answers,   \* identities the closure of a key may find
  MaxSpawns, \* bound on the workers of all pods together
  MaxVer,    \* bound on updates of the system of record, per identity
  MaxCalls   \* bound on the calls of all threads together

ASSUME CriticalAssumption ==
  /\ ChannelOf \in [Types -> Channels]
  /\ PodOf \in [Threads -> Pods]
  /\ SubPod \in [Subs -> Pods]
  /\ None \notin Threads \cup Subs \cup Types
  /\ Answers \in [Args -> SUBSET Ids]
  /\ MaxSpawns \in Nat /\ MaxVer \in Nat /\ MaxCalls \in Nat

VARIABLES
  data, index,  \* per pod and type: the PerTypeCache
  writer,       \* per pod: the thread between set() and get(), or None
  poisoned,     \* per pod: the stores lock is poisoned
  registry,     \* per pod and channel: the types stored, once per store
  registrar,    \* per pod: the subscriber holding the registry mutex, or None
  regPoisoned,  \* per pod: that mutex is poisoned
  workerTx,     \* per pod: WORKER_TX holds a sender
  active,       \* per pod: SUBSCRIBER_ACTIVE
  spc,          \* per subscriber: its next step
  wanted,       \* per subscriber: its snapshot of channels, until connected
  msg, todo,    \* per subscriber: the message in hand, the types left to do
  db, pc, call, calls  \* as in ImcApi

cacheVars == <<data, index>>
lockVars  == <<writer, poisoned, registrar, regPoisoned>>
podVars   == <<registry, workerTx, active>>
subVars   == <<spc, wanted, msg, todo>>
callVars  == <<pc, call, calls>>
cvars     == <<cacheVars, lockVars, podVars, subVars, redisVars, db, callVars>>

Messages == [channel: Channels, args: Args]

NoCall == [type |-> None, args |-> None, id |-> None, ver |-> 0]

Locals ==
  [type: Types \cup {None}, args: Args \cup {None}, id: Ids \cup {None}, ver: Nat]

CallSteps == {"idle", "lookup", "compute", "store", "register", "publish",
              "readback", "panicked"}
SubSteps  == {"unborn", "start", "loop", "connect", "listening", "reading",
              "handling", "ended", "died"}

CInit ==
  /\ data = [p \in Pods |-> [T \in Types |-> EmptyData]]
  /\ index = [p \in Pods |-> [T \in Types |-> EmptyIndex]]
  /\ writer = [p \in Pods |-> None]
  /\ registrar = [p \in Pods |-> None]
  /\ poisoned = [p \in Pods |-> FALSE]
  /\ regPoisoned = [p \in Pods |-> FALSE]
  /\ registry = [p \in Pods |-> [c \in Channels |-> <<>>]]
  /\ workerTx = [p \in Pods |-> FALSE]
  /\ active = [p \in Pods |-> FALSE]
  /\ spc = [s \in Subs |-> "unborn"]
  /\ wanted = [s \in Subs |-> {}]
  /\ msg = [s \in Subs |-> None]
  /\ todo = [s \in Subs |-> <<>>]
  /\ RedisInit
  /\ db = [i \in Ids |-> 0]
  /\ pc = [t \in Threads |-> "idle"]
  /\ call = [t \in Threads |-> NoCall]
  /\ calls = 0

CanWriteAlways(p) == TRUE   \* mutant: the stores lock is waited for by nobody

\* stores.read() and stores.write(): no call of the pod is between set() and get().
CanWrite(p) == writer[p] = None

Goto(t, step) == pc' = [pc EXCEPT ![t] = step]
Return(t) == Goto(t, "idle") /\ call' = [call EXCEPT ![t] = NoCall]
Panic(t)  == Goto(t, "panicked") /\ call' = [call EXCEPT ![t] = NoCall]

-----------------------------------------------------------------------------
(* through_imc_keyed *)

ThroughKeyed(t, T, a) ==
  /\ pc[t] = "idle" /\ calls < MaxCalls
  /\ calls' = calls + 1
  /\ call' = [call EXCEPT ![t] = [@ EXCEPT !.type = T, !.args = a]]
  /\ Goto(t, "lookup")
  /\ UNCHANGED <<cacheVars, lockVars, podVars, subVars, redisVars, db>>

\* Whether get() of the key of t finds a value in the pod of t.
Found(t) ==
  LET p == PodOf[t]
      T == call[t].type IN Hit(data[p][T], index[p][T], call[t].args)

LookupHit(t) ==
  /\ pc[t] = "lookup" /\ CanWrite(PodOf[t]) /\ ~poisoned[PodOf[t]]
  /\ Found(t)
  /\ Return(t)
  /\ UNCHANGED <<cacheVars, lockVars, podVars, subVars, redisVars, db, calls>>

LookupMiss(t) ==
  /\ pc[t] = "lookup" /\ CanWrite(PodOf[t]) /\ ~poisoned[PodOf[t]]
  /\ ~Found(t)
  /\ Goto(t, "compute")
  /\ UNCHANGED <<cacheVars, lockVars, podVars, subVars, redisVars, db, call, calls>>

Compute(t) ==
  /\ pc[t] = "compute"
  /\ \E i \in Answers[call[t].args] :
       call' = [call EXCEPT ![t] = [@ EXCEPT !.id = i, !.ver = db[i]]]
  /\ Goto(t, "store")
  /\ UNCHANGED <<cacheVars, lockVars, podVars, subVars, redisVars, db, calls>>

\* stores.write().unwrap() and set(); the write lock is held until ReadBack.
StoreValue(t) ==
  LET p == PodOf[t]
      T == call[t].type
      i == call[t].id IN
  /\ pc[t] = "store" /\ CanWrite(p) /\ ~poisoned[p]
  /\ \E d \in SetOutcomes(data[p][T], i, call[t].ver, 0, "Fifo", ~workerTx[p]) :
       data' = [data EXCEPT ![p][T] = d]
  /\ index' = [index EXCEPT ![p][T][call[t].args] = i]
  /\ writer' = [writer EXCEPT ![p] = t]
  /\ Goto(t, "register")
  /\ UNCHANGED <<poisoned, registrar, regPoisoned, podVars, subVars, redisVars, db,
                 call, calls>>

\* after_store, first half: the registry's mutex is taken under the stores lock.
Register(t) ==
  LET p == PodOf[t]
      T == call[t].type IN
  /\ pc[t] = "register" /\ registrar[p] = None /\ ~regPoisoned[p]
  /\ registry' = [registry EXCEPT ![p][ChannelOf[T]] = Append(@, T)]
  /\ Goto(t, "publish")
  /\ UNCHANGED <<cacheVars, lockVars, workerTx, active, subVars, redisVars, db, call,
                 calls>>

\* Second half: the key's hash is published, to the own pod as well ...
Publish(t) ==
  /\ pc[t] = "publish" /\ active[PodOf[t]]
  /\ LET c == ChannelOf[call[t].type] IN
       Deliver(c, [channel |-> c, args |-> call[t].args])
  /\ Goto(t, "readback")
  /\ UNCHANGED <<cacheVars, lockVars, podVars, subVars, db, call, calls>>

\* ... or not: without an active subscriber, or because Redis cannot be
\* reached, which is ignored.
SkipPublish(t) ==
  /\ pc[t] = "publish"
  /\ Goto(t, "readback")
  /\ UNCHANGED <<cacheVars, lockVars, podVars, subVars, redisVars, db, call, calls>>

ReadBack(t) ==
  /\ pc[t] = "readback" /\ Found(t)
  /\ writer' = [writer EXCEPT ![PodOf[t]] = None]
  /\ Return(t)
  /\ UNCHANGED <<cacheVars, poisoned, registrar, regPoisoned, podVars, subVars,
                 redisVars, db, calls>>

ReadBackPanics(t) ==
  /\ pc[t] = "readback" /\ ~Found(t)
  /\ writer' = [writer EXCEPT ![PodOf[t]] = None]
  /\ poisoned' = [poisoned EXCEPT ![PodOf[t]] = TRUE]
  /\ Panic(t)
  /\ UNCHANGED <<cacheVars, registrar, regPoisoned, podVars, subVars, redisVars, db,
                 calls>>

LockPanics(t) ==
  /\ pc[t] \in {"lookup", "store"} /\ poisoned[PodOf[t]]
  /\ Panic(t)
  /\ UNCHANGED <<cacheVars, lockVars, podVars, subVars, redisVars, db, calls>>

-----------------------------------------------------------------------------
(* The worker's handle: spawning starts a subscriber thread and the thread   *)
(* that sweeps; dropping empties WORKER_TX and queues Shutdown for the latter.*)

SpawnWorker(s) ==
  LET p == SubPod[s] IN
  /\ spc[s] = "unborn" /\ ~workerTx[p]
  /\ Cardinality({r \in Subs : spc[r] # "unborn"}) < MaxSpawns
  /\ workerTx' = [workerTx EXCEPT ![p] = TRUE]
  /\ spc' = [spc EXCEPT ![s] = "start"]
  /\ UNCHANGED <<cacheVars, lockVars, registry, active, wanted, msg, todo, redisVars, db,
                 callVars>>

DropWorker(p) ==
  /\ workerTx[p]
  /\ workerTx' = [workerTx EXCEPT ![p] = FALSE]
  /\ UNCHANGED <<cacheVars, lockVars, registry, active, subVars, redisVars, db, callVars>>

-----------------------------------------------------------------------------
(* worker_loop: the thread executes commands and sweeps, under the write lock   *)
(* for all types of its pod.  When the thread of a dropped worker has come to   *)
(* its Shutdown is left open: once spawned, it may take a step at any time.     *)

Runs(s) == spc[s] # "unborn"

\* write().unwrap() without a call between set() and get(); on a poisoned lock the
\* thread panics and changes nothing any more.
Writes(p) == CanWrite(p) /\ ~poisoned[p]

Removing(p, T, i) ==
  /\ data' = [data EXCEPT ![p][T] = RemoveData(@, i)]
  /\ UNCHANGED index

Clearing(p, cleared) ==
  /\ data' = [data EXCEPT ![p] = [T \in Types |-> IF T \in cleared THEN EmptyData ELSE @[T]]]
  /\ index' = [index EXCEPT ![p] = [T \in Types |-> IF T \in cleared THEN EmptyIndex ELSE @[T]]]

Sweeping(p) ==
  /\ \E left \in [Types -> UNION {EvictedToMaxSize(WithoutAllExpired(data[p][T]), "Fifo") : T \in Types}] :
       /\ \A T \in Types : left[T] \in EvictedToMaxSize(WithoutAllExpired(data[p][T]), "Fifo")
       /\ data' = [data EXCEPT ![p] = left]
  /\ index' = [index EXCEPT ![p] = [T \in Types |-> Retained(@[T], data'[p][T])]]

Execute(s) ==
  LET p == SubPod[s] IN
  /\ Runs(s) /\ Writes(p)
  /\ \/ \E T \in Types, i \in Ids : Removing(p, T, i)
     \/ \E T \in Types : Clearing(p, {T})
     \/ Clearing(p, Types)
  /\ UNCHANGED <<lockVars, podVars, subVars, redisVars, db, callVars>>

Sweep(s) ==
  /\ Runs(s) /\ Writes(SubPod[s])
  /\ Sweeping(SubPod[s])
  /\ UNCHANGED <<lockVars, podVars, subVars, redisVars, db, callVars>>

-----------------------------------------------------------------------------
(* imc_remove and imc_clear *)

Removal(t) ==
  /\ pc[t] = "idle" /\ calls < MaxCalls /\ Writes(PodOf[t])
  /\ calls' = calls + 1
  /\ UNCHANGED <<lockVars, podVars, subVars, redisVars, db, pc, call>>

ImcRemove(t, T, i) == Removal(t) /\ Removing(PodOf[t], T, i)

ImcClear(t, T) == Removal(t) /\ Clearing(PodOf[t], {T})

\* Both unwrap the poisoned lock, too.
WritePanics(t) ==
  /\ pc[t] = "idle" /\ calls < MaxCalls /\ poisoned[PodOf[t]]
  /\ calls' = calls + 1
  /\ Panic(t)
  /\ UNCHANGED <<cacheVars, lockVars, podVars, subVars, redisVars, db>>

-----------------------------------------------------------------------------
(* subscriber_loop *)

SubGoto(s, step) == spc' = [spc EXCEPT ![s] = step]

StartSubscriber(s) ==
  /\ spc[s] = "start"
  /\ active' = [active EXCEPT ![SubPod[s]] = TRUE]
  /\ SubGoto(s, "loop")
  /\ UNCHANGED <<cacheVars, lockVars, registry, workerTx, wanted, msg, todo, redisVars, db,
                 callVars>>

\* Without the worker the thread ends, at the head of either loop ...
StopSubscriber(s) ==
  /\ spc[s] \in {"loop", "connect", "listening"} /\ ~workerTx[SubPod[s]]
  /\ Disconnect(s)
  /\ wanted' = [wanted EXCEPT ![s] = {}]
  /\ SubGoto(s, "ended")
  /\ UNCHANGED <<cacheVars, lockVars, podVars, msg, todo, db, callVars>>

\* ... otherwise it takes the channels registered by now, if there are any ...
Snapshot(s) ==
  LET p  == SubPod[s]
      cs == {c \in Channels : registry[p][c] # <<>>} IN
  /\ spc[s] = "loop" /\ workerTx[p]
  /\ registrar[p] = None /\ ~regPoisoned[p]
  /\ cs # {}
  /\ wanted' = [wanted EXCEPT ![s] = cs]
  /\ SubGoto(s, "connect")
  /\ UNCHANGED <<cacheVars, lockVars, podVars, msg, todo, redisVars, db, callVars>>

\* ... and subscribes to them for as long as the connection lasts.
Connect(s) ==
  /\ spc[s] = "connect" /\ workerTx[SubPod[s]]
  /\ Subscribe(s, wanted[s])
  /\ wanted' = [wanted EXCEPT ![s] = {}]
  /\ SubGoto(s, "reading")
  /\ UNCHANGED <<cacheVars, lockVars, podVars, msg, todo, db, callVars>>

AwaitMessage(s) ==
  /\ spc[s] = "listening" /\ workerTx[SubPod[s]]
  /\ SubGoto(s, "reading")
  /\ UNCHANGED <<cacheVars, lockVars, podVars, wanted, msg, todo, redisVars, db, callVars>>

\* The 10 s read timeout; with the worker still there, reading goes on.
ReadTimeout(s) ==
  /\ spc[s] = "reading" /\ inbox[s] = <<>> /\ ~workerTx[SubPod[s]]
  /\ SubGoto(s, "listening")
  /\ UNCHANGED <<cacheVars, lockVars, podVars, wanted, msg, todo, redisVars, db, callVars>>

\* Redis refuses or drops the connection; after 5 s the loop starts over.
ConnectionFails(s) ==
  /\ spc[s] \in {"connect", "reading"}
  /\ Disconnect(s)
  /\ wanted' = [wanted EXCEPT ![s] = {}]
  /\ SubGoto(s, "loop")
  /\ UNCHANGED <<cacheVars, lockVars, podVars, msg, todo, db, callVars>>

-----------------------------------------------------------------------------
(* handle_invalidation *)

\* The registry's mutex is taken and held to the end.
TakeMessage(s) ==
  LET p == SubPod[s] IN
  /\ spc[s] = "reading" /\ registrar[p] = None /\ ~regPoisoned[p]
  /\ Read(s)
  /\ msg' = [msg EXCEPT ![s] = Head(inbox[s])]
  /\ todo' = [todo EXCEPT ![s] = registry[p][Head(inbox[s]).channel]]
  /\ registrar' = [registrar EXCEPT ![p] = s]
  /\ SubGoto(s, "handling")
  /\ UNCHANGED <<cacheVars, writer, poisoned, regPoisoned, podVars, wanted, db, callVars>>

RemoveIgnoringPoison(s) ==   \* mutant: into_inner() where the code unwraps
  LET p == SubPod[s]
      T == Head(todo[s])
      a == msg[s].args IN
  /\ spc[s] = "handling" /\ todo[s] # <<>> /\ CanWrite(p)
  /\ data' = [data EXCEPT ![p][T] = WithoutUnreferenced(@, index[p][T], a)]
  /\ index' = [index EXCEPT ![p][T] = Unbound(@, a)]
  /\ todo' = [todo EXCEPT ![s] = Tail(@)]
  /\ UNCHANGED <<lockVars, podVars, spc, wanted, msg, redisVars, db, callVars>>

\* Under it, once per registered type, the stores lock and one removal.
RemoveNext(s) ==
  LET p == SubPod[s]
      T == Head(todo[s])
      a == msg[s].args IN
  /\ spc[s] = "handling" /\ todo[s] # <<>>
  /\ CanWrite(p) /\ ~poisoned[p]
  /\ data' = [data EXCEPT ![p][T] = WithoutUnreferenced(@, index[p][T], a)]
  /\ index' = [index EXCEPT ![p][T] = Unbound(@, a)]
  /\ todo' = [todo EXCEPT ![s] = Tail(@)]
  /\ UNCHANGED <<lockVars, podVars, spc, wanted, msg, redisVars, db, callVars>>

FinishMessageHolding(s) ==   \* mutant: the registry's mutex is not released
  /\ spc[s] = "handling" /\ todo[s] = <<>>
  /\ msg' = [msg EXCEPT ![s] = None]
  /\ SubGoto(s, "listening")
  /\ UNCHANGED <<cacheVars, lockVars, podVars, wanted, todo, redisVars, db, callVars>>

FinishMessage(s) ==
  /\ spc[s] = "handling" /\ todo[s] = <<>>
  /\ registrar' = [registrar EXCEPT ![SubPod[s]] = None]
  /\ msg' = [msg EXCEPT ![s] = None]
  /\ SubGoto(s, "listening")
  /\ UNCHANGED <<cacheVars, writer, poisoned, regPoisoned, podVars, wanted, todo,
                 redisVars, db, callVars>>

\* stores.write().unwrap() on the poisoned lock takes the registry along ...
RemovePanics(s) ==
  LET p == SubPod[s] IN
  /\ spc[s] = "handling" /\ todo[s] # <<>> /\ poisoned[p]
  /\ regPoisoned' = [regPoisoned EXCEPT ![p] = TRUE]
  /\ registrar' = [registrar EXCEPT ![p] = None]
  /\ msg' = [msg EXCEPT ![s] = None]
  /\ todo' = [todo EXCEPT ![s] = <<>>]
  /\ Disconnect(s)
  /\ SubGoto(s, "died")
  /\ UNCHANGED <<cacheVars, writer, poisoned, podVars, wanted, db, callVars>>

\* ... on which any other subscriber of the pod panics in turn.
RegistryPanics(s) ==
  /\ regPoisoned[SubPod[s]]
  /\ \/ spc[s] = "loop" /\ workerTx[SubPod[s]]
     \/ spc[s] = "reading" /\ inbox[s] # <<>>
  /\ Disconnect(s)
  /\ SubGoto(s, "died")
  /\ UNCHANGED <<cacheVars, lockVars, podVars, wanted, msg, todo, db, callVars>>

-----------------------------------------------------------------------------
(* The environment *)

DbUpdate(i) ==
  /\ db[i] < MaxVer
  /\ db' = [db EXCEPT ![i] = @ + 1]
  /\ UNCHANGED <<cacheVars, lockVars, podVars, subVars, redisVars, callVars>>

TimePasses ==
  /\ Ttl # None
  /\ data' = [p \in Pods |-> [T \in Types |-> Aged(data[p][T])]]
  /\ UNCHANGED <<index, lockVars, podVars, subVars, redisVars, db, callVars>>

-----------------------------------------------------------------------------
Caller(t) ==
  \/ LookupHit(t) \/ LookupMiss(t) \/ Compute(t) \/ StoreValue(t) \/ Register(t)
  \/ Publish(t) \/ SkipPublish(t) \/ ReadBack(t) \/ ReadBackPanics(t) \/ LockPanics(t)

Subscriber(s) ==
  \/ StartSubscriber(s) \/ StopSubscriber(s) \/ Snapshot(s) \/ Connect(s)
  \/ AwaitMessage(s) \/ TakeMessage(s) \/ RemoveNext(s) \/ FinishMessage(s)
  \/ RemovePanics(s) \/ RegistryPanics(s)

CNext ==
  \/ \E t \in Threads : (\E T \in Types, a \in Args : ThroughKeyed(t, T, a)) \/ Caller(t)
  \/ \E t \in Threads :
       WritePanics(t) \/ \E T \in Types : ImcClear(t, T) \/ \E i \in Ids : ImcRemove(t, T, i)
  \/ \E s \in Subs : SpawnWorker(s) \/ Subscriber(s) \/ ReadTimeout(s) \/ ConnectionFails(s)
  \/ \E s \in Subs : Execute(s) \/ Sweep(s)
  \/ \E p \in Pods : DropWorker(p)
  \/ \E i \in Ids : DbUpdate(i)
  \/ TimePasses

CSpec == CInit /\ [][CNext]_cvars

\* Callers and subscribers are scheduled; nothing obliges anyone to call, to
\* spawn or drop a worker, or Redis to fail or a read to time out.
CFairSpec ==
  /\ CSpec
  /\ \A t \in Threads : WF_cvars(Caller(t))
  /\ \A s \in Subs : WF_cvars(Subscriber(s))

-----------------------------------------------------------------------------
(* Correctness *)

\* Every variable keeps its type, and each lock of a pod is held by whoever of the
\* pod has a next step that says so: the stores lock by a call between set() and
\* get(), the registry by the subscriber that handles a message.  after_store never
\* finds the registry poisoned, since the stores lock is by then.
CTypeOK ==
  /\ data \in [Pods -> [Types -> DataMap]]
  /\ index \in [Pods -> [Types -> IndexMap]]
  /\ writer \in [Pods -> Threads \cup {None}]
  /\ \A p \in Pods : writer[p] # None => PodOf[writer[p]] = p
  /\ \A t \in Threads : pc[t] \in {"register", "publish", "readback"} <=> writer[PodOf[t]] = t
  /\ poisoned \in [Pods -> BOOLEAN] /\ regPoisoned \in [Pods -> BOOLEAN]
  /\ registry \in [Pods -> [Channels -> Seq(Types)]]
  /\ \A p \in Pods, c \in Channels : \A T \in ToSet(registry[p][c]) : ChannelOf[T] = c
  /\ \A t \in Threads : pc[t] = "register" => ~regPoisoned[PodOf[t]]
  /\ registrar \in [Pods -> Subs \cup {None}]
  /\ \A p \in Pods : registrar[p] # None => SubPod[registrar[p]] = p
  /\ \A s \in Subs : spc[s] = "handling" <=> registrar[SubPod[s]] = s
  /\ workerTx \in [Pods -> BOOLEAN] /\ active \in [Pods -> BOOLEAN]
  /\ spc \in [Subs -> SubSteps]
  /\ wanted \in [Subs -> SUBSET Channels] /\ listening \in [Subs -> SUBSET Channels]
  /\ msg \in [Subs -> Messages \cup {None}] /\ inbox \in [Subs -> Seq(Messages)]
  /\ todo \in [Subs -> Seq(Types)]
  /\ db \in [Ids -> Nat]
  /\ pc \in [Threads -> CallSteps] /\ call \in [Threads -> Locals] /\ calls \in Nat

\* api.rs, expect("value was just stored"), with the registry, the network and
\* other pods' messages between set() and get(): the subscriber of the pod never
\* removes what a call has stored and not yet read back.
StoredWhilePublishing ==
  \A t \in Threads : pc[t] \in {"register", "publish", "readback"} =>
    LET p == PodOf[t]
        T == call[t].type IN
    /\ index[p][T][call[t].args] = call[t].id
    /\ data[p][T][call[t].id] # None

\* A store and a message wait for each other: the call holds the stores lock of
\* the pod and needs the registry, the subscriber has it the other way round.
Stuck(p) ==
  \E t \in Threads, s \in Subs :
    /\ writer[p] = t /\ pc[t] = "register"
    /\ registrar[p] = s /\ todo[s] # <<>>

\* Nothing the program does gets a pod out of that, neither a dropped worker, a
\* lost connection nor another message: its caches are never used again.
StuckForGood ==
  [][\A p \in Pods : Stuck(p) => Stuck(p)' /\ index'[p] = index[p]]_cvars

\* One panic between set() and get() ends the caches of its pod, of all its types:
\* no message removes a key any more, and no store gets as far as the registry.
PodDeadAfterPoison ==
  [][\A p \in Pods : poisoned[p] =>
       /\ poisoned'[p] /\ index'[p] = index[p] /\ registry'[p] = registry[p]
       /\ \A T \in Types : Cached(data'[p][T]) = Cached(data[p][T])]_cvars

\* Registry, network and messages between set() and get() give a store no more ways
\* to panic than without them: a poisoned pod has an entry that has expired.
PodPoisonOnlyByExpiry ==
  \A p \in Pods : poisoned[p] =>
    \E T \in Types, i \in Ids : data[p][T][i] # None /\ Expired(data[p][T][i])

\* critical.rs, subscriber_loop: "Subscribe to all registered critical channels
\* and remove stale cache entries when messages arrive."  A message taken in hand
\* is handled to the end, and the registry is free again.
HandlingEnds ==
  \A s \in Subs : spc[s] = "handling" ~> spc[s] # "handling"
=============================================================================
