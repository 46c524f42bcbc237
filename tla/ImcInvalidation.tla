-------------------------- MODULE ImcInvalidation --------------------------
(***************************************************************************)
(* The Redis subscriber of invalidation.rs beside the callers of ImcApi, in *)
(* a process that caches a type with cache_invalidation_channel().  Creating *)
(* the type's namespace, on its first store, claims the channel in the      *)
(* registry unless another type has.  Spawning a worker takes a snapshot of *)
(* the registry for a subscriber thread, which maps the messages of the     *)
(* channel to the type of the snapshot and removes identities from it.      *)
(* Other processes update the system of record and publish the identity.    *)
(*                                                                          *)
(* History: announced[i] is the version of i last published, missed the     *)
(* identities whose publication did not, or not in time, reach a subscriber *)
(* that removes them from this type.  Of ImcApi's operations, abandoned and *)
(* oversized calls, imc_remove and imc_clear store nothing and are left out.*)
(***************************************************************************)
EXTENDS ImcApi, RedisPubSub

CONSTANTS
  This, Rival,  \* this type, and another one with the same channel
  Channel       \* the channel of both

ASSUME InvalidationAssumption ==
  /\ Channel \in Channels
  /\ None \notin {This, Rival} /\ This # Rival

VARIABLES
  created,    \* the namespace of This exists
  owner,      \* REGISTRY's type for Channel, or None
  chanMap,    \* per subscriber: the type its snapshot has for Channel, or None
  spc,        \* per subscriber: its next step
  msg,        \* per subscriber: the identity to remove, or None
  unannounced,\* identities updated and not yet published
  announced, missed

subVars == <<created, owner, chanMap, spc, msg>>
pubVars == <<unannounced, announced, missed>>
ivars   == <<vars, redisVars, subVars, pubVars>>

SubSteps == {"unborn", "loop", "connect", "listening", "reading", "handling",
             "ended", "died"}

IInit ==
  /\ Init
  /\ RedisInit
  /\ created = FALSE
  /\ owner = None
  /\ chanMap = [s \in Subs |-> None]
  /\ spc = [s \in Subs |-> "unborn"]
  /\ msg = [s \in Subs |-> None]
  /\ unannounced = {}
  /\ announced = [i \in Ids |-> 0]
  /\ missed = {}

-----------------------------------------------------------------------------
(* Callers *)

CreateUnclaimed ==   \* mutant: register() is left to the worker
  /\ created' = TRUE
  /\ owner' = owner

\* from_trait() and register(): the first type on a channel keeps it.
Create ==
  /\ created' = TRUE
  /\ owner' = IF ~created /\ owner = None THEN This ELSE owner

\* A value older than what was announced comes after the message that would
\* have removed it.
StoreAndRegister(t) ==
  /\ StoreValue(t)
  /\ Create
  /\ missed' = IF SetInserts(data, call[t].id) /\ call[t].ver < announced[call[t].id]
               THEN missed \cup {call[t].id} ELSE missed
  /\ UNCHANGED <<redisVars, chanMap, spc, msg, unannounced, announced>>

\* Steps of ImcApi that concern neither the registry nor the publisher.
ApiStep(t) ==
  /\ \/ LookupHit(t) \/ TickHit(t) \/ StampHit(t) \/ LookupMiss(t)
     \/ Compute(t) \/ ReadBack(t) \/ ReadBackPanics(t) \/ LockPanics(t)
  /\ UNCHANGED <<redisVars, subVars, pubVars>>

Begin(t) ==
  /\ \E a \in Args : ThroughImc(t, a)
  /\ UNCHANGED <<redisVars, subVars, pubVars>>

\* The other type is stored first and claims the channel.
RivalRegisters ==
  /\ owner = None
  /\ owner' = Rival
  /\ UNCHANGED <<vars, redisVars, created, chanMap, spc, msg, pubVars>>

Time ==
  /\ TimePasses
  /\ UNCHANGED <<redisVars, subVars, pubVars>>

-----------------------------------------------------------------------------
(* The worker's handle *)

SpawnWorker(s) ==
  /\ spc[s] = "unborn" /\ ~workerTx
  /\ workerTx' = TRUE
  /\ chanMap' = [chanMap EXCEPT ![s] = owner]
  /\ spc' = [spc EXCEPT ![s] = "loop"]
  /\ UNCHANGED <<cacheVars, lockVars, db, pc, call, calls, redisVars, created, owner, msg,
                 pubVars>>

DropWorker ==
  /\ workerTx
  /\ workerTx' = FALSE
  /\ UNCHANGED <<cacheVars, lockVars, db, pc, call, calls, redisVars, subVars, pubVars>>

-----------------------------------------------------------------------------
(* redis_subscriber_loop and run_subscriber *)

SubGoto(s, step) ==
  /\ spc' = [spc EXCEPT ![s] = step]
  /\ UNCHANGED <<created, owner, chanMap>>

\* What s would still remove from This; it misses these with its connection.
ToRemove(s) ==
  IF chanMap[s] = This THEN Unread(s) \cup ({msg[s]} \ {None}) ELSE {}

Leave(s, step) ==
  /\ Disconnect(s)
  /\ SubGoto(s, step)
  /\ msg' = [msg EXCEPT ![s] = None]
  /\ missed' = missed \cup ToRemove(s)
  /\ UNCHANGED <<vars, unannounced, announced>>

EnterLoop(s) ==
  /\ spc[s] = "loop" /\ workerTx
  /\ SubGoto(s, "connect")
  /\ UNCHANGED <<vars, redisVars, msg, pubVars>>

StopSubscriber(s) ==
  /\ spc[s] \in {"loop", "connect", "listening"} /\ ~workerTx
  /\ Leave(s, "ended")

Connect(s) ==
  /\ spc[s] = "connect" /\ workerTx
  /\ Subscribe(s, IF chanMap[s] = None THEN {} ELSE {Channel})
  /\ SubGoto(s, "reading")
  /\ UNCHANGED <<vars, msg, pubVars>>

ConnectionFails(s) ==
  /\ spc[s] \in {"connect", "reading"}
  /\ Leave(s, "loop")

AwaitMessage(s) ==
  /\ spc[s] = "listening" /\ workerTx
  /\ SubGoto(s, "reading")
  /\ UNCHANGED <<vars, redisVars, msg, pubVars>>

\* The 10 s read timeout; with the worker still there, reading goes on.
ReadTimeout(s) ==
  /\ spc[s] = "reading" /\ inbox[s] = <<>> /\ ~workerTx
  /\ SubGoto(s, "listening")
  /\ UNCHANGED <<vars, redisVars, msg, pubVars>>

TakeMessage(s) ==
  /\ spc[s] = "reading"
  /\ Read(s)
  /\ msg' = [msg EXCEPT ![s] = Head(inbox[s])]
  /\ SubGoto(s, "handling")
  /\ UNCHANGED <<vars, pubVars>>

\* The stores lock, and remove_data() of the type the snapshot names.
RemoveAnnounced(s) ==
  /\ spc[s] = "handling" /\ CanWrite /\ ~poisoned
  /\ data' = IF chanMap[s] = This THEN RemoveData(data, msg[s]) ELSE data
  /\ missed' = IF chanMap[s] = This THEN missed \ {msg[s]} ELSE missed
  /\ msg' = [msg EXCEPT ![s] = None]
  /\ SubGoto(s, "listening")
  /\ UNCHANGED <<strategy, index, clock, lockVars, workerTx, db, pc, call, calls,
                 redisVars, unannounced, announced>>

\* stores.write().unwrap() on the poisoned lock ends the thread.
RemovePanics(s) ==
  /\ spc[s] = "handling" /\ poisoned
  /\ Leave(s, "died")

-----------------------------------------------------------------------------
(* The other processes: an update, and its publication some time after. *)

Update(i) ==
  /\ DbUpdate(i)
  /\ unannounced' = unannounced \cup {i}
  /\ UNCHANGED <<redisVars, subVars, announced, missed>>

PublishUpdate(i) ==
  /\ i \in unannounced
  /\ unannounced' = unannounced \ {i}
  /\ Deliver(Channel, i)
  /\ announced' = [announced EXCEPT ![i] = db[i]]
  /\ missed' = IF \E s \in Listeners(Channel) : chanMap[s] = This
               THEN missed ELSE missed \cup {i}
  /\ UNCHANGED <<vars, subVars>>

-----------------------------------------------------------------------------
Caller(t) == ApiStep(t) \/ StoreAndRegister(t)

Subscriber(s) ==
  \/ EnterLoop(s) \/ StopSubscriber(s) \/ Connect(s) \/ AwaitMessage(s)
  \/ TakeMessage(s) \/ RemoveAnnounced(s) \/ RemovePanics(s)

INext ==
  \/ \E t \in Threads : Begin(t) \/ Caller(t)
  \/ \E s \in Subs : SpawnWorker(s) \/ Subscriber(s) \/ ConnectionFails(s) \/ ReadTimeout(s)
  \/ DropWorker
  \/ RivalRegisters
  \/ \E i \in Ids : Update(i) \/ PublishUpdate(i)
  \/ Time

ISpec == IInit /\ [][INext]_ivars

\* Callers and subscribers are scheduled; nobody is obliged to call, to
\* publish, to spawn or to drop.
IFairSpec ==
  /\ ISpec
  /\ \A t \in Threads : WF_ivars(Caller(t))
  /\ \A s \in Subs : WF_ivars(Subscriber(s))

-----------------------------------------------------------------------------
(* Correctness *)

\* Every variable keeps its type; a subscriber has a message exactly while it
\* handles one; a namespace exists from the first store on and its channel is
\* claimed by then.
InvalidationTypeOK ==
  /\ TypeOK
  /\ created \in BOOLEAN /\ owner \in {None, This, Rival}
  /\ created => owner # None
  /\ Cached(data) # {} => created
  /\ chanMap \in [Subs -> {None, This, Rival}]
  /\ spc \in [Subs -> SubSteps]
  /\ msg \in [Subs -> Ids \cup {None}]
  /\ \A s \in Subs : msg[s] # None <=> spc[s] = "handling"
  /\ listening \in [Subs -> SUBSET Channels] /\ inbox \in [Subs -> Seq(Ids)]
  /\ \A s \in Subs : inbox[s] # <<>> => chanMap[s] # None
  /\ unannounced \subseteq Ids /\ missed \subseteq Ids
  /\ announced \in [Ids -> Nat]

\* What an invalidation achieves: an entry older than a published version is
\* about to be removed by a subscriber, unless no subscriber of this type heard
\* of it, a connection broke, or the entry was computed before and stored after.
AnnouncedIsRemoved ==
  \A i \in Ids :
    (data[i] # None /\ data[i].ver < announced[i]) =>
      i \in missed \/ \E s \in Subs : i \in ToRemove(s)

\* A subscriber with a message in hand gets the stores lock, or finds it poisoned and
\* ends: it waits for readers and stores only, and none of them waits for it.
InvalidationHandled ==
  \A s \in Subs : spc[s] = "handling" ~> spc[s] # "handling"

\* traits.rs, cache_invalidation_channel: "publishing the stable hash of an `Id`
\* on that channel removes the entry from every subscribing pod."  Whoever waits
\* for messages while the entry is cached at least receives this one.
PublishReachesSubscriber ==
  [][\A i \in Ids, s \in Subs :
       (i \in unannounced /\ i \notin unannounced' /\ data[i] # None /\ spc[s] = "reading")
         => i \in Unread(s)']_ivars
=============================================================================
