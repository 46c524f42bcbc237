------------------------- MODULE ImcCriticalHistory -------------------------
(***************************************************************************)
(* ImcCritical with history variables, for promises about the past:        *)
(*   lost[p][T]      keys of which pod p missed an announcement, or failed *)
(*                   to make one of its own, since it last dropped them;   *)
(*   floor[p][T][a]  the system of record when p last removed a because of *)
(*                   a message;                                            *)
(*   promised[t]     floor for the key of t when its call began.           *)
(***************************************************************************)
EXTENDS ImcCritical

VARIABLES lost, floor, promised

hvars == <<cvars, lost, floor, promised>>

CHInit ==
  /\ CInit
  /\ lost = [p \in Pods |-> [T \in Types |-> {}]]
  /\ floor = [p \in Pods |-> [T \in Types |-> [a \in Args |-> db]]]
  /\ promised = [t \in Threads |-> db]

SubsOf(p) == {s \in Subs : SubPod[s] = p}

\* The messages for key a of type T that s has read or is still to read.
InHand(s, T, a) == spc[s] = "handling" /\ msg[s].args = a /\ T \in ToSet(todo[s])
Pending(s, T, a) ==
  InHand(s, T, a) \/ [channel |-> ChannelOf[T], args |-> a] \in Unread(s)

-----------------------------------------------------------------------------
Begin(t) ==
  /\ \E T \in Types, a \in Args :
       /\ ThroughKeyed(t, T, a)
       /\ promised' = [promised EXCEPT ![t] = floor[PodOf[t]][T][a]]
  /\ UNCHANGED <<lost, floor>>

\* Pods without a connection subscribed to the channel miss the message.
Announced(t) ==
  LET T == call[t].type IN
  /\ Publish(t)
  /\ lost' = [p \in Pods |->
       IF SubsOf(p) \cap Listeners(ChannelOf[T]) = {}
       THEN [lost[p] EXCEPT ![T] = @ \cup {call[t].args}] ELSE lost[p]]
  /\ UNCHANGED <<floor, promised>>

NotAnnounced(t) ==
  /\ SkipPublish(t)
  /\ lost' = [lost EXCEPT ![PodOf[t]][call[t].type] = @ \cup {call[t].args}]
  /\ UNCHANGED <<floor, promised>>

\* The connection goes with all that was to be read and all in hand.
Dropped(s) ==
  /\ StopSubscriber(s) \/ ConnectionFails(s) \/ RemovePanics(s) \/ RegistryPanics(s)
  /\ lost' = [lost EXCEPT ![SubPod[s]] =
       [T \in Types |-> @[T] \cup {a \in Args : Pending(s, T, a)}]]
  /\ UNCHANGED <<floor, promised>>

Removed(s) ==
  LET p == SubPod[s]
      T == Head(todo[s])
      a == msg[s].args IN
  /\ RemoveNext(s)
  /\ lost' = [lost EXCEPT ![p][T] = @ \ {a}]
  /\ floor' = [floor EXCEPT ![p][T][a] = db]
  /\ UNCHANGED promised

\* The worker sweeps or executes, or a caller removes or clears: a key that is no
\* longer bound is missed no more.
Forgotten(p) ==
  /\ \/ \E s \in SubsOf(p) : Execute(s) \/ Sweep(s)
     \/ \E t \in Threads, T \in Types :
          PodOf[t] = p /\ (ImcClear(t, T) \/ \E i \in Ids : ImcRemove(t, T, i))
  /\ lost' = [lost EXCEPT ![p] =
       [T \in Types |-> {a \in @[T] : index'[p][T][a] = index[p][T][a]}]]
  /\ UNCHANGED <<floor, promised>>

Unrecorded ==
  /\ \/ \E t \in Threads :
          \/ LookupHit(t) \/ LookupMiss(t) \/ Compute(t) \/ StoreValue(t)
          \/ Register(t) \/ ReadBack(t) \/ ReadBackPanics(t) \/ LockPanics(t)
          \/ WritePanics(t)
     \/ \E s \in Subs :
          \/ SpawnWorker(s) \/ StartSubscriber(s) \/ Snapshot(s) \/ Connect(s)
          \/ AwaitMessage(s) \/ ReadTimeout(s) \/ TakeMessage(s) \/ FinishMessage(s)
     \/ \E p \in Pods : DropWorker(p)
     \/ \E i \in Ids : DbUpdate(i)
     \/ TimePasses
  /\ UNCHANGED <<lost, floor, promised>>

CHNext ==
  \/ \E t \in Threads : Begin(t) \/ Announced(t) \/ NotAnnounced(t)
  \/ \E s \in Subs : Dropped(s) \/ Removed(s)
  \/ \E p \in Pods : Forgotten(p)
  \/ Unrecorded

CHSpec == CHInit /\ [][CHNext]_hvars

-----------------------------------------------------------------------------
(* What of all this is seen of the broadcast: a key is a type and an argument. *)

Kept == [p \in Pods |-> {k \in Types \X Args : index[p][k[1]][k[2]] # None}]

Owed ==
  [p \in Pods |-> {k \in Types \X Args : \E s \in SubsOf(p) : Pending(s, k[1], k[2])}]

Missed == [p \in Pods |-> {k \in Types \X Args : k[2] \in lost[p][k[1]]}]

Telling ==
  [p \in Pods |-> IF writer[p] # None /\ pc[writer[p]] # "readback"
                  THEN <<call[writer[p]].type, call[writer[p]].args>> ELSE None]

Broadcast == INSTANCE KeyedBroadcast WITH
  keeps <- Kept, owes <- Owed, missed <- Missed, telling <- Telling

\* after_store and subscriber_loop of critical.rs, with registry, locks, Redis and
\* broken connections, do what KeyedBroadcast promises: what a pod is told of it
\* drops, unless it does not keep it, or has stored it anew and will be told again;
\* and though sweeps, commands and callers drop keys as they like, a key that was
\* stored is there until the pods have been told of it.
BroadcastSpec == Broadcast!KSpec

-----------------------------------------------------------------------------
\* What the broadcast achieves: whatever a pod has bound is on its way out, in
\* a message its subscriber has still to carry out or in a call still to
\* publish, unless the pod missed an announcement of the key.  No pod keeps a
\* copy that a later store has superseded; nor does it keep, as soon as its
\* subscriber catches up, anything it stored itself.
BindingIsAnnounced ==
  \A p \in Pods, T \in Types, a \in Args :
    index[p][T][a] # None =>
      \/ a \in lost[p][T]
      \/ \E s \in SubsOf(p) : Pending(s, T, a)
      \/ \E t \in Threads :
           /\ writer[p] = t /\ pc[t] \in {"register", "publish"}
           /\ call[t].type = T /\ call[t].args = a

\* README.md, critical keys: "Pod A receives it and evicts the stale entry. Next
\* read on Pod A fetches fresh data."  A call that begins after its pod removed
\* the key is not served what is older than that removal.
NextReadFresh ==
  \A t \in Threads : pc[t] = "readback" =>
    data[PodOf[t]][call[t].type][call[t].id].ver >= promised[t][call[t].id]
=============================================================================
