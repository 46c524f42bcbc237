--------------------------- MODULE KeyedBroadcast ---------------------------
(***************************************************************************)
(* What critical channels promise about the keys pods keep, without locks, *)
(* Redis, registries, workers or values.  A pod begins to keep a key by    *)
(* storing it and then tells all pods; who is told owes it to drop the key,*)
(* who is not told has missed it.  A pod may forget keys of its own accord,*)
(* but never one it has stored and not yet told of; and it still owes them,*)
(* since it may have stored them anew when the message comes to be read.   *)
(* Nothing but dropping a key for a message, not keeping it or missing the *)
(* message after all settles what is owed.                                 *)
(***************************************************************************)
CONSTANTS Pods, Types, Args, ChannelOf, None

VARIABLES
  keeps,    \* per pod: the keys, as <<type, argument>>, it has bound
  owes,     \* per pod: the keys it was told of and has not dropped since
  missed,   \* per pod: the keys it missed being told of, and has not dropped since
  telling   \* per pod: the key it has stored and has still to tell of, or None

kvars == <<keeps, owes, missed, telling>>

TypedKeys == Types \X Args

\* One message names its argument in every type of its channel.
Named(k) == {l \in TypedKeys : ChannelOf[l[1]] = ChannelOf[k[1]] /\ l[2] = k[2]}

KInit ==
  /\ keeps = [p \in Pods |-> {}]
  /\ owes = [p \in Pods |-> {}]
  /\ missed = [p \in Pods |-> {}]
  /\ telling = [p \in Pods |-> None]

\* A pod stores one key at a time, until it has told of it.
Store(p, k) ==
  /\ telling[p] = None
  /\ telling' = [telling EXCEPT ![p] = k]
  /\ keeps' = [keeps EXCEPT ![p] = @ \cup {k}]
  /\ UNCHANGED <<owes, missed>>

\* All pods of `reached`, the teller perhaps among them, have to drop the key.
Tell(p, k) ==
  /\ telling[p] = k
  /\ telling' = [telling EXCEPT ![p] = None]
  /\ \E reached \in SUBSET Pods :
       /\ owes'   = [q \in Pods |-> IF q \in reached THEN owes[q] \cup Named(k) ELSE owes[q]]
       /\ missed' = [q \in Pods |-> IF q \in reached THEN missed[q] ELSE missed[q] \cup {k}]
  /\ UNCHANGED keeps

\* Nobody is told; the pod itself will not drop the key for that either.
TellNobody(p, k) ==
  /\ telling[p] = k
  /\ telling' = [telling EXCEPT ![p] = None]
  /\ missed' = [missed EXCEPT ![p] = @ \cup {k}]
  /\ UNCHANGED <<keeps, owes>>

\* A pod drops a key it was told of.  It may have been told of it once more.
Drop(p, k) ==
  /\ k \in owes[p]
  /\ keeps' = [keeps EXCEPT ![p] = @ \ {k}]
  /\ missed' = [missed EXCEPT ![p] = @ \ {k}]
  /\ \/ owes' = owes
     \/ owes' = [owes EXCEPT ![p] = @ \ {k}]
  /\ UNCHANGED telling

\* A pod forgets keys without having been told: they expire, are evicted, removed
\* or cleared.
Forget(p, gone) ==
  /\ telling[p] = None
  /\ keeps' = [keeps EXCEPT ![p] = @ \ gone]
  /\ missed' = [missed EXCEPT ![p] = @ \ gone]
  /\ UNCHANGED <<owes, telling>>

\* What was on its way to a pod is lost, unless it comes on another way, too.
Miss(p, gone) ==
  /\ missed' = [missed EXCEPT ![p] = @ \cup gone]
  /\ owes' = [owes EXCEPT ![p] = owes'[p]]
  /\ owes'[p] \subseteq owes[p] /\ owes[p] \subseteq owes'[p] \cup gone
  /\ UNCHANGED <<keeps, telling>>

\* A pod need not drop what it does not keep, nor what it has stored just now and
\* will hear of again.
Settle(p) ==
  /\ UNCHANGED <<keeps, missed, telling>>
  /\ owes' = [owes EXCEPT ![p] = owes'[p]]
  /\ owes'[p] \subseteq owes[p]
  /\ (owes[p] \ owes'[p]) \cap keeps[p] \subseteq {telling[p]}

KNext ==
  \E p \in Pods :
    \/ Settle(p)
    \/ \E gone \in SUBSET owes[p] : Miss(p, gone)
    \/ \E gone \in SUBSET keeps[p] : Forget(p, gone)
    \/ \E k \in TypedKeys : Store(p, k) \/ Tell(p, k) \/ TellNobody(p, k) \/ Drop(p, k)

KSpec == KInit /\ [][KNext]_kvars
=============================================================================
