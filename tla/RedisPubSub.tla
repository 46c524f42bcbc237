---------------------------- MODULE RedisPubSub ----------------------------
(***************************************************************************)
(* Redis publish/subscribe as critical.rs and invalidation.rs use it.  A   *)
(* message goes, in order, to the connections subscribed to its channel at *)
(* that moment and is kept nowhere else: who is not connected, or loses    *)
(* its connection before reading, never sees it.  `listening` is the       *)
(* server's view, `inbox` what a connection has still to read.             *)
(***************************************************************************)
EXTENDS Naturals, Sequences, SequencesExt

CONSTANTS
  Subs,      \* subscriber threads ever started, each with one connection
  Channels   \* channel names

VARIABLES listening, inbox

redisVars == <<listening, inbox>>

RedisInit ==
  /\ listening = [s \in Subs |-> {}]
  /\ inbox = [s \in Subs |-> <<>>]

Listeners(c) == {s \in Subs : c \in listening[s]}

\* PUBLISH c m
Deliver(c, m) ==
  /\ inbox' = [s \in Subs |-> IF s \in Listeners(c) THEN Append(inbox[s], m) ELSE inbox[s]]
  /\ UNCHANGED listening

\* A new connection of s, subscribed to all of cs before it reads.
Subscribe(s, cs) ==
  /\ listening' = [listening EXCEPT ![s] = cs]
  /\ inbox' = [inbox EXCEPT ![s] = <<>>]

\* s reads its next message.
Read(s) ==
  /\ inbox[s] # <<>>
  /\ inbox' = [inbox EXCEPT ![s] = Tail(@)]
  /\ UNCHANGED listening

\* The connection of s is closed or breaks.
Disconnect(s) ==
  /\ listening' = [listening EXCEPT ![s] = {}]
  /\ inbox' = [inbox EXCEPT ![s] = <<>>]

\* The messages s has still to read.
Unread(s) == ToSet(inbox[s])
=============================================================================
