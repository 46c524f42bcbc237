------------------------ MODULE RedisPubSub_proofs ------------------------
(***************************************************************************)
(* What the commands of RedisPubSub do to the connections, for messages of *)
(* any set M, and the one invariant of publish/subscribe by itself: only a *)
(* connection that is subscribed to something has anything to read.        *)
(***************************************************************************)
EXTENDS RedisPubSub, SequenceTheorems, TLAPS

RedisTypes(M) == listening \in [Subs -> SUBSET Channels] /\ inbox \in [Subs -> Seq(M)]

OnlySubscribedRead == \A s \in Subs : inbox[s] # <<>> => listening[s] # {}

Connections(M) == RedisTypes(M) /\ OnlySubscribedRead

-----------------------------------------------------------------------------
\* The elements of a sequence, when one is appended and when one is taken.
LEMMA ToSetFacts ==
  ASSUME NEW M, NEW q \in Seq(M)
  PROVE  /\ ToSet(q) \subseteq M
         /\ q = <<>> <=> ToSet(q) = {}
         /\ \A m \in M : ToSet(Append(q, m)) = ToSet(q) \cup {m}
         /\ q # <<>> =>
              /\ Head(q) \in ToSet(q)
              /\ Tail(q) \in Seq(M)
              /\ ToSet(q) = ToSet(Tail(q)) \cup {Head(q)}
<1>1. ToSet(q) = {q[n] : n \in 1 .. Len(q)} /\ Len(q) \in Nat
  BY DEF ToSet
<1>2. ToSet(q) \subseteq M
  BY <1>1
<1>3. q = <<>> <=> ToSet(q) = {}
  BY <1>1
<1>4. ASSUME NEW m \in M
      PROVE  ToSet(Append(q, m)) = ToSet(q) \cup {m}
  <2>1. ToSet(Append(q, m)) = {Append(q, m)[n] : n \in 1 .. Len(q) + 1}
    BY AppendProperties, LenProperties DEF ToSet
  <2>2. /\ \A n \in 1 .. Len(q) : Append(q, m)[n] = q[n]
        /\ Append(q, m)[Len(q) + 1] = m
    BY AppendProperties
  <2>3. \A n \in 1 .. Len(q) + 1 : n \in 1 .. Len(q) \/ n = Len(q) + 1
    BY <1>1
  <2>4. Len(q) + 1 \in 1 .. Len(q) + 1 /\ \A n \in 1 .. Len(q) : n \in 1 .. Len(q) + 1
    BY <1>1
  <2> QED BY <1>1, <2>1, <2>2, <2>3, <2>4
<1>5. ASSUME q # <<>>
      PROVE  Head(q) \in ToSet(q) /\ Tail(q) \in Seq(M) /\ ToSet(q) = ToSet(Tail(q)) \cup {Head(q)}
  <2>1. /\ Tail(q) \in Seq(M) /\ Len(Tail(q)) = Len(q) - 1
        /\ \A n \in 1 .. Len(Tail(q)) : Tail(q)[n] = q[n + 1]
    BY <1>5, HeadTailProperties
  <2>2. Head(q) = q[1] /\ Len(q) >= 1
    BY <1>1, <1>5, EmptySeq
  <2>3. ToSet(Tail(q)) = {q[n + 1] : n \in 1 .. Len(q) - 1}
    BY <2>1, LenProperties DEF ToSet
  <2>4. \A n \in 1 .. Len(q) : n = 1 \/ (n - 1 \in 1 .. Len(q) - 1 /\ (n - 1) + 1 = n)
    BY <1>1
  <2>5. 1 \in 1 .. Len(q) /\ \A n \in 1 .. Len(q) - 1 : n + 1 \in 1 .. Len(q)
    BY <1>1, <2>2
  <2>6. ToSet(q) \subseteq ToSet(Tail(q)) \cup {Head(q)}
    BY <1>1, <2>2, <2>3, <2>4
  <2>7. ToSet(Tail(q)) \cup {Head(q)} \subseteq ToSet(q)
    BY <1>1, <2>2, <2>3, <2>5
  <2> QED BY <2>1, <2>6, <2>7
<1> QED BY <1>2, <1>3, <1>4, <1>5

-----------------------------------------------------------------------------
\* PUBLISH reaches every connection subscribed to the channel, and no other.
LEMMA DeliverFacts ==
  ASSUME NEW M, Connections(M), NEW c \in Channels, NEW m \in M, Deliver(c, m)
  PROVE  /\ Connections(M)' /\ listening' = listening
         /\ \A s \in Subs :
              Unread(s)' = IF s \in Listeners(c) THEN Unread(s) \cup {m} ELSE Unread(s)
         /\ \A s \in Subs : s \notin Listeners(c) => inbox'[s] = inbox[s]
<1>1. /\ listening' = listening
      /\ inbox' = [s \in Subs |-> IF s \in Listeners(c) THEN Append(inbox[s], m) ELSE inbox[s]]
  BY DEF Deliver
<1>2. \A s \in Subs : inbox[s] \in Seq(M) /\ Append(inbox[s], m) \in Seq(M)
  BY AppendProperties DEF Connections, RedisTypes
<1>3. \A s \in Subs : ToSet(Append(inbox[s], m)) = ToSet(inbox[s]) \cup {m}
  BY <1>2, ToSetFacts
<1>4. \A s \in Listeners(c) : listening[s] # {}
  BY DEF Listeners
<1>5. Connections(M)'
  BY <1>1, <1>2, <1>4 DEF Connections, RedisTypes, OnlySubscribedRead
<1> QED BY <1>1, <1>3, <1>5 DEF Unread

\* SUBSCRIBE on a new connection, and the end of one.
LEMMA ConnectionFacts ==
  ASSUME NEW M, Connections(M), NEW s \in Subs, NEW cs \in SUBSET Channels,
         Subscribe(s, cs) \/ (Disconnect(s) /\ cs = {})
  PROVE  /\ Connections(M)'
         /\ listening'[s] = cs /\ inbox'[s] = <<>> /\ Unread(s)' = {}
         /\ \A r \in Subs : r # s =>
              listening'[r] = listening[r] /\ inbox'[r] = inbox[r] /\ Unread(r)' = Unread(r)
<1>1. listening' = [listening EXCEPT ![s] = cs] /\ inbox' = [inbox EXCEPT ![s] = <<>>]
  BY DEF Subscribe, Disconnect
<1>2. <<>> \in Seq(M) /\ ToSet(<<>>) = {}
  BY EmptySeq, ToSetFacts
<1>3. RedisTypes(M)'
  BY <1>1, <1>2 DEF Connections, RedisTypes
<1>4. /\ listening'[s] = cs /\ inbox'[s] = <<>>
      /\ \A r \in Subs : r # s => listening'[r] = listening[r] /\ inbox'[r] = inbox[r]
  BY <1>1 DEF Connections, RedisTypes
<1>5. OnlySubscribedRead'
  BY <1>4 DEF Connections, OnlySubscribedRead
<1> QED BY <1>2, <1>3, <1>4, <1>5 DEF Connections, Unread

\* A connection reads its messages one by one.
LEMMA ReadFacts ==
  ASSUME NEW M, Connections(M), NEW s \in Subs, Read(s)
  PROVE  /\ Connections(M)' /\ listening' = listening
         /\ Head(inbox[s]) \in M
         /\ Unread(s) = Unread(s)' \cup {Head(inbox[s])}
         /\ \A r \in Subs : r # s => inbox'[r] = inbox[r] /\ Unread(r)' = Unread(r)
<1>1. /\ inbox[s] # <<>> /\ listening' = listening
      /\ inbox' = [inbox EXCEPT ![s] = Tail(inbox[s])]
  BY DEF Read
<1>2. inbox[s] \in Seq(M)
  BY DEF Connections, RedisTypes
<1>3. /\ Tail(inbox[s]) \in Seq(M) /\ Head(inbox[s]) \in M
      /\ ToSet(inbox[s]) = ToSet(Tail(inbox[s])) \cup {Head(inbox[s])}
  BY <1>1, <1>2, ToSetFacts, HeadTailProperties
<1>4. /\ inbox'[s] = Tail(inbox[s])
      /\ \A r \in Subs : r # s => inbox'[r] = inbox[r]
  BY <1>1 DEF Connections, RedisTypes
<1>5. Connections(M)'
  BY <1>1, <1>3, <1>4 DEF Connections, RedisTypes, OnlySubscribedRead
<1> QED BY <1>1, <1>3, <1>4, <1>5 DEF Unread

\* At the start nobody is connected.
LEMMA InitConnections == \A M : RedisInit => Connections(M)
BY EmptySeq DEF RedisInit, Connections, RedisTypes, OnlySubscribedRead
=============================================================================
