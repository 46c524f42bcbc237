------------------------ MODULE PerTypeCache_proofs ------------------------
(***************************************************************************)
(* What the operations of PerTypeCache return, preserve and bound.         *)
(***************************************************************************)
EXTENDS PerTypeCache, FiniteSetTheorems, TLAPS

\* The two halves of get() on an entry, as a hit carries them out one by one.
LEMMA HitFacts ==
  ASSUME NEW e \in Entry, NEW stamp \in Nat
  PROVE  [e EXCEPT !.count = @ + 1] \in Entry /\ [e EXCEPT !.last = stamp] \in Entry
BY DEF Entry

\* An access changes an entry's count and stamp and nothing else.
LEMMA AccessedFacts ==
  ASSUME NEW e \in Entry, NEW stamp \in Nat
  PROVE  /\ Accessed(e, stamp) \in Entry
         /\ Accessed(e, stamp).last = stamp
         /\ Accessed(e, stamp).inserted = e.inserted
         /\ Accessed(e, stamp).age = e.age
         /\ Accessed(e, stamp).ver = e.ver
<1>1. e.count + 1 \in Nat
  BY DEF Entry
<1> DEFINE counted == [e EXCEPT !.count = e.count + 1]
<1>2. /\ counted \in Entry
      /\ counted.inserted = e.inserted /\ counted.age = e.age /\ counted.ver = e.ver
  BY <1>1 DEF Entry
<1>3. Accessed(e, stamp) = [counted EXCEPT !.last = stamp]
  BY DEF Accessed
<1> QED BY <1>2, <1>3 DEF Entry

\* Time changes nothing but ages, and what has expired stays expired.
LEMMA AgedFacts ==
  ASSUME NEW data \in DataMap
  PROVE  /\ Aged(data) \in DataMap
         /\ \A j \in Ids :
              /\ Aged(data)[j] # None <=> data[j] # None
              /\ data[j] # None =>
                   /\ Aged(data)[j].last = data[j].last
                   /\ Aged(data)[j].inserted = data[j].inserted
                   /\ Aged(data)[j].ver = data[j].ver
                   /\ Expired(data[j]) => Aged(data)[j] = data[j]
<1>1. ASSUME NEW e \in Entry
      PROVE  LET f == [e EXCEPT !.age = @ + 1] IN
             /\ f \in Entry /\ f # None
             /\ f.last = e.last /\ f.inserted = e.inserted /\ f.ver = e.ver
  BY CacheAssumption DEF Entry
<1>2. ASSUME NEW j \in Ids, data[j] # None
      PROVE  data[j] \in Entry
  BY <1>2 DEF DataMap
<1> QED BY <1>1, <1>2 DEF Aged, DataMap

\* set(), first step: the outcome is a map, the entry of i is gone only if it
\* had expired, and no other entry changes.
LEMMA WithoutExpiredFacts ==
  ASSUME NEW data \in DataMap, NEW i \in Ids
  PROVE  /\ WithoutExpired(data, i) \in DataMap
         /\ \A j \in Ids : j # i => WithoutExpired(data, i)[j] = data[j]
         /\ \/ WithoutExpired(data, i) = data
            \/ WithoutExpired(data, i)[i] = None
BY DEF WithoutExpired, RemoveData, DataMap

\* set(), second step: making room removes entries and adds or changes none.
LEMMA RoomMadeFacts ==
  ASSUME NEW data \in DataMap, NEW strategy, NEW inline,
         NEW d \in RoomMade(data, strategy, inline)
  PROVE  /\ d \in DataMap
         /\ \A j \in Ids : d[j] = data[j] \/ d[j] = None
BY DEF RoomMade, RemoveData, EvictCandidates, DataMap

\* set(): the identity ends up stored, with its live copy unchanged or as a new
\* entry; every other entry is as it was or gone.
LEMMA SetFacts ==
  ASSUME NEW data \in DataMap, NEW i \in Ids, NEW ver \in Nat, NEW now \in Nat,
         NEW strategy, NEW inline,
         NEW d \in SetOutcomes(data, i, ver, now, strategy, inline)
  PROVE  /\ d \in DataMap
         /\ d[i] # None
         /\ \A j \in Ids : j # i => d[j] = data[j] \/ d[j] = None
         /\ ~SetInserts(data, i) => d = data
         /\ SetInserts(data, i) =>
              /\ d[i] = NewEntry(ver, now)
              /\ data[i] = None \/ Expired(data[i])
<1> DEFINE live == WithoutExpired(data, i)
<1>1. live \in DataMap /\ (\A j \in Ids : j # i => live[j] = data[j])
  BY WithoutExpiredFacts
<1>2. NewEntry(ver, now) \in Entry /\ NewEntry(ver, now) # None
  BY CacheAssumption DEF NewEntry, Entry
<1>3. CASE i \in Cached(live)
  <2>1. d = live /\ ~SetInserts(data, i)
    BY <1>3 DEF SetOutcomes, SetInserts
  <2>2. live = data
    BY <1>3, WithoutExpiredFacts DEF Cached
  <2> QED BY <1>3, <2>1, <2>2 DEF Cached
<1>4. CASE i \notin Cached(live)
  <2>1. SetInserts(data, i)
    BY <1>4 DEF SetInserts
  <2>2. PICK r \in RoomMade(live, strategy, inline) :
               d = [r EXCEPT ![i] = NewEntry(ver, now)]
    BY <1>4 DEF SetOutcomes
  <2>3. r \in DataMap /\ (\A j \in Ids : r[j] = live[j] \/ r[j] = None)
    BY <1>1, RoomMadeFacts
  <2>4. d \in DataMap /\ d[i] = NewEntry(ver, now)
    BY <1>2, <2>2, <2>3 DEF DataMap
  <2>5. \A j \in Ids : j # i => d[j] = data[j] \/ d[j] = None
    BY <1>1, <2>2, <2>3 DEF DataMap
  <2>6. data[i] = None \/ Expired(data[i])
    BY <1>4 DEF WithoutExpired, Cached
  <2> QED BY <1>2, <2>1, <2>4, <2>5, <2>6
<1> QED BY <1>3, <1>4

\* The keys of a map are finitely many, and fewer when entries are removed.
LEMMA CachedFinite ==
  ASSUME NEW data, NEW smaller, Cached(smaller) \subseteq Cached(data)
  PROVE  /\ IsFiniteSet(Cached(data)) /\ IsFiniteSet(Cached(smaller))
         /\ Cardinality(Cached(data)) \in Nat
         /\ Cardinality(Cached(smaller)) \in Nat
         /\ Cardinality(Cached(smaller)) <= Cardinality(Cached(data))
<1>1. Cached(data) \subseteq Ids BY DEF Cached
<1>2. IsFiniteSet(Cached(data)) BY <1>1, CacheAssumption, FS_Subset
<1> QED BY <1>2, FS_Subset, FS_CardinalityType

\* What set() with inline eviction lets a namespace grow to.
Limit == IF MaxSize = 0 THEN 1 ELSE MaxSize

\* set() with inline eviction lets a namespace grow to the limit and no further.
LEMMA SetWithinLimit ==
  ASSUME NEW data \in DataMap, NEW i \in Ids, NEW ver \in Nat, NEW now \in Nat,
         NEW strategy,
         NEW d \in SetOutcomes(data, i, ver, now, strategy, TRUE)
  PROVE  \/ Cardinality(Cached(d)) <= Cardinality(Cached(data))
         \/ Cardinality(Cached(d)) <= Limit
<1> DEFINE live == WithoutExpired(data, i)
<1>1. live \in DataMap /\ Cached(live) \subseteq Cached(data)
  BY WithoutExpiredFacts DEF Cached
<1>2. /\ Cardinality(Cached(live)) \in Nat /\ Cardinality(Cached(data)) \in Nat
      /\ Cardinality(Cached(live)) <= Cardinality(Cached(data))
  BY <1>1, CachedFinite
<1>3. CASE i \in Cached(live)
  BY <1>2, <1>3 DEF SetOutcomes
<1>4. CASE i \notin Cached(live)
  <2>1. PICK r \in RoomMade(live, strategy, TRUE) :
               d = [r EXCEPT ![i] = NewEntry(ver, now)]
    BY <1>4 DEF SetOutcomes
  <2>2. r \in DataMap /\ Cached(r) \subseteq Cached(live)
    <3>1. r \in DataMap /\ \A j \in Ids : r[j] = live[j] \/ r[j] = None
      BY <1>1, RoomMadeFacts
    <3> QED BY <3>1 DEF Cached
  <2>3. IsFiniteSet(Cached(r)) /\ Cardinality(Cached(r)) \in Nat
    BY <2>2, CachedFinite
  <2>4. Cached(d) = Cached(r) \cup {i}
    <3>1. NewEntry(ver, now) # None
      BY CacheAssumption DEF NewEntry, Entry
    <3> QED BY <2>1, <2>2, <3>1 DEF Cached, DataMap
  <2>5. Cardinality(Cached(d)) \in Nat /\ Cardinality(Cached(d)) <= Cardinality(Cached(r)) + 1
    <3>1. \/ Cardinality(Cached(r) \cup {i}) = Cardinality(Cached(r))
          \/ Cardinality(Cached(r) \cup {i}) = Cardinality(Cached(r)) + 1
      BY <2>3, FS_AddElement
    <3>2. Cardinality(Cached(d)) = Cardinality(Cached(r) \cup {i})
      BY <2>4
    <3> HIDE DEF live
    <3> QED BY <2>3, <3>1, <3>2
  <2>6. \/ Cardinality(Cached(r)) + 1 <= Cardinality(Cached(data))
        \/ Cardinality(Cached(r)) + 1 <= Limit
    <3>1. CASE Cached(live) = {}
      <4>1. Cardinality(Cached(r)) = 0
        BY <2>2, <3>1, FS_EmptySet
      <4> QED BY <4>1, CacheAssumption DEF Limit
    <3>2. CASE Cached(live) # {} /\ Cardinality(Cached(live)) >= MaxSize
      <4>1. PICK v \in EvictCandidates(live, strategy) : r = RemoveData(live, v)
        BY <3>2 DEF RoomMade
      <4>2. v \in Cached(live)
        BY <4>1 DEF EvictCandidates
      <4>3. Cached(r) = Cached(live) \ {v}
        BY <1>1, <4>1, <4>2 DEF RemoveData, Cached, DataMap
      <4>4. Cardinality(Cached(r)) = Cardinality(Cached(live)) - 1
        BY <4>2, <4>3, CachedFinite, FS_RemoveElement
      <4> QED BY <1>2, <2>3, <4>4
    <3>3. CASE Cached(live) # {} /\ ~(Cardinality(Cached(live)) >= MaxSize)
      <4>1. r = live
        BY <3>3 DEF RoomMade
      <4> QED BY <1>2, <3>3, <4>1, CacheAssumption DEF Limit
    <3> QED BY <3>1, <3>2, <3>3
  <2> QED BY <1>2, <2>3, <2>5, <2>6, CacheAssumption DEF Limit
<1> QED BY <1>3, <1>4

\* set() that leaves eviction to a worker loses no entry.
LEMMA SetKeeps ==
  ASSUME NEW data \in DataMap, NEW i \in Ids, NEW ver \in Nat, NEW now \in Nat,
         NEW strategy, NEW inline, ~inline,
         NEW d \in SetOutcomes(data, i, ver, now, strategy, inline)
  PROVE  \A j \in Ids : data[j] # None => d[j] # None
<1>1. d[i] # None
  BY SetFacts
<1>2. \A j \in Ids : j # i => d[j] = data[j]
  BY WithoutExpiredFacts DEF SetOutcomes, RoomMade, DataMap
<1> QED BY <1>1, <1>2

\* evict_candidate() by a stamp names at most one entry when no two entries
\* have the same stamp.
LEMMA UniqueVictim ==
  ASSUME NEW data \in DataMap,
         NEW strategy \in {"Lru", "Mru", "Fifo"},
         \A i, j \in Cached(data) : i # j =>
           /\ data[i].last # data[j].last
           /\ data[i].inserted # data[j].inserted,
         NEW v \in EvictCandidates(data, strategy),
         NEW w \in EvictCandidates(data, strategy)
  PROVE  v = w
<1>1. v \in Cached(data) /\ w \in Cached(data)
  BY DEF EvictCandidates
<1>2. data[v] \in Entry /\ data[w] \in Entry
  BY <1>1 DEF Cached, DataMap
<1>3. /\ EvictedBefore(data[v], data[w], strategy)
      /\ EvictedBefore(data[w], data[v], strategy)
  BY <1>1 DEF EvictCandidates
<1>4. Rank(data[v], strategy) \in Nat /\ Rank(data[w], strategy) \in Nat
  BY <1>2 DEF Rank, Entry
<1>5. Rank(data[v], strategy) = Rank(data[w], strategy)
  BY <1>3, <1>4 DEF EvictedBefore
<1>6. data[v].last = data[w].last \/ data[v].inserted = data[w].inserted
  BY <1>5 DEF Rank
<1> QED BY <1>1, <1>6

\* A sweep takes entries away and neither adds nor changes any.
LEMMA SweepFacts ==
  ASSUME NEW d \in DataMap, NEW how, NEW e \in EvictedToMaxSize(WithoutAllExpired(d), how)
  PROVE  e \in DataMap /\ \A i \in Ids : e[i] \in {d[i], None}
<1>1. \A f \in DataMap : \A gone :
         Without(f, gone) \in DataMap /\ \A i \in Ids : Without(f, gone)[i] \in {f[i], None}
  BY DEF Without, DataMap
<1> DEFINE live == WithoutAllExpired(d)
<1>2. live \in DataMap /\ \A i \in Ids : live[i] \in {d[i], None}
  BY <1>1 DEF WithoutAllExpired
<1>3. e = live \/ \E gone : e = Without(live, gone)
  BY DEF EvictedToMaxSize
<1> QED BY <1>1, <1>2, <1>3
=============================================================================
