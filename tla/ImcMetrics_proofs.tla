------------------------- MODULE ImcMetrics_proofs -------------------------
(***************************************************************************)
(* What the counters of metrics.rs add up to, for every number of threads, *)
(* entries and workers.  EntriesAccounted is inductive over what each step *)
(* records and what it does to the cache.  By how much the hits exceed the *)
(* get()s that return is not: it takes the value a caller in the lock is   *)
(* yet to read back, that nobody is in the lock once it is poisoned, and   *)
(* for its bound the misses of callers that have not stored yet.           *)
(***************************************************************************)
EXTENDS ImcMetrics, ImcWorker_proofs

Ledgers == [hits: Nat, misses: Nat, sets: Nat, evictions: Nat, expired: Nat]

\* A step adds h hits, m misses, s sets, v evictions and x expired entries.
Sum(r, h, m, s, v, x) ==
  [hits |-> r.hits + h, misses |-> r.misses + m, sets |-> r.sets + s,
   evictions |-> r.evictions + v, expired |-> r.expired + x]

Adds(h, m, s, v, x) == ledger' = Sum(ledger, h, m, s, v, x)

\* Callers whose miss is counted and whose value is not stored yet.
Missed == {t \in Threads : pc[t] \in {"compute", "store"}}

\* Values stored that no get() has returned: the one a caller in the lock will read
\* back, and the one that could not be read back.
Late == OneIf(writer # None) + OneIf(poisoned)

LedgerInv ==
  /\ ledger \in Ledgers /\ returned \in Nat
  /\ poisoned => writer = None
  /\ EntriesAccounted
  /\ ledger.hits + ledger.sets = 2 * returned + Late
  /\ ledger.sets + Cardinality(Missed) <= ledger.misses

-----------------------------------------------------------------------------
\* The counters are the fields of a record, each with its function record_*.
LEMMA RecordFacts ==
  ASSUME ledger \in Ledgers, NEW n \in Nat, NEW x \in Nat
  PROVE  /\ Record("hits", n) => Adds(n, 0, 0, 0, 0)
         /\ Record("misses", n) => Adds(0, n, 0, 0, 0)
         /\ Record("expired", n) => Adds(0, 0, 0, 0, n)
         /\ ledger' = [ledger EXCEPT !.sets = @ + 1, !.evictions = @ + n] => Adds(0, 0, 1, n, 0)
         /\ ledger' = [ledger EXCEPT !.expired = @ + x, !.evictions = @ + n]
              => Adds(0, 0, 0, n, x)
         /\ ledger' = ledger => Adds(0, 0, 0, 0, 0)
<1> DEFINE r == ledger
           q == ledger'
<1>1. /\ r \in Ledgers
      /\ r.hits + 0 = r.hits /\ r.misses + 0 = r.misses /\ r.sets + 0 = r.sets
      /\ r.evictions + 0 = r.evictions /\ r.expired + 0 = r.expired
  BY DEF Ledgers
<1> HIDE DEF r, q
<1>2. q = [r EXCEPT !["hits"] = @ + n] =>
        q = [hits |-> r.hits + n, misses |-> r.misses, sets |-> r.sets,
             evictions |-> r.evictions, expired |-> r.expired]
  BY <1>1 DEF Ledgers
<1>3. q = [r EXCEPT !["misses"] = @ + n] =>
        q = [hits |-> r.hits, misses |-> r.misses + n, sets |-> r.sets,
             evictions |-> r.evictions, expired |-> r.expired]
  BY <1>1 DEF Ledgers
<1>4. q = [r EXCEPT !["expired"] = @ + n] =>
        q = [hits |-> r.hits, misses |-> r.misses, sets |-> r.sets,
             evictions |-> r.evictions, expired |-> r.expired + n]
  BY <1>1 DEF Ledgers
<1>5. q = [r EXCEPT !.sets = @ + 1, !.evictions = @ + n] =>
        q = [hits |-> r.hits, misses |-> r.misses, sets |-> r.sets + 1,
             evictions |-> r.evictions + n, expired |-> r.expired]
  BY <1>1 DEF Ledgers
<1>6. q = [r EXCEPT !.expired = @ + x, !.evictions = @ + n] =>
        q = [hits |-> r.hits, misses |-> r.misses, sets |-> r.sets,
             evictions |-> r.evictions + n, expired |-> r.expired + x]
  BY <1>1 DEF Ledgers
<1>7. q = r =>
        q = [hits |-> r.hits, misses |-> r.misses, sets |-> r.sets,
             evictions |-> r.evictions, expired |-> r.expired]
  BY <1>1 DEF Ledgers
<1> QED BY <1>1, <1>2, <1>3, <1>4, <1>5, <1>6, <1>7 DEF q, r, Record, Adds, Sum

\* Callers waiting to compute or to store are finitely many.
LEMMA MissedFinite ==
  /\ IsFiniteSet(Missed) /\ Cardinality(Missed) \in Nat
  /\ \A fewer : fewer \subseteq Missed =>
       IsFiniteSet(fewer) /\ Cardinality(fewer) \in Nat /\ Cardinality(fewer) <= Cardinality(Missed)
<1>1. IsFiniteSet(Missed)
  BY ThreadsAssumption, FS_Subset DEF Missed
<1> QED BY <1>1, FS_Subset, FS_CardinalityType

\* What a step must keep in balance.
LEMMA Booked ==
  ASSUME LedgerInv,
         NEW h \in Nat, NEW m \in Nat, NEW s \in Nat, NEW v \in Nat, NEW x \in Nat, NEW k \in Nat,
         Adds(h, m, s, v, x), returned' = returned + k,
         poisoned' => writer' = None,
         Cardinality(Cached(data')) + v + x <= Cardinality(Cached(data)) + s,
         h + s + Late = 2 * k + Late',
         Cardinality(Missed') \in Nat, Cardinality(Missed') + s <= Cardinality(Missed) + m
  PROVE  LedgerInv'
<1>1. /\ ledger.hits \in Nat /\ ledger.misses \in Nat /\ ledger.sets \in Nat
      /\ ledger.evictions \in Nat /\ ledger.expired \in Nat /\ returned \in Nat
  BY DEF LedgerInv, Ledgers
<1>2. /\ ledger'.hits = ledger.hits + h /\ ledger'.misses = ledger.misses + m
      /\ ledger'.sets = ledger.sets + s
      /\ ledger'.evictions = ledger.evictions + v /\ ledger'.expired = ledger.expired + x
  BY DEF Adds, Sum
<1>3. ledger' \in Ledgers
  BY <1>1 DEF Adds, Sum, Ledgers
<1>4. Cardinality(Cached(data)) \in Nat /\ Cardinality(Cached(data')) \in Nat
  BY CachedFinite
<1>5. EntriesAccounted'
  <2>1. Cardinality(Cached(data)) + ledger.evictions + ledger.expired <= ledger.sets
    BY DEF LedgerInv, EntriesAccounted
  <2>2. Cardinality(Cached(data')) + ledger'.evictions + ledger'.expired <= ledger'.sets
    BY <1>1, <1>2, <1>4, <2>1
  <2> QED BY <2>2 DEF EntriesAccounted
<1>6. ledger'.hits + ledger'.sets = 2 * returned' + Late'
  <2>1. Late \in Nat /\ Late' \in Nat
    BY DEF Late, OneIf
  <2>2. ledger.hits + ledger.sets = 2 * returned + Late
    BY DEF LedgerInv
  <2> DEFINE late == Late
             later == Late'
             hits == ledger.hits
             sets == ledger.sets
  <2>3. /\ hits \in Nat /\ sets \in Nat /\ late \in Nat /\ later \in Nat
        /\ hits + sets = 2 * returned + late /\ h + s + late = 2 * k + later
    BY <1>1, <2>1, <2>2
  <2> HIDE DEF late, later, hits, sets
  <2>4. (hits + h) + (sets + s) = 2 * (returned + k) + later
    BY <1>1, <2>3
  <2> QED BY <1>2, <2>4 DEF late, later, hits, sets
<1>7. ledger'.sets + Cardinality(Missed') <= ledger'.misses
  <2>1. ledger.sets + Cardinality(Missed) <= ledger.misses
    BY DEF LedgerInv
  <2>2. Cardinality(Missed) \in Nat
    BY MissedFinite
  <2> QED BY <1>1, <1>2, <2>1, <2>2
<1>8. returned' \in Nat
  BY <1>1
<1> QED BY <1>3, <1>5, <1>6, <1>7, <1>8 DEF LedgerInv

-----------------------------------------------------------------------------
\* A caller that goes on to another step joins or leaves those with a miss.
LEMMA MissedMoves ==
  ASSUME LockInv, NEW t \in Threads, NEW step, pc' = [pc EXCEPT ![t] = step]
  PROVE  /\ step \in {"compute", "store"} => Missed' = Missed \cup {t}
         /\ step \notin {"compute", "store"} => Missed' = Missed \ {t}
         /\ (t \in Missed \/ step \notin {"compute", "store"}) =>
              /\ Cardinality(Missed') \in Nat
              /\ Cardinality(Missed') <= Cardinality(Missed)
<1>1. pc \in [Threads -> Steps]
  BY DEF LockInv, TypeOK
<1>2. step \in {"compute", "store"} => Missed' = Missed \cup {t}
  BY <1>1 DEF Missed
<1>3. step \notin {"compute", "store"} => Missed' = Missed \ {t}
  BY <1>1 DEF Missed
<1>4. (t \in Missed \/ step \notin {"compute", "store"}) => Missed' \subseteq Missed
  BY <1>2, <1>3
<1> QED BY <1>2, <1>3, <1>4, MissedFinite

\* A step that records nothing of sets, hits and misses, and happens outside the
\* lock or under the read lock.
LEMMA QuietBooked ==
  ASSUME LedgerInv, NEW v \in Nat, NEW x \in Nat, Adds(0, 0, 0, v, x), returned' = returned,
         UNCHANGED <<writer, poisoned>>,
         Cardinality(Cached(data')) + v + x <= Cardinality(Cached(data)),
         Cardinality(Missed') \in Nat, Cardinality(Missed') <= Cardinality(Missed)
  PROVE  LedgerInv'
<1>1. Late' = Late /\ Late \in Nat
  BY DEF Late, OneIf
<1>2. Cardinality(Cached(data)) \in Nat /\ Cardinality(Missed) \in Nat
  BY CachedFinite, MissedFinite
<1>3. returned \in Nat
  BY DEF LedgerInv
<1>4. /\ 0 + 0 + Late = 2 * 0 + Late'
      /\ Cardinality(Cached(data')) + v + x <= Cardinality(Cached(data)) + 0
      /\ Cardinality(Missed') + 0 <= Cardinality(Missed) + 0
      /\ returned' = returned + 0
  BY <1>1, <1>2, <1>3
<1>5. poisoned' => writer' = None
  BY DEF LedgerInv
<1> QED BY <1>4, <1>5, Booked

\* A hit: two hits for one value returned.
LEMMA HitBooked ==
  ASSUME LockInv, LedgerInv, NEW t \in Threads, CountedHit(t)
  PROVE  LedgerInv'
<1>1. /\ pc' = [pc EXCEPT ![t] = "idle"] /\ UNCHANGED <<writer, poisoned>>
      /\ Record("hits", 2) /\ returned' = returned + 1 /\ StampHit(t)
  BY DEF CountedHit, StampHit, Return, Goto
<1>2. Adds(2, 0, 0, 0, 0)
  BY <1>1, RecordFacts DEF LedgerInv
<1>3. Cached(data') = Cached(data) /\ Cardinality(Cached(data)) \in Nat
  BY <1>1, EntriesKept, CachedFinite DEF Cached
<1>4. Cardinality(Missed') \in Nat /\ Cardinality(Missed') <= Cardinality(Missed)
  BY <1>1, MissedMoves
<1>5. Cardinality(Missed) \in Nat
  BY MissedFinite
<1>6. Late' = Late /\ Late \in Nat
  BY <1>1 DEF Late, OneIf
<1>7. /\ 2 + 0 + Late = 2 * 1 + Late'
      /\ Cardinality(Cached(data')) + 0 + 0 <= Cardinality(Cached(data)) + 0
      /\ Cardinality(Missed') + 0 <= Cardinality(Missed) + 0
  BY <1>3, <1>4, <1>5, <1>6
<1>8. poisoned' => writer' = None
  BY <1>1 DEF LedgerInv
<1> QED BY <1>1, <1>2, <1>4, <1>7, <1>8, Booked

\* A miss, or two of an expired entry, and one more caller to store.
LEMMA MissBooked ==
  ASSUME LockInv, LedgerInv, NEW t \in Threads, CountedMiss(t)
  PROVE  LedgerInv'
<1> DEFINE i == index[call[t].args]
           m == 1 + OneIf(i # None /\ data[i] # None)
<1>1. /\ pc' = [pc EXCEPT ![t] = "compute"] /\ UNCHANGED <<data, writer, poisoned>>
      /\ Record("misses", m) /\ returned' = returned
  BY DEF CountedMiss, LookupMiss, Goto, cacheVars, lockVars
<1>2. m \in Nat /\ m >= 1
  BY DEF OneIf
<1> HIDE DEF m
<1>3. Adds(0, m, 0, 0, 0)
  BY <1>1, <1>2, RecordFacts DEF LedgerInv
<1>4. Cardinality(Cached(data)) \in Nat
  BY CachedFinite
<1>5. Missed' = Missed \cup {t}
  BY <1>1, MissedMoves
<1>6. IsFiniteSet(Missed) /\ Cardinality(Missed) \in Nat
  BY MissedFinite
<1>7. /\ Cardinality(Missed') \in Nat
      /\ Cardinality(Missed') <= Cardinality(Missed) + 1
  <2>1. \/ Cardinality(Missed \cup {t}) = Cardinality(Missed)
        \/ Cardinality(Missed \cup {t}) = Cardinality(Missed) + 1
    BY <1>6, FS_AddElement
  <2> QED BY <1>5, <1>6, <2>1
<1>8. Late' = Late /\ Late \in Nat
  BY <1>1 DEF Late, OneIf
<1>9. returned \in Nat
  BY DEF LedgerInv
<1>10. /\ 0 + 0 + Late = 2 * 0 + Late' /\ returned' = returned + 0
       /\ Cardinality(Cached(data')) + 0 + 0 <= Cardinality(Cached(data)) + 0
       /\ Cardinality(Missed') + 0 <= Cardinality(Missed) + m
  BY <1>1, <1>2, <1>4, <1>6, <1>7, <1>8, <1>9
<1>11. poisoned' => writer' = None
  BY <1>1 DEF LedgerInv
<1> QED BY <1>2, <1>3, <1>7, <1>10, <1>11, Booked

\* Entries that are gone and entries that are there are different ones.
LEMMA LostFacts ==
  ASSUME NEW d, NEW e
  PROVE  /\ Lost(d, e) \in Nat
         /\ Cardinality(Cached(e)) + Lost(d, e) = Cardinality(Cached(e) \cup Cached(d))
         /\ Cached(e) \subseteq Cached(d) =>
              Cardinality(Cached(e)) + Lost(d, e) = Cardinality(Cached(d))
<1>1. /\ IsFiniteSet(Cached(e)) /\ IsFiniteSet(Cached(d)) /\ Cardinality(Cached(e)) \in Nat
  BY CachedFinite
<1>2. /\ IsFiniteSet(Cached(d) \ Cached(e)) /\ Cardinality(Cached(d) \ Cached(e)) \in Nat
  BY <1>1, FS_Subset, FS_CardinalityType
<1>3. /\ Cached(e) \cap (Cached(d) \ Cached(e)) = {}
      /\ Cached(e) \cup (Cached(d) \ Cached(e)) = Cached(e) \cup Cached(d)
  OBVIOUS
<1>4. Cardinality(Cached(e) \cup (Cached(d) \ Cached(e)))
        = Cardinality(Cached(e)) + Cardinality(Cached(d) \ Cached(e))
            - Cardinality(Cached(e) \cap (Cached(d) \ Cached(e)))
  BY <1>1, <1>2, FS_Union
<1>5. Cardinality(Cached(e) \cap (Cached(d) \ Cached(e))) = 0
  BY <1>3, FS_EmptySet
<1>6. Cardinality(Cached(e) \cup Cached(d))
        = Cardinality(Cached(e)) + Cardinality(Cached(d) \ Cached(e))
  <2>1. Cardinality(Cached(e) \cup (Cached(d) \ Cached(e)))
          = Cardinality(Cached(e)) + Cardinality(Cached(d) \ Cached(e))
    BY <1>1, <1>2, <1>4, <1>5
  <2> QED BY <1>3, <2>1
<1>7. Cached(e) \subseteq Cached(d) => Cached(e) \cup Cached(d) = Cached(d)
  OBVIOUS
<1> QED BY <1>2, <1>6, <1>7 DEF Lost

\* A store: one set, for one entry more or a value dropped, less what it evicts.
LEMMA SetBooked ==
  ASSUME LockInv, LedgerInv, NEW t \in Threads, CountedSet(t)
  PROVE  LedgerInv'
<1> DEFINE i == call[t].id
           live == WithoutExpired(data, i)
           v == Lost(live, data')
<1>1. /\ pc[t] = "store" /\ pc' = [pc EXCEPT ![t] = "readback"] /\ writer = None /\ writer' = t
      /\ ~poisoned /\ poisoned' = poisoned /\ returned' = returned
      /\ ledger' = [ledger EXCEPT !.sets = @ + 1, !.evictions = @ + v]
      /\ data' \in SetOutcomes(data, i, call[t].ver, clock, strategy, ~workerTx)
  BY DEF CountedSet, StoreValue, Goto, CanWrite
<1>2. data \in DataMap /\ i \in Ids /\ call[t].ver \in Nat /\ clock \in Nat /\ t # None
  BY <1>1, ApiAssumption DEF LockInv, TypeOK, LocalsOK, Locals
<1>3. Cached(data') \subseteq Cached(live) \cup {i} /\ Cached(live) \subseteq Cached(data)
  <2>1. \A j \in Ids : j # i => data'[j] = data[j] \/ data'[j] = None
    BY <1>1, <1>2, SetFacts
  <2>2. \A j \in Ids : j # i => live[j] = data[j]
    BY <1>2, WithoutExpiredFacts
  <2>3. live = data \/ live[i] = None
    BY <1>2, WithoutExpiredFacts
  <2> HIDE DEF live, i
  <2> QED BY <2>1, <2>2, <2>3 DEF Cached
<1> HIDE DEF live, i
<1>4. v \in Nat /\ Cardinality(Cached(data')) + v = Cardinality(Cached(data') \cup Cached(live))
  BY LostFacts
<1>5. Cardinality(Cached(data')) + v <= Cardinality(Cached(data)) + 1
  <2>1. /\ IsFiniteSet(Cached(live)) /\ Cardinality(Cached(live)) \in Nat
        /\ Cardinality(Cached(data)) \in Nat
        /\ Cardinality(Cached(live)) <= Cardinality(Cached(data))
    BY <1>3, CachedFinite
  <2>2. /\ \/ Cardinality(Cached(live) \cup {i}) = Cardinality(Cached(live))
           \/ Cardinality(Cached(live) \cup {i}) = Cardinality(Cached(live)) + 1
        /\ IsFiniteSet(Cached(live) \cup {i})
    BY <2>1, FS_AddElement
  <2>3. Cached(data') \cup Cached(live) \subseteq Cached(live) \cup {i}
    BY <1>3
  <2>4. /\ Cardinality(Cached(data') \cup Cached(live)) <= Cardinality(Cached(live) \cup {i})
        /\ Cardinality(Cached(data') \cup Cached(live)) \in Nat
    BY <2>2, <2>3, FS_Subset, FS_CardinalityType
  <2> HIDE DEF v
  <2> QED BY <1>4, <2>1, <2>2, <2>4
<1>6. Adds(0, 0, 1, v, 0)
  BY <1>1, <1>4, RecordFacts DEF LedgerInv
<1>7. Missed' = Missed \ {t} /\ t \in Missed
  <2>1. Missed' = Missed \ {t}
    <3>1. pc' = [pc EXCEPT ![t] = "readback"]
      BY <1>1
    <3>2. "readback" \notin {"compute", "store"}
      OBVIOUS
    <3> QED BY <3>1, <3>2, MissedMoves
  <2>2. t \in Missed
    BY <1>1 DEF Missed
  <2> QED BY <2>1, <2>2
<1>8. IsFiniteSet(Missed) /\ Cardinality(Missed) \in Nat
  BY MissedFinite
<1>9. Cardinality(Missed') \in Nat /\ Cardinality(Missed') + 1 <= Cardinality(Missed) + 0
  <2>1. Cardinality(Missed \ {t}) = Cardinality(Missed) - 1 /\ Cardinality(Missed \ {t}) \in Nat
    <3>1. IsFiniteSet(Missed \ {t})
      BY <1>8, FS_RemoveElement
    <3>2. Cardinality(Missed \ {t}) \in Nat
      BY <3>1, FS_CardinalityType
    <3> QED BY <1>7, <1>8, <3>2, FS_RemoveElement
  <2>2. Missed' = Missed \ {t}
    BY <1>7
  <2> QED BY <1>8, <2>1, <2>2
<1>10. Late = 0 /\ Late' = 1
  BY <1>1, <1>2 DEF Late, OneIf
<1>11. returned \in Nat
  BY DEF LedgerInv
<1> HIDE DEF v
<1>12. Cardinality(Cached(data')) + v + 0 <= Cardinality(Cached(data)) + 1
  <2>1. Cardinality(Cached(data')) \in Nat
    BY CachedFinite
  <2> QED BY <1>4, <1>5, <2>1
<1>13. 0 + 1 + Late = 2 * 0 + Late' /\ returned' = returned + 0
  BY <1>1, <1>10, <1>11
<1>14. poisoned' => writer' = None
  BY <1>1
<1> QED BY <1>4, <1>6, <1>9, <1>12, <1>13, <1>14, Booked

\* The read back: the hit that the store was one short of, or a miss and a
\* poisoned lock.
LEMMA ReadBackBooked ==
  ASSUME LockInv, LedgerInv, NEW t \in Threads, CountedReadBack(t) \/ CountedReadBackPanic(t)
  PROVE  LedgerInv'
<1>1. /\ pc[t] = "readback" /\ writer' = None
      /\ \/ ReadBack(t) /\ pc' = [pc EXCEPT ![t] = "idle"] /\ Record("hits", 1)
            /\ poisoned' = poisoned /\ returned' = returned + 1
         \/ ReadBackPanics(t) /\ pc' = [pc EXCEPT ![t] = "panicked"] /\ Record("misses", 1)
            /\ poisoned' = TRUE /\ data' = data /\ returned' = returned
  BY DEF CountedReadBack, CountedReadBackPanic, ReadBack, ReadBackPanics, Return, Panic, Goto, cacheVars
<1>2. writer = t /\ t # None /\ ~poisoned
  BY <1>1, ApiAssumption DEF LockInv, TypeOK, LedgerInv
<1>3. Cardinality(Cached(data)) \in Nat /\ Cached(data') = Cached(data)
  <2>1. CASE ReadBack(t)
    BY <2>1, EntriesKept, CachedFinite DEF Cached
  <2>2. CASE data' = data
    BY <2>2, CachedFinite
  <2> QED BY <1>1, <2>1, <2>2
<1>4. Cardinality(Missed') \in Nat /\ Cardinality(Missed') <= Cardinality(Missed)
  BY <1>1, MissedMoves
<1>5. Cardinality(Missed) \in Nat /\ returned \in Nat
  BY MissedFinite DEF LedgerInv
<1>6. Late = 1
  BY <1>2 DEF Late, OneIf
<1>7. /\ Cardinality(Cached(data')) + 0 + 0 <= Cardinality(Cached(data)) + 0
      /\ Cardinality(Missed') + 0 <= Cardinality(Missed) + 0
      /\ Cardinality(Missed') + 0 <= Cardinality(Missed) + 1
  BY <1>1, <1>3, <1>4, <1>5
<1>8. CASE /\ ReadBack(t) /\ Record("hits", 1) /\ poisoned' = poisoned
            /\ returned' = returned + 1
  <2>1. Adds(1, 0, 0, 0, 0)
    BY <1>8, RecordFacts DEF LedgerInv
  <2>2. Late' = 0
    BY <1>1, <1>2, <1>8 DEF Late, OneIf
  <2>3. 1 + 0 + Late = 2 * 1 + Late'
    BY <1>6, <2>2
  <2> QED BY <1>1, <1>4, <1>7, <1>8, <2>1, <2>3, Booked
<1>9. CASE Record("misses", 1) /\ poisoned' = TRUE /\ returned' = returned
  <2>1. Adds(0, 1, 0, 0, 0)
    BY <1>9, RecordFacts DEF LedgerInv
  <2>2. Late' = 1
    BY <1>1, <1>9 DEF Late, OneIf
  <2>3. 0 + 0 + Late = 2 * 0 + Late' /\ returned' = returned + 0
    BY <1>5, <1>6, <1>9, <2>2
  <2> QED BY <1>1, <1>4, <1>7, <2>1, <2>3, Booked
<1> QED BY <1>1, <1>8, <1>9

-----------------------------------------------------------------------------
\* A step that counts nothing and at most takes entries away.
LEMMA UncountedBooked ==
  ASSUME LedgerInv, UNCHANGED <<ledger, returned, writer, poisoned>>,
         Cached(data') \subseteq Cached(data),
         Cardinality(Missed') \in Nat, Cardinality(Missed') <= Cardinality(Missed)
  PROVE  LedgerInv'
<1>1. Adds(0, 0, 0, 0, 0)
  <2>1. ledger' = ledger
    OBVIOUS
  <2> QED BY <2>1, RecordFacts DEF LedgerInv
<1>2. Cardinality(Cached(data')) + 0 + 0 <= Cardinality(Cached(data))
  <2>1. /\ Cardinality(Cached(data)) \in Nat /\ Cardinality(Cached(data')) \in Nat
        /\ Cardinality(Cached(data')) <= Cardinality(Cached(data))
    BY CachedFinite
  <2> QED BY <2>1
<1> QED BY <1>1, <1>2, QuietBooked

\* Nobody joins or leaves those with a miss when no caller moves.
LEMMA MissedKept ==
  ASSUME pc' = pc
  PROVE  Cardinality(Missed') \in Nat /\ Cardinality(Missed') <= Cardinality(Missed)
<1>1. Missed' = Missed
  BY DEF Missed
<1>2. Cardinality(Missed) \in Nat
  BY MissedFinite
<1> QED BY <1>1, <1>2

\* The steps of callers that count nothing: no store, no hit, no miss.
LEMMA CallerUncounted ==
  ASSUME LockInv, LedgerInv, NEW t \in Threads, Uncounted(t), UNCHANGED <<ledger, returned>>
  PROVE  LedgerInv'
<1>1. ASSUME NEW step, pc' = [pc EXCEPT ![t] = step],
             t \in Missed \/ step \notin {"compute", "store"},
             UNCHANGED <<writer, poisoned>>, Cached(data') \subseteq Cached(data)
      PROVE  LedgerInv'
  <2>1. Cardinality(Missed') \in Nat /\ Cardinality(Missed') <= Cardinality(Missed)
    BY <1>1, MissedMoves
  <2> QED BY <1>1, <2>1, UncountedBooked
<1>2. CASE LookupHit(t)
  <2>1. /\ pc' = [pc EXCEPT ![t] = "tick"] /\ "tick" \notin {"compute", "store"}
        /\ UNCHANGED <<writer, poisoned>>
    BY <1>2 DEF LookupHit, Goto
  <2>2. Cached(data') \subseteq Cached(data)
    BY <1>2, EntriesKept DEF Cached
  <2> QED BY <1>1, <2>1, <2>2
<1>3. CASE Compute(t)
  <2>1. /\ pc[t] = "compute" /\ pc' = [pc EXCEPT ![t] = "store"]
        /\ UNCHANGED <<data, writer, poisoned>>
    BY <1>3 DEF Compute, Goto, cacheVars, lockVars
  <2>2. t \in Missed
    BY <2>1 DEF Missed
  <2> QED BY <1>1, <2>1, <2>2
<1>4. CASE \/ (\E a \in Args : ThroughImc(t, a)) \/ TickHit(t)
           \/ ComputeOversized(t) \/ Abandon(t) \/ LockPanics(t) \/ WritePanics(t)
  <2>1. /\ UNCHANGED <<data, writer, poisoned>>
        /\ \E step \in {"lookup", "stamp", "idle", "panicked"} : pc' = [pc EXCEPT ![t] = step]
    BY <1>4 DEF ThroughImc, TickHit, ComputeOversized, Abandon, LockPanics, WritePanics,
       Goto, Return, Panic, cacheVars, lockVars
  <2>2. PICK step \in {"lookup", "stamp", "idle", "panicked"} : pc' = [pc EXCEPT ![t] = step]
    BY <2>1
  <2>3. step \notin {"compute", "store"}
    OBVIOUS
  <2>4. Cached(data') \subseteq Cached(data)
    BY <2>1
  <2> QED BY <1>1, <2>1, <2>2, <2>3, <2>4
<1>5. CASE \E i \in Ids : ImcRemove(t, i)
  <2>1. UNCHANGED <<pc, writer, poisoned>> /\ Cached(data') \subseteq Cached(data)
    BY <1>5 DEF ImcRemove, RemoveData, Cached, lockVars, LockInv, TypeOK, DataMap
  <2> QED BY <2>1, MissedKept, UncountedBooked
<1> QED BY <1>2, <1>3, <1>4, <1>5 DEF Uncounted

\* A clearing counts what it loses, or nothing.
LEMMA ClearBooked ==
  ASSUME LedgerInv, UNCHANGED <<pc, writer, poisoned, returned>>,
         NEW d, Cached(d) \subseteq Cached(data), data' = d,
         NEW n \in {0, Lost(data, d)}, Record("expired", n)
  PROVE  LedgerInv'
<1>1. /\ Lost(data, d) \in Nat
      /\ Cardinality(Cached(d)) + Lost(data, d) = Cardinality(Cached(data))
  BY LostFacts
<1>2. Cardinality(Cached(d)) \in Nat /\ Cardinality(Cached(data)) \in Nat
  BY CachedFinite
<1> DEFINE lost == Lost(data, d)
<1>3. lost \in Nat /\ Cardinality(Cached(d)) + lost = Cardinality(Cached(data)) /\ n \in {0, lost}
  BY <1>1
<1> HIDE DEF lost
<1>4. n \in Nat /\ Cardinality(Cached(d)) + 0 + n <= Cardinality(Cached(data))
  BY <1>2, <1>3
<1>5. Adds(0, 0, 0, 0, n)
  BY <1>4, RecordFacts DEF LedgerInv
<1> QED BY <1>4, <1>5, MissedKept, QuietBooked

\* A sweep counts all that expired, and one eviction if there was any.
LEMMA SweepBooked ==
  ASSUME LockInv, LedgerInv, NEW w \in Workers, CountedSweep(w)
  PROVE  LedgerInv'
<1> DEFINE live == WithoutAllExpired(data)
           x == ExpiredIn(data)
           gone == Lost(live, data')
           v == OneIf(gone > 0)
<1>1. /\ UNCHANGED <<pc, writer, poisoned, returned>>
      /\ data' \in EvictedToMaxSize(live, strategy)
      /\ ledger' = [ledger EXCEPT !.expired = @ + x, !.evictions = @ + v]
  BY DEF CountedSweep, Sweep, apiRest, lockVars
<1>2. Cached(live) \subseteq Cached(data)
  BY DEF WithoutAllExpired, Without, Cached
<1>3. Cached(data') \subseteq Cached(live)
  <2>1. data' = live \/ \E all : data' = Without(live, all)
    BY <1>1 DEF EvictedToMaxSize
  <2> HIDE DEF live
  <2> QED BY <2>1 DEF Without, Cached
<1>4. /\ x \in Nat /\ Cardinality(Cached(live)) + x = Cardinality(Cached(data))
      /\ gone \in Nat /\ Cardinality(Cached(data')) + gone = Cardinality(Cached(live))
  <2> HIDE DEF live
  <2>1. gone \in Nat /\ Cardinality(Cached(data')) + gone = Cardinality(Cached(live))
    BY <1>3, LostFacts
  <2>2. Lost(data, live) \in Nat /\ Cardinality(Cached(live)) + Lost(data, live) = Cardinality(Cached(data))
    BY <1>2, LostFacts
  <2> QED BY <2>1, <2>2 DEF ExpiredIn, live
<1>5. /\ Cardinality(Cached(live)) \in Nat /\ Cardinality(Cached(data)) \in Nat
      /\ Cardinality(Cached(data')) \in Nat
  BY CachedFinite
<1> HIDE DEF live, x, gone
<1>6. v \in Nat /\ v <= gone
  BY <1>4 DEF OneIf
<1> HIDE DEF v
<1>7. Cardinality(Cached(data')) + v + x <= Cardinality(Cached(data))
  BY <1>4, <1>5, <1>6
<1>8. Adds(0, 0, 0, v, x)
  BY <1>1, <1>4, <1>6, RecordFacts DEF LedgerInv
<1> QED BY <1>1, <1>4, <1>6, <1>7, <1>8, MissedKept, QuietBooked

-----------------------------------------------------------------------------
\* What the counters record does not change what callers, workers and owners do.
LEMMA StepIsWorkerStep == [XNext]_metricsVars => [WNext]_WVars
<1>1. ASSUME NEW t \in Threads,
             \/ CountedHit(t) \/ CountedMiss(t) \/ CountedSet(t)
             \/ CountedReadBack(t) \/ CountedReadBackPanic(t) \/ CountedClear(t)
      PROVE  Next
  BY <1>1 DEF CountedHit, CountedMiss, CountedSet, CountedReadBack, CountedReadBackPanic,
     CountedClear, Next, Proceed
<1>2. ASSUME NEW t \in Threads, Uncounted(t)
      PROVE  Next
  BY <1>2 DEF Uncounted, Next, Proceed
<1>3. (\E i \in Ids : DbUpdate(i)) \/ TimePasses \/ Finished => Next
  BY DEF Next
<1>4. ASSUME NEW w \in Workers,
             \/ CountedExecute(w) \/ CountedSweep(w)
             \/ Spawn(w) \/ SpawnFails(w) \/ DropSends(w) \/ DropProceeds(w)
             \/ \E c \in Commands : Send(w, c)
             \/ Receive(w) \/ ReceiveShutdown(w) \/ ReceiveTimeout(w)
             \/ Count(w) \/ SetGauge(w) \/ WorkerPanics(w)
      PROVE  WNext
  BY <1>4 DEF CountedExecute, CountedSweep, WorkerLoop, WNext
<1>5. metricsVars' = metricsVars => WVars' = WVars
  BY DEF metricsVars
<1> QED BY <1>1, <1>2, <1>3, <1>4, <1>5 DEF XNext, WNext

\* metrics.rs: what is counted beside the cache neither blocks nor changes a step of it,
\* so that what ImcWorker_proofs shows of workers and callers holds with counters, too.
THEOREM CountersChangeNothing == XSpec => WSpec
<1>1. XInit => WInit
  BY DEF XInit
<1>2. [XNext]_metricsVars => [WNext]_WVars
  BY StepIsWorkerStep
<1> QED BY <1>1, <1>2, PTL DEF XSpec, WSpec

\* Worker steps that count nothing leave the cache to its callers.
LEMMA WorkerUncounted ==
  ASSUME LockInv, LedgerInv, UNCHANGED <<ledger, returned>>,
         \/ \E t \in Threads : ImcLen(t)
         \/ \E w \in Workers :
              \/ Spawn(w) \/ SpawnFails(w) \/ DropSends(w) \/ DropProceeds(w)
              \/ \E c \in Commands : Send(w, c)
              \/ Receive(w) \/ ReceiveShutdown(w) \/ ReceiveTimeout(w)
              \/ Count(w) \/ SetGauge(w) \/ WorkerPanics(w)
         \/ \E i \in Ids : DbUpdate(i)
         \/ TimePasses
         \/ Finished
         \/ UNCHANGED metricsVars
  PROVE  LedgerInv'
<1>1. UNCHANGED <<pc, writer, poisoned>> /\ Cached(data') = Cached(data) => LedgerInv'
  BY MissedKept, UncountedBooked
<1>2. ASSUME (\E t \in Threads : ImcLen(t))
               \/ (\E w \in Workers, c \in Commands : Send(w, c))
      PROVE  UNCHANGED <<data, pc, writer, poisoned>>
  BY <1>2 DEF ImcLen, Send, cacheVars, lockVars
<1>3. ASSUME NEW w \in Workers, Spawn(w) \/ SpawnFails(w) \/ DropUnregisters(w)
      PROVE  UNCHANGED <<data, pc, writer, poisoned>>
  BY <1>3 DEF Spawn, SpawnFails, DropUnregisters, apiRest, lockVars
<1>4. ASSUME NEW w \in Workers,
             \/ DropSends(w) \/ DropResetsGauge(w)
             \/ Receive(w) \/ ReceiveShutdown(w) \/ ReceiveTimeout(w)
             \/ Count(w) \/ SetGauge(w) \/ WorkerPanics(w)
      PROVE  UNCHANGED <<data, pc, writer, poisoned>>
  <2>1. UNCHANGED vars
    BY <1>4 DEF DropSends, DropResetsGauge, Receive, ReceiveShutdown, ReceiveTimeout,
       Count, SetGauge, WorkerPanics
  <2> QED BY <2>1 DEF vars, cacheVars, lockVars
<1>5. (\E i \in Ids : DbUpdate(i)) \/ Finished \/ UNCHANGED metricsVars
        => UNCHANGED <<data, pc, writer, poisoned>>
  BY DEF DbUpdate, Finished, metricsVars, WVars, vars, cacheVars, lockVars
<1>6. ASSUME TimePasses
      PROVE  UNCHANGED <<pc, writer, poisoned>> /\ Cached(data') = Cached(data)
  <2>1. UNCHANGED <<pc, writer, poisoned>>
    BY <1>6 DEF TimePasses, lockVars
  <2>2. Cached(data') = Cached(data)
    BY <1>6, EntriesKept DEF Cached
  <2> QED BY <2>1, <2>2
<1>7. UNCHANGED <<data, pc, writer, poisoned>>
        => UNCHANGED <<pc, writer, poisoned>> /\ Cached(data') = Cached(data)
  OBVIOUS
<1> QED BY <1>1, <1>2, <1>3, <1>4, <1>5, <1>6, <1>7 DEF DropProceeds

\* At the start nothing is counted and nothing is cached.
LEMMA InitLedger == XInit => LedgerInv
<1> SUFFICES ASSUME XInit PROVE LedgerInv
  OBVIOUS
<1>1. /\ ledger = [hits |-> 0, misses |-> 0, sets |-> 0, evictions |-> 0, expired |-> 0]
      /\ returned = 0 /\ ~poisoned /\ writer = None
      /\ Cached(data) = {} /\ Missed = {}
  BY DEF XInit, WInit, Init, Cached, EmptyData, Missed
<1>2. ledger \in Ledgers
  BY <1>1 DEF Ledgers
<1>3. Cardinality(Cached(data)) = 0 /\ Cardinality(Missed) = 0
  BY <1>1, FS_EmptySet
<1>4. Late = 0
  BY <1>1 DEF Late, OneIf
<1>5. /\ EntriesAccounted
      /\ ledger.hits + ledger.sets = 2 * returned + Late
      /\ ledger.sets + Cardinality(Missed) <= ledger.misses
  BY <1>1, <1>3, <1>4 DEF EntriesAccounted
<1> QED BY <1>1, <1>2, <1>5 DEF LedgerInv

\* LedgerInv is inductive beside the invariant of workers and callers.
LEMMA NextLedger ==
  ASSUME LockInv, LedgerInv, [XNext]_metricsVars
  PROVE  LedgerInv'
<1>1. ASSUME NEW t \in Threads,
             \/ CountedHit(t) \/ CountedMiss(t) \/ CountedSet(t)
             \/ CountedReadBack(t) \/ CountedReadBackPanic(t)
      PROVE  LedgerInv'
  BY <1>1, HitBooked, MissBooked, SetBooked, ReadBackBooked
<1>2. ASSUME NEW t \in Threads, CountedClear(t)
      PROVE  LedgerInv'
  <2>1. /\ UNCHANGED <<pc, writer, poisoned, returned>> /\ data' = EmptyData
        /\ Record("expired", Lost(data, EmptyData))
    BY <1>2 DEF CountedClear, ImcClear, lockVars
  <2>2. Cached(EmptyData) \subseteq Cached(data)
    BY DEF Cached, EmptyData
  <2> QED BY <2>1, <2>2, ClearBooked
<1>3. ASSUME NEW w \in Workers, CountedExecute(w)
      PROVE  LedgerInv'
  <2>1. /\ UNCHANGED <<pc, writer, poisoned, returned>> /\ Execute(w)
    BY <1>3 DEF CountedExecute, Execute, apiRest, lockVars
  <2>2. CASE job[w] = Clear
    <3>1. data' = EmptyData
      BY <2>1, <2>2 DEF Execute, Clear
    <3>2. PICK n \in {0, Lost(data, EmptyData)} : Record("expired", n)
      BY <1>3, <2>2 DEF CountedExecute
    <3>3. Cached(EmptyData) \subseteq Cached(data)
      BY DEF Cached, EmptyData
    <3> QED BY <2>1, <3>1, <3>2, <3>3, ClearBooked
  <2>3. CASE job[w] # Clear
    <3>1. ledger' = ledger
      BY <1>3, <2>3 DEF CountedExecute
    <3>2. Cached(data') \subseteq Cached(data)
      BY <2>1, WorkerWrites DEF Cached
    <3> QED BY <2>1, <3>1, <3>2, MissedKept, UncountedBooked
  <2> QED BY <2>2, <2>3
<1>4. ASSUME NEW w \in Workers, CountedSweep(w)
      PROVE  LedgerInv'
  BY <1>4, SweepBooked
<1>5. ASSUME NEW t \in Threads, Uncounted(t), UNCHANGED <<ledger, returned>>
      PROVE  LedgerInv'
  BY <1>5, CallerUncounted
<1>6. UNCHANGED metricsVars => UNCHANGED <<ledger, returned>>
  BY DEF metricsVars
<1> QED BY <1>1, <1>2, <1>3, <1>4, <1>5, <1>6, WorkerUncounted DEF XNext

\* The counters keep in step with the cache whatever callers and workers do.
THEOREM LedgerInvariance == XSpec => [](LockInv /\ LedgerInv)
<1>1. XInit => LedgerInv
  BY InitLedger
<1>2. LockInv /\ LedgerInv /\ [XNext]_metricsVars => LedgerInv'
  BY NextLedger
<1>3. WorkerInv => LockInv
  BY DEF WorkerInv
<1> QED BY <1>1, <1>2, <1>3, CountersChangeNothing, WorkerInvariance, PTL DEF XSpec

\* metrics.rs, record_set(), record_eviction(), record_expired(): entries cached,
\* evicted and expired are never more than the values set.
THEOREM EntriesAdd == XSpec => []EntriesAccounted
<1>1. LedgerInv => EntriesAccounted
  BY DEF LedgerInv
<1> QED BY <1>1, LedgerInvariance, PTL

\* By how much imc_cache_hits_total is more than the get()s that returned a value.
HitsOvercount ==
  /\ ledger.hits + ledger.sets = 2 * returned + OneIf(writer # None) + OneIf(poisoned)
  /\ ledger.sets <= ledger.misses

\* api.rs, record_hit() on top of cache.rs: the hits are two for each get() that
\* returned a value less one for each value that was set, at most a miss each,
\* however stores, sweeps and panics interleave.  They are the successful get()s of
\* HitsAreGets exactly when as many values were set as were returned, that is, when
\* no call was served from the cache.
THEOREM HitsAdd == XSpec => []HitsOvercount
<1>1. LedgerInv => HitsOvercount
  <2> SUFFICES ASSUME LedgerInv PROVE HitsOvercount
    OBVIOUS
  <2>1. /\ ledger.hits \in Nat /\ ledger.sets \in Nat /\ ledger.misses \in Nat
        /\ ledger.hits + ledger.sets = 2 * returned + Late
        /\ ledger.sets + Cardinality(Missed) <= ledger.misses
        /\ returned \in Nat
    BY DEF LedgerInv, Ledgers
  <2>2. Cardinality(Missed) \in Nat
    BY MissedFinite
  <2>3. ledger.sets <= ledger.misses
    BY <2>1, <2>2
  <2>4. 2 * returned + OneIf(writer # None) + OneIf(poisoned) = 2 * returned + Late
    BY <2>1 DEF Late, OneIf
  <2> QED BY <2>1, <2>3, <2>4 DEF HitsOvercount
<1> QED BY <1>1, LedgerInvariance, PTL
=============================================================================
