----------------------------- MODULE ImcMetrics -----------------------------
(***************************************************************************)
(* The counters of metrics.rs beside ImcWorker: what api.rs and cache.rs   *)
(* record at each step, and what the numbers tell.  A step that records    *)
(* nothing is one of ImcWorker as it is.                                   *)
(***************************************************************************)
EXTENDS ImcWorker

ASSUME ThreadsAssumption == IsFiniteSet(Threads)

VARIABLES
  ledger,  \* the counters hits, misses, sets, evictions, expired
  returned \* history: the get()s that returned a value

metricsVars == <<WVars, ledger, returned>>

XInit ==
  /\ WInit
  /\ ledger = [hits |-> 0, misses |-> 0, sets |-> 0, evictions |-> 0, expired |-> 0]
  /\ returned = 0

Record(counter, n) == ledger' = [ledger EXCEPT ![counter] = @ + n]

\* How many entries of d are no longer in e.
Lost(d, e) == Cardinality(Cached(d) \ Cached(e))

OneIf(b) == IF b THEN 1 ELSE 0

-----------------------------------------------------------------------------
\* get() records the hit, and through_imc records it again.
CountedHit(t) == StampHit(t) /\ Record("hits", 2) /\ returned' = returned + 1

\* through_imc records the miss, and get() another for an expired entry.
CountedMiss(t) ==
  /\ LookupMiss(t)
  /\ LET i == index[call[t].args] IN
       Record("misses", 1 + OneIf(i # None /\ data[i] # None))
  /\ UNCHANGED returned

\* set() records itself, deduplicated or not, and the entry it evicts; an expired
\* entry it removes first is not recorded.
CountedSet(t) ==
  /\ StoreValue(t)
  /\ LET live == WithoutExpired(data, call[t].id) IN
       ledger' = [ledger EXCEPT !.sets = @ + 1, !.evictions = @ + Lost(live, data')]
  /\ UNCHANGED returned

\* The get() of what was just stored is a hit like any other, recorded once ...
CountedReadBack(t) == ReadBack(t) /\ Record("hits", 1) /\ returned' = returned + 1

\* ... and a miss, if it finds an expired entry.
CountedReadBackPanic(t) ==
  ReadBackPanics(t) /\ Record("misses", 1) /\ UNCHANGED returned

\* clear() counts every entry as expired.
CountedClear(t) == ImcClear(t) /\ Record("expired", Lost(data, EmptyData)) /\ UNCHANGED returned

\* So does the command Clear, but not ClearAll, which drops the caches whole.
CountedExecute(w) ==
  /\ Execute(w)
  /\ IF job[w] = Clear
     THEN \E n \in {0, Lost(data, EmptyData)} : Record("expired", n)
     ELSE UNCHANGED ledger
  /\ UNCHANGED returned

ExpiredInAll(d) == Cardinality(Cached(d))   \* mutant: the size before, not the difference

\* remove_expired() counts what it removes ...
ExpiredIn(d) == Lost(d, WithoutAllExpired(d))

\* ... and evict_to_max_size() counts one eviction however many there were.
CountedSweep(w) ==
  /\ Sweep(w)
  /\ ledger' = [ledger EXCEPT
       !.expired = @ + ExpiredIn(data),
       !.evictions = @ + OneIf(Lost(WithoutAllExpired(data), data') > 0)]
  /\ UNCHANGED returned

Uncounted(t) ==
  \/ \E a \in Args : ThroughImc(t, a)
  \/ LookupHit(t) \/ TickHit(t) \/ Compute(t) \/ ComputeOversized(t) \/ Abandon(t)
  \/ LockPanics(t) \/ WritePanics(t)
  \/ \E i \in Ids : ImcRemove(t, i)

XNext ==
  \/ /\ \E t \in Threads :
          \/ CountedHit(t) \/ CountedMiss(t) \/ CountedSet(t)
          \/ CountedReadBack(t) \/ CountedReadBackPanic(t) \/ CountedClear(t)
     /\ UNCHANGED workerVars
  \/ /\ (\E t \in Threads : Uncounted(t)) \/ (\E i \in Ids : DbUpdate(i)) \/ TimePasses \/ Finished
     /\ UNCHANGED <<workerVars, ledger, returned>>
  \/ \E w \in Workers : CountedExecute(w) \/ CountedSweep(w)
  \/ /\ \/ \E t \in Threads : ImcLen(t)
        \/ \E w \in Workers :
             \/ Spawn(w) \/ SpawnFails(w) \/ DropSends(w) \/ DropProceeds(w)
             \/ \E c \in Commands : Send(w, c)
             \/ Receive(w) \/ ReceiveShutdown(w) \/ ReceiveTimeout(w)
             \/ Count(w) \/ SetGauge(w) \/ WorkerPanics(w)
     /\ UNCHANGED <<ledger, returned>>

XSpec == XInit /\ [][XNext]_metricsVars

-----------------------------------------------------------------------------
\* README.md, imc_cache_sets_total: every entry was set once, and what is cached
\* and what was counted as evicted or expired are different entries.  They are
\* fewer than the sets by those deduplicated, removed or swept in one go.
EntriesAccounted ==
  Cardinality(Cached(data)) + ledger.evictions + ledger.expired <= ledger.sets

\* README.md, imc_cache_hits_total: "Successful `get()` returns".
HitsAreGets == ledger.hits = returned
=============================================================================
