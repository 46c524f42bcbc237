---------------------------- MODULE PerTypeCache ----------------------------
(***************************************************************************)
(* One cacheable type's namespace, `PerTypeCache` of cache.rs, as a value: *)
(*   data  : id_hash  -> Entry, or None where the map has no such key      *)
(*   index : args_hash -> id_hash, or None where the map has no such key   *)
(* Every method is a constant operator from such values to such values, so *)
(* that the state machines of one process, of its worker and of several    *)
(* pods share them.  A method whose outcome depends on the iteration order *)
(* of a HashMap is the set of its outcomes.                                *)
(*                                                                         *)
(* Hashes are opaque: Ids and Args are the sets of id hashes and argument  *)
(* hashes.  Time enters an Entry only as its age in ticks of a coarse      *)
(* clock, which stops at Ttl + 1: past that, all ages are alike.           *)
(***************************************************************************)
EXTENDS Naturals, FiniteSets

CONSTANTS
  Args,      \* hashes of the arguments callers pass (args_hash)
  Ids,       \* hashes of the identities values carry (id_hash)
  None,      \* no entry, no binding, no time-to-live
  MaxSize,   \* T::cache_max_size()
  Ttl        \* T::cache_ttl(): whole ticks, or None

\* The victim rules of enum CacheStrategy.
Strategies == {"Lru", "Mru", "Lfu", "Mfu", "Fifo"}

\* A cached value together with its access metadata.  Of the value only its
\* version matters: which state of the system of record it was computed from.
Entry == [ver: Nat, count: Nat, last: Nat, inserted: Nat, age: Nat]

DataMap  == [Ids -> Entry \cup {None}]
IndexMap == [Args -> Ids \cup {None}]

ASSUME CacheAssumption ==
  /\ IsFiniteSet(Ids)
  /\ None \notin Ids \cup Args \cup Entry
  /\ MaxSize \in Nat
  /\ Ttl \in Nat \cup {None}

ASSUME VersionAssumption == None \notin Nat

-----------------------------------------------------------------------------
EmptyData  == [i \in Ids |-> None]
EmptyIndex == [a \in Args |-> None]

\* The keys of the HashMap `data`; its size is len().
Cached(data) == {i \in Ids : data[i] # None}

NewEntry(ver, now) ==
  [ver |-> ver, count |-> 1, last |-> now, inserted |-> now, age |-> 0]

\* created_at.elapsed() > ttl: an entry exactly ttl old is still served.
Expired(e) == Ttl # None /\ e.age > Ttl

\* One tick of the clock passes for every entry.
Aged(data) ==
  [i \in Ids |-> IF data[i] = None \/ Ttl = None \/ Expired(data[i])
                 THEN data[i]
                 ELSE [data[i] EXCEPT !.age = @ + 1]]

-----------------------------------------------------------------------------
\* Whether get(a) finds a value: both maps know it and it has not expired.
Hit(data, index, a) ==
  /\ index[a] # None
  /\ data[index[a]] # None
  /\ ~Expired(data[index[a]])

\* The metadata a get() leaves: one more access, stamped with a tick.
Accessed(e, stamp) == [e EXCEPT !.count = @ + 1, !.last = stamp]

\* What the strategy ranks entries by, and whether it evicts e rather than f.
Rank(e, strategy) ==
  CASE strategy \in {"Lru", "Mru"} -> e.last
    [] strategy \in {"Lfu", "Mfu"} -> e.count
    [] OTHER -> e.inserted

EvictedBefore(e, f, strategy) ==
  IF strategy \in {"Mru", "Mfu"} THEN Rank(e, strategy) >= Rank(f, strategy)
                                 ELSE Rank(e, strategy) <= Rank(f, strategy)

\* evict_candidate: any extreme entry, since ties go by HashMap order.
EvictCandidates(data, strategy) ==
  {i \in Cached(data) :
     \A j \in Cached(data) : EvictedBefore(data[i], data[j], strategy)}

RemoveUnexpired(data, i) ==   \* mutant: what has expired is left to the sweep
  IF data[i] # None /\ Expired(data[i]) THEN data ELSE [data EXCEPT ![i] = None]

RemoveData(data, i) == [data EXCEPT ![i] = None]

\* set(), first step: an expired entry of the same identity goes.
WithoutExpired(data, i) ==
  IF data[i] # None /\ Expired(data[i]) THEN RemoveData(data, i) ELSE data

RoomMadeOneLate(data, strategy, inline) ==   \* mutant: > for >=
  IF inline /\ Cardinality(Cached(data)) > MaxSize /\ Cached(data) # {}
  THEN {RemoveData(data, v) : v \in EvictCandidates(data, strategy)}
  ELSE {data}

RoomMadeAtLimitOnly(data, strategy, inline) ==   \* mutant: = for >=
  IF inline /\ Cardinality(Cached(data)) = MaxSize /\ Cached(data) # {}
  THEN {RemoveData(data, v) : v \in EvictCandidates(data, strategy)}
  ELSE {data}

\* set(), second step, when the identity is new: at the limit one entry is
\* evicted, unless a worker is registered to do it later (inline = FALSE).
RoomMade(data, strategy, inline) ==
  IF inline /\ Cardinality(Cached(data)) >= MaxSize /\ Cached(data) # {}
  THEN {RemoveData(data, v) : v \in EvictCandidates(data, strategy)}
  ELSE {data}

SetOutcomesOverwriting(data, i, ver, now, strategy, inline) ==   \* mutant: no dedup
  LET live == WithoutExpired(data, i) IN
  {[d EXCEPT ![i] = NewEntry(ver, now)] :
     d \in IF i \in Cached(live) THEN {live} ELSE RoomMade(live, strategy, inline)}

SetOutcomesInsertFirst(data, i, ver, now, strategy, inline) ==   \* mutant: evicts last
  LET live == WithoutExpired(data, i) IN
  IF i \in Cached(live)
  THEN {live}
  ELSE RoomMade([live EXCEPT ![i] = NewEntry(ver, now)], strategy, inline)

\* The outcomes of set() on `data`.  A live entry of the same identity is
\* kept and the new value dropped; `index` gets the binding in either case.
SetOutcomes(data, i, ver, now, strategy, inline) ==
  LET live == WithoutExpired(data, i) IN
  IF i \in Cached(live)
  THEN {live}
  ELSE {[d EXCEPT ![i] = NewEntry(ver, now)] : d \in RoomMade(live, strategy, inline)}

SetInserts(data, i) == i \notin Cached(WithoutExpired(data, i))

-----------------------------------------------------------------------------
(* remove_by_args_hash: the binding goes, and with it the entry it named ... *)

UnboundNever(index, a) == index   \* mutant: the binding stays

Unbound(index, a) == [index EXCEPT ![a] = None]

\* ... unless another argument is bound to it.
WithoutUnreferenced(data, index, a) ==
  IF index[a] # None /\ (\A b \in Args \ {a} : index[b] # index[a])
  THEN RemoveData(data, index[a])
  ELSE data

-----------------------------------------------------------------------------
(* The sweep: remove_expired and evict_to_max_size, each followed by            *)
(* index.retain, which the last of them makes for both.                         *)

Without(data, gone) == [i \in Ids |-> IF i \in gone THEN None ELSE data[i]]

NothingExpired(data) == data   \* mutant: the sweep does not call remove_expired()

WithoutAllExpired(data) == Without(data, {i \in Cached(data) : Expired(data[i])})

NothingEvicted(data, strategy) == {data}   \* mutant: ... nor evict_to_max_size()

EvictedOnce(data, strategy) ==   \* mutant: if for while, one eviction per sweep
  IF Cardinality(Cached(data)) > MaxSize
  THEN {RemoveData(data, v) : v \in EvictCandidates(data, strategy)} ELSE {data}

\* The outcomes of evicting one candidate after the other down to MaxSize, each
\* chosen among what the ones before it left.
EvictedToMaxSize(data, strategy) ==
  LET excess == Cardinality(Cached(data)) - MaxSize
      Victims == {vs \in [1 .. excess -> Cached(data)] :
        \A k \in 1 .. excess :
          vs[k] \in EvictCandidates(Without(data, {vs[j] : j \in 1 .. k - 1}), strategy)}
  IN IF excess > 0 THEN {Without(data, {vs[k] : k \in 1 .. excess}) : vs \in Victims}
                   ELSE {data}

RetainedAll(index, data) == index   \* mutant: the sweep leaves the index alone

\* index.retain: bindings to entries that are gone are dropped.
Retained(index, data) ==
  [a \in Args |-> IF index[a] \in Cached(data) THEN index[a] ELSE None]
=============================================================================
