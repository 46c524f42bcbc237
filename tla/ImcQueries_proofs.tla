------------------------- MODULE ImcQueries_proofs -------------------------
(***************************************************************************)
(* Theorems about ImcQueries for any two hash functions: what a query is   *)
(* answered with whatever collides, and which queries share an entry if    *)
(* nothing that is hashed collides, as FNV-1a with 64 bits is trusted to   *)
(* have it.                                                                *)
(***************************************************************************)
EXTENDS ImcQueries, FiniteSetTheorems, TLAPS

\* No two arguments that write different bytes have one hash.
DistinctArgs ==
  \A k, l \in Keys : ArgsHash[k.bytes] = ArgsHash[l.bytes] => k.bytes = l.bytes

\* No two different results have one hash.
DistinctResults ==
  \A r, s \in Results : IdHash[r] = IdHash[s] => r = s

-----------------------------------------------------------------------------
\* Computed results are results, for arguments that are keys, ...
ComputedTypes ==
  /\ IsFiniteSet(computed)
  /\ \A c \in computed : c.ids \in Results /\ \E key \in Keys : c.bytes = key.bytes
  /\ \A c \in computed : c = [bytes |-> c.bytes, ids |-> c.ids]

\* ... each has an entry under its hash, which holds one of that hash, ...
DataByHash ==
  /\ DOMAIN data = {IdHash[c.ids] : c \in computed}
  /\ \A i \in DOMAIN data : \E c \in computed : c.ids = data[i] /\ IdHash[c.ids] = i

\* ... and a binding comes from one computation, of its two hashes.
IndexByHash ==
  \A a \in DOMAIN index :
    \E c \in computed : ArgsHash[c.bytes] = a /\ IdHash[c.ids] = index[a]

QueryInv == ComputedTypes /\ DataByHash /\ IndexByHash

LEMMA InitQueryInv == HashInit => QueryInv
BY FS_EmptySet DEF HashInit, NoKey, QueryInv, ComputedTypes, DataByHash, IndexByHash

LEMMA QueryStep ==
  ASSUME QueryInv, NEW key \in Keys, NEW ids \in Results, Query(key, ids)
  PROVE  QueryInv'
<1> DEFINE new == [bytes |-> key.bytes, ids |-> ids]
           b == ArgsHash[key.bytes]
           h == IdHash[ids]
<1>1. computed' = computed \cup {new}
  BY DEF Query
<1>2. index' = Inserted(index, b, h)
  BY DEF Query
<1>3. data' = IF h \in DOMAIN data THEN data ELSE Inserted(data, h, ids)
  BY DEF Query
<1>4. new.ids = ids /\ new.bytes = key.bytes
  OBVIOUS
<1>5. ComputedTypes'
  <2>1. IsFiniteSet(computed')
    BY <1>1, FS_AddElement DEF QueryInv, ComputedTypes
  <2> QED BY <1>1, <2>1 DEF QueryInv, ComputedTypes
<1>6. DataByHash'
  <2>1. /\ DOMAIN data' = DOMAIN data \cup {h}
        /\ \A i \in DOMAIN data : data'[i] = data[i]
        /\ h \notin DOMAIN data => data'[h] = ids
    BY <1>3 DEF Inserted
  <2> HIDE DEF new, h
  <2>2. {IdHash[c.ids] : c \in computed'} = {IdHash[c.ids] : c \in computed} \cup {h}
    BY <1>1, <1>4 DEF h
  <2>3. ASSUME NEW i \in DOMAIN data'
        PROVE  \E c \in computed' : c.ids = data'[i] /\ IdHash[c.ids] = i
    <3>1. CASE i \in DOMAIN data
      BY <1>1, <2>1, <3>1 DEF QueryInv, DataByHash
    <3>2. CASE i \notin DOMAIN data
      BY <1>1, <1>4, <2>1, <2>3, <3>2 DEF h
    <3> QED BY <3>1, <3>2
  <2> QED BY <2>1, <2>2, <2>3 DEF QueryInv, DataByHash
<1>7. IndexByHash'
  <2>1. /\ DOMAIN index' = DOMAIN index \cup {b}
        /\ \A a \in DOMAIN index : a # b => index'[a] = index[a]
        /\ index'[b] = h
    BY <1>2 DEF Inserted
  <2> HIDE DEF new, b, h
  <2>2. ASSUME NEW a \in DOMAIN index'
        PROVE  \E c \in computed' : ArgsHash[c.bytes] = a /\ IdHash[c.ids] = index'[a]
    <3>1. CASE a = b
      BY <1>1, <1>4, <2>1, <3>1 DEF b, h
    <3>2. CASE a # b
      BY <1>1, <2>1, <2>2, <3>2 DEF QueryInv, IndexByHash
    <3> QED BY <3>1, <3>2
  <2> QED BY <2>2 DEF IndexByHash
<1> QED BY <1>5, <1>6, <1>7 DEF QueryInv

LEMMA QueryInvariance == HashSpec => []QueryInv
<1>1. QueryInv /\ [HashNext]_hashVars => QueryInv'
  <2>1. ASSUME QueryInv, HashNext
        PROVE  QueryInv'
    BY <2>1, QueryStep DEF HashNext
  <2>2. ASSUME QueryInv, UNCHANGED hashVars
        PROVE  QueryInv'
    BY <2>2 DEF hashVars, QueryInv, ComputedTypes, DataByHash, IndexByHash
  <2> QED BY <2>1, <2>2
<1> QED BY <1>1, InitQueryInv, PTL DEF HashSpec

-----------------------------------------------------------------------------
\* What is known without trusting the hashes: a query is answered with a result
\* some query computed, and one was computed for an argument of its hash whose
\* identity has the hash of the answer's.
AnsweredByHashes ==
  \A key \in Keys :
    LET a == ArgsHash[key.bytes] IN
    a \in DOMAIN index =>
      /\ index[a] \in DOMAIN data
      /\ \E c \in computed : c.ids = data[index[a]]
      /\ \E c \in computed :
           ArgsHash[c.bytes] = a /\ IdHash[c.ids] = IdHash[data[index[a]]]

\* through_imc: whatever collides, a query never finds a binding without an entry,
\* and its answer differs from what was computed for it by collisions alone.
THEOREM AnswersWhateverCollides == HashSpec => []AnsweredByHashes
<1>1. ASSUME QueryInv, NEW key \in Keys, ArgsHash[key.bytes] \in DOMAIN index
      PROVE  LET a == ArgsHash[key.bytes] IN
             /\ index[a] \in DOMAIN data
             /\ \E c \in computed : c.ids = data[index[a]]
             /\ \E c \in computed :
                  ArgsHash[c.bytes] = a /\ IdHash[c.ids] = IdHash[data[index[a]]]
  <2> DEFINE a == ArgsHash[key.bytes]
  <2>1. PICK c \in computed : ArgsHash[c.bytes] = a /\ IdHash[c.ids] = index[a]
    BY <1>1 DEF QueryInv, IndexByHash
  <2>2. index[a] \in DOMAIN data
    BY <1>1, <2>1 DEF QueryInv, DataByHash
  <2>3. PICK e \in computed : e.ids = data[index[a]] /\ IdHash[e.ids] = index[a]
    BY <1>1, <2>2 DEF QueryInv, DataByHash
  <2> QED BY <2>1, <2>2, <2>3
<1>2. QueryInv => AnsweredByHashes
  BY <1>1 DEF AnsweredByHashes
<1> QED BY <1>2, QueryInvariance, PTL

\* There is one entry for each Vec that was computed, and it holds that Vec.
OneCopyPerResult ==
  /\ {data[i] : i \in DOMAIN data} = {c.ids : c \in computed}
  /\ Cardinality(DOMAIN data) = Cardinality({c.ids : c \in computed})

\* traits.rs, Vec::cache_id, which hashes the identities in order: if no two results
\* have one hash, queries share an entry exactly when they return the same elements
\* in the same order.  This is what the code does; what its documentation promises,
\* an entry for each set of elements, is LogicalSetShared, and does not hold.
THEOREM ResultsShareOneCopy == DistinctResults => (HashSpec => []OneCopyPerResult)
<1> SUFFICES ASSUME DistinctResults
             PROVE  HashSpec => []OneCopyPerResult
  OBVIOUS
<1>1. ASSUME QueryInv
      PROVE  OneCopyPerResult
  <2> DEFINE R == {c.ids : c \in computed}
             H == [r \in R |-> IdHash[r]]
  <2>1. R \subseteq Results
    BY <1>1 DEF QueryInv, ComputedTypes
  <2>2. {data[i] : i \in DOMAIN data} = R
    <3>1. ASSUME NEW i \in DOMAIN data
          PROVE  data[i] \in R
      BY <1>1 DEF QueryInv, DataByHash
    <3>2. ASSUME NEW r \in R
          PROVE  \E i \in DOMAIN data : data[i] = r
      <4>1. IdHash[r] \in DOMAIN data
        BY <1>1 DEF QueryInv, DataByHash
      <4>2. PICK c \in computed : c.ids = data[IdHash[r]] /\ IdHash[c.ids] = IdHash[r]
        BY <1>1, <4>1 DEF QueryInv, DataByHash
      <4>3. c.ids = r
        BY <1>1, <2>1, <4>2 DEF DistinctResults
      <4> QED BY <4>1, <4>2, <4>3
    <3> QED BY <3>1, <3>2
  <2>3. IsFiniteSet(R)
    <3> DEFINE F == [c \in computed |-> c.ids]
    <3>1. F \in Surjection(computed, R)
      BY DEF Surjection
    <3> QED BY <1>1, <3>1, FS_Surjection DEF QueryInv, ComputedTypes, ExistsSurjection
  <2>4. H \in Bijection(R, DOMAIN data)
    <3>1. H \in [R -> DOMAIN data] /\ \A i \in DOMAIN data : \E r \in R : H[r] = i
      BY <1>1 DEF QueryInv, DataByHash
    <3>2. \A r, s \in R : H[r] = H[s] => r = s
      BY <1>1, <2>1 DEF DistinctResults
    <3> QED BY <3>1, <3>2 DEF Bijection, Injection, Surjection, IsInjective
  <2>5. Cardinality(DOMAIN data) = Cardinality(R)
    BY <2>3, <2>4, FS_Bijection DEF ExistsBijection
  <2> QED BY <2>2, <2>5 DEF OneCopyPerResult
<1>2. QueryInv => OneCopyPerResult
  BY <1>1
<1> QED BY <1>2, QueryInvariance, PTL

\* A query is answered with what was computed for arguments that write its bytes.
AnsweredByBytes ==
  \A key \in Keys :
    ArgsHash[key.bytes] \in DOMAIN index =>
      [bytes |-> key.bytes, ids |-> data[index[ArgsHash[key.bytes]]]] \in computed

\* hasher.rs, args_hash: if neither arguments nor results collide, a query is
\* answered with what was computed for the bytes it writes.  The type of its arguments
\* is not among them: 1u32 and 1i32 are one query.
THEOREM AnswersAreByBytes ==
  DistinctArgs /\ DistinctResults => (HashSpec => []AnsweredByBytes)
<1> SUFFICES ASSUME DistinctArgs, DistinctResults
             PROVE  HashSpec => []AnsweredByBytes
  OBVIOUS
<1>1. ASSUME QueryInv
      PROVE  AnsweredByBytes
  <2> SUFFICES ASSUME NEW key \in Keys, ArgsHash[key.bytes] \in DOMAIN index
               PROVE  [bytes |-> key.bytes, ids |-> data[index[ArgsHash[key.bytes]]]] \in computed
    BY DEF AnsweredByBytes
  <2> DEFINE a == ArgsHash[key.bytes]
  <2>1. PICK c \in computed : ArgsHash[c.bytes] = a /\ IdHash[c.ids] = index[a]
    BY <1>1 DEF QueryInv, IndexByHash
  <2>2. c.bytes = key.bytes
    BY <1>1, <2>1 DEF DistinctArgs, QueryInv, ComputedTypes
  <2>3. index[a] \in DOMAIN data
    BY <1>1, <2>1 DEF QueryInv, DataByHash
  <2>4. PICK e \in computed : e.ids = data[index[a]] /\ IdHash[e.ids] = index[a]
    BY <1>1, <2>3 DEF QueryInv, DataByHash
  <2>5. e.ids = c.ids
    BY <1>1, <2>1, <2>4 DEF DistinctResults, QueryInv, ComputedTypes
  <2> QED BY <1>1, <2>1, <2>2, <2>4, <2>5 DEF QueryInv, ComputedTypes
<1>2. QueryInv => AnsweredByBytes
  BY <1>1
<1> QED BY <1>2, QueryInvariance, PTL
=============================================================================
