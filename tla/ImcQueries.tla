---------------------------- MODULE ImcQueries ----------------------------
(***************************************************************************)
(* What queries of one type, Vec<T> of traits.rs, find in a cache that     *)
(* knows arguments and identities by their hashes alone.  Queries are      *)
(* calls of through_imc, one after the other and without eviction; what of *)
(* it is concurrent is the matter of ImcApi, the hashes that of ImcHash.   *)
(***************************************************************************)
EXTENDS Naturals, FiniteSets

CONSTANTS
  Keys,         \* arguments of queries, as [type, bytes]: the bytes their Hash writes
  Results,      \* what closures return: the identities of a Vec's elements
  ArgsHash,     \* the hash of what each argument writes, and
  IdHash,       \* ... of the identity of each result
  MaxCalls      \* bound on the queries that compute

VARIABLES
  index,    \* args_hash -> id_hash
  data,     \* id_hash -> the Vec cached, as the identities of its elements
  computed  \* history: what closures returned, with the bytes of their arguments

hashVars == <<index, data, computed>>

NoKey == [h \in {} |-> h]

HashInit == index = NoKey /\ data = NoKey /\ computed = {}

\* HashMap::insert.
Inserted(map, key, value) ==
  [k \in DOMAIN map \cup {key} |-> IF k = key THEN value ELSE map[k]]

\* A query misses, computes a result and stores it under its identity, unless
\* there is an entry of that identity already.
Query(key, ids) ==
  LET a == ArgsHash[key.bytes]
      i == IdHash[ids] IN
  /\ Cardinality(computed) < MaxCalls
  /\ a \notin DOMAIN index
  /\ index' = Inserted(index, a, i)
  /\ data' = IF i \in DOMAIN data THEN data ELSE Inserted(data, i, ids)
  /\ computed' = computed \cup {[bytes |-> key.bytes, ids |-> ids]}

HashNext == \E key \in Keys, ids \in Results : Query(key, ids)

HashSpec == HashInit /\ [][HashNext]_hashVars

-----------------------------------------------------------------------------
\* traits.rs, Vec<T>: "Two queries returning the same logical set of entities
\* share one cached `Vec`, even if the query arguments differ."
LogicalSetShared ==
  \A c, d \in computed :
    {c.ids[n] : n \in DOMAIN c.ids} = {d.ids[n] : n \in DOMAIN d.ids} =>
      index[ArgsHash[c.bytes]] = index[ArgsHash[d.bytes]]
=============================================================================
