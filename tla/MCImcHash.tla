----------------------------- MODULE MCImcHash -----------------------------
(* Queries by three arguments, and results of up to MaxLen different       *)
(* elements, under the hashes the code computes.                             *)
EXTENDS ImcHash, ImcQueries

CONSTANTS Elems, MaxLen   \* identities of elements, length of results

MCResults  == {ids \in SeqOf(Elems, MaxLen) : IsInjective(ids)}
MCArgsHash == [bytes \in {key.bytes : key \in Keys} |-> HashValue(bytes)]
MCIdHash   == [ids \in Results |-> VecIdHash(ids)]

MCKeys ==
  {[type |-> "u32", bytes |-> Little(0, 4)], [type |-> "u64", bytes |-> Little(0, 8)],
   [type |-> "str", bytes |-> Str(<<97, 98>>)]}
=============================================================================
