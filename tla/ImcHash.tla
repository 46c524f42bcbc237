------------------------------ MODULE ImcHash ------------------------------
(***************************************************************************)
(* hasher.rs and the blanket impl for Vec of traits.rs: under which keys   *)
(* the results of queries are cached.  A u64 is four digits of 16 bits,    *)
(* the least significant first, since TLC's integers have 32 bits.  What   *)
(* becomes of queries whose hashes these are is the matter of ImcQueries.  *)
(***************************************************************************)
EXTENDS Naturals, Sequences, SequencesExt, Bitwise

Base == 65536
U64  == [1 .. 4 -> 0 .. Base - 1]

-----------------------------------------------------------------------------
(* hasher.rs *)

\* StableHasher::new, 14695981039346656037 = 0xcbf29ce484222325
New == <<8997, 33826, 40164, 52210>>

\* wrapping_mul(1099511628211), which is 2^40 + 435: what is 435 times, and what is
\* 40 bits further up, digit by digit with the carry, and the last carry lost.
WrappingMul(h) ==
  LET n1 == 435 * h[1]
      n2 == 435 * h[2] + n1 \div Base
      n3 == 435 * h[3] + 256 * h[1] + n2 \div Base
      n4 == 435 * h[4] + 256 * h[2] + n3 \div Base
  IN <<n1 % Base, n2 % Base, n3 % Base, n4 % Base>>

\* One byte of StableHasher::write: xor, then multiply.
Round(h, b) == WrappingMul(<<h[1] ^^ b, h[2], h[3], h[4]>>)

\* hash_value: however the bytes are divided into writes, and whatever was hashed.
HashValue(bytes) == FoldLeft(Round, New, bytes)

-----------------------------------------------------------------------------
(* What the standard library feeds a hasher: integers little-endian, strings   *)
(* closed by a byte no string contains, a Vec after its length.                *)

Little(n, size) == [j \in 1 .. size |-> IF j = 1 THEN n ELSE 0]
Str(s) == Append(s, 255)
VecOf(ids) == Little(Len(ids), 8) \o FlattenSeq([j \in DOMAIN ids |-> Little(ids[j], 4)])

\* Division of a u64 by ten, from its most significant digit down.
DivMod10(h) ==
  LET n4 == h[4]
      n3 == Base * (n4 % 10) + h[3]
      n2 == Base * (n3 % 10) + h[2]
      n1 == Base * (n2 % 10) + h[1]
  IN [quot |-> <<n1 \div 10, n2 \div 10, n3 \div 10, n4 \div 10>>, rem |-> n1 % 10]

\* u64::to_string, as ASCII codes.
Decimal[h \in U64] ==
  LET d == DivMod10(h)
      front == IF d.quot = <<0, 0, 0, 0>> THEN <<>> ELSE Decimal[d.quot]
  IN Append(front, 48 + d.rem)

-----------------------------------------------------------------------------
(* traits.rs, ImcCacheable for Vec<T> *)

\* A hash as text, which is also what imc_invalidation_id has other pods publish.
HashText(bytes) == Decimal[HashValue(bytes)]

\* Vec::cache_id: the identities of the elements, in order.
CacheId(ids) == HashText(VecOf(ids))

\* The key of the entry: through_imc hashes the identity, here a string, again.
VecIdHash(ids) == HashValue(Str(CacheId(ids)))
=============================================================================
