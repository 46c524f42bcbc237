------------------------------ MODULE MCImcApi ------------------------------
(* A small instance of ImcApi in which any closure may find any identity, so  *)
(* that arguments share an identity, rebind and are interchangeable.          *)
EXTENDS ImcApi, TLC

CONSTANTS t1, t2, a1, a2, i1, i2, i3

AnyAnswers == [a \in Args |-> Ids]

Symmetry ==
  {f @@ g @@ h : f \in Permutations(Threads), g \in Permutations(Args), h \in Permutations(Ids)}
=============================================================================
