---------------------------- MODULE MCImcMetrics ----------------------------
(* Small instances of ImcMetrics in which any closure may find any identity, *)
(* so that identities and arguments are interchangeable.                     *)
EXTENDS ImcMetrics, TLC

CONSTANTS t1, a1, a2, a3, i1, i2, i3

AnyAnswers == [a \in Args |-> Ids]
Symmetry   == {f @@ g : f \in Permutations(Args), g \in Permutations(Ids)}
=============================================================================
