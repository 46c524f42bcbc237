------------------------- MODULE MCImcInvalidation -------------------------
(* Small instances of ImcInvalidation: one argument, one identity.           *)
EXTENDS ImcInvalidation, TLC

CONSTANTS t1, t2, s1, s2, a1, i1

MCAnswers == a1 :> {i1}
=============================================================================
