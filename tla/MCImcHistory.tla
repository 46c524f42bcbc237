---------------------------- MODULE MCImcHistory ----------------------------
(* Small instances of ImcHistory: a1 finds i1, and a2 finds i1 or i2, so that *)
(* arguments share an identity and rebind.                                    *)
EXTENDS ImcHistory, TLC

CONSTANTS t1, t2, a1, a2, i1, i2

MCAnswers2 == a1 :> {i1} @@ a2 :> {i1, i2}
=============================================================================
