---------------------------- MODULE MCImcWorker ----------------------------
(* Small instances of ImcWorker, in which each argument has its identity.  *)
EXTENDS ImcWorker, TLC

CONSTANTS t1, a1, a2, i1, i2

OneEach == a1 :> {i1} @@ a2 :> {i2}
=============================================================================
