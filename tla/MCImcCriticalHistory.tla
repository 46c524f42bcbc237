------------------------ MODULE MCImcCriticalHistory ------------------------
(* The instances of MCImcCritical, with the history variables.               *)
EXTENDS MCImcCritical, ImcCriticalHistory
=============================================================================
