----------------------------- MODULE ImcHistory -----------------------------
(***************************************************************************)
(* ImcApi with a history variable, for promises of the documentation that  *)
(* speak of the past of an entry:                                          *)
(*   floor[i]  the version i had in the system of record when it was last  *)
(*             removed (imc_remove, imc_clear).                            *)
(***************************************************************************)
EXTENDS ImcApi

VARIABLE floor

HVars == <<vars, floor>>

HInit == Init /\ floor = [i \in Ids |-> 0]

Removal(t) ==
  \/ \E i \in Ids : ImcRemove(t, i) /\ floor' = [floor EXCEPT ![i] = db[i]]
  \/ ImcClear(t) /\ floor' = db

OtherStep(t) ==
  \/ \E a \in Args : ThroughImc(t, a)
  \/ Proceed(t) \/ Abandon(t) \/ WritePanics(t)

Other == (\E t \in Threads : OtherStep(t)) \/ (\E i \in Ids : DbUpdate(i)) \/ TimePasses \/ Finished

HNext == (\E t \in Threads : Removal(t)) \/ (Other /\ UNCHANGED floor)

HSpec == HInit /\ [][HNext]_HVars

-----------------------------------------------------------------------------
\* api.rs, imc_remove: "After removal, the next [`through_imc`] call for that
\* identity will re-execute the closure and cache the fresh value."  So a call
\* that is served from the cache is not served what was computed from a version
\* older than the last removal.
HitsFreshSinceRemoval ==
  \A t \in Threads : pc[t] = "tick" => data[call[t].id].ver >= floor[call[t].id]

\* api.rs, through_imc: "value was just stored", so get() finds it.
ExpectHolds ==
  \A t \in Threads : pc[t] = "readback" => Hit(data, index, call[t].args)
=============================================================================
