----------------------------- MODULE MemoTable -----------------------------
(***************************************************************************)
(* What the cache of one type promises its callers, without locks, eviction*)
(* strategy, time or worker: a table with at most one canonical copy per   *)
(* identity, and arguments bound to identities.  A call takes effect in one*)
(* step, Serve or Adopt; copies and bindings may be lost at any moment, but*)
(* none is ever replaced.                                                  *)
(***************************************************************************)
EXTENDS Naturals

CONSTANTS Args, Ids, None, Threads

VARIABLES
  table,   \* per identity: the version of its canonical copy, or None
  bound,   \* per argument: the identity it was last answered with, or None
  phase,   \* per caller: how far its call is
  want,    \* per caller: the argument it asks for, or None
  got      \* per caller: the value computed or to be returned, or None

mvars == <<table, bound, phase, want, got>>

Values == [id: Ids, ver: Nat]
Phases == {"idle", "asking", "computing", "offering", "answered", "failed"}

MInit ==
  /\ table = [i \in Ids |-> None]
  /\ bound = [a \in Args |-> None]
  /\ phase = [t \in Threads |-> "idle"]
  /\ want = [t \in Threads |-> None]
  /\ got = [t \in Threads |-> None]

Enter(t, from, to) == phase[t] = from /\ phase' = [phase EXCEPT ![t] = to]

\* The call of t is over.
Leave(t, from, to) ==
  /\ Enter(t, from, to)
  /\ want' = [want EXCEPT ![t] = None]
  /\ got' = [got EXCEPT ![t] = None]

-----------------------------------------------------------------------------
Ask(t, a) ==
  /\ Enter(t, "idle", "asking")
  /\ want' = [want EXCEPT ![t] = a]
  /\ UNCHANGED <<table, bound, got>>

Known(a) == bound[a] # None /\ table[bound[a]] # None

\* The argument is known: the caller is given the canonical copy.
Serve(t) ==
  /\ Enter(t, "asking", "answered")
  /\ Known(want[t])
  /\ got' = [got EXCEPT ![t] = [id |-> bound[want[t]], ver |-> table[bound[want[t]]]]]
  /\ UNCHANGED <<table, bound, want>>

Miss(t) ==
  /\ Enter(t, "asking", "computing")
  /\ ~Known(want[t])
  /\ UNCHANGED <<table, bound, want, got>>

Compute(t) ==
  /\ Enter(t, "computing", "offering")
  /\ got'[t] \in Values /\ got' = [got EXCEPT ![t] = got'[t]]
  /\ UNCHANGED <<table, bound, want>>

\* The argument is bound to what was computed.  If its identity has a copy, that
\* one stays and is the answer; else the computed one becomes canonical, for
\* which one other copy may have to go.
Adopt(t) ==
  /\ Enter(t, "offering", "answered")
  /\ LET i == got[t].id IN
       /\ bound' = [bound EXCEPT ![want[t]] = i]
       /\ IF table[i] # None
          THEN table' = table
          ELSE \/ table' = [table EXCEPT ![i] = got[t].ver]
               \/ \E v \in Ids \ {i} : table' = [table EXCEPT ![v] = None, ![i] = got[t].ver]
       /\ got' = [got EXCEPT ![t].ver = table'[i]]
  /\ UNCHANGED want

Reply(t) == Leave(t, "answered", "idle") /\ UNCHANGED <<table, bound>>

\* The value is not to be cached, or the computation is given up.
Bypass(t) == Leave(t, "computing", "idle") /\ UNCHANGED <<table, bound>>

\* Removal, expiry, eviction: copies and bindings go, nothing takes their place.
Forget ==
  /\ \A i \in Ids : table'[i] \in {table[i], None}
  /\ \A a \in Args : bound'[a] \in {bound[a], None}
  /\ UNCHANGED <<phase, want, got>>

\* A panic ends the caller and leaves the table as it is.
Fail(t) == Leave(t, phase[t], "failed") /\ UNCHANGED <<table, bound>>

MNext ==
  \/ \E t \in Threads :
       \/ \E a \in Args : Ask(t, a)
       \/ Serve(t) \/ Miss(t) \/ Compute(t) \/ Adopt(t) \/ Reply(t) \/ Bypass(t) \/ Fail(t)
  \/ Forget

MSpec == MInit /\ [][MNext]_mvars
=============================================================================
