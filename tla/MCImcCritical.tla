---------------------------- MODULE MCImcCritical ----------------------------
(* Small instances of ImcCritical: keys of one identity, and a second type    *)
(* with a channel of its own.                                                 *)
EXTENDS ImcCritical, TLC

CONSTANTS p1, p2, t1, t2, t3, s1, s2, s3, a1, a2, i1, T1, T2, c1, c2

MCChannelOf == [T \in Types |-> IF T = T1 THEN c1 ELSE c2]
MCAnswers   == [a \in Args |-> {i1}]

\* Two pods with two callers and one; p1 may have a second worker after the first.
TwoPodOf  == t1 :> p1 @@ t2 :> p2 @@ t3 :> p1
TwoSubPod == s1 :> p1 @@ s2 :> p1 @@ s3 :> p2

\* One pod with one caller and one worker.
OnePodOf  == [t \in {t1} |-> p1]
OneSubPod == [s \in {s1} |-> p1]

\* The types with their channels are alike, and so are the workers and the callers
\* of p1.
SwapTypes == (T1 :> T2 @@ T2 :> T1) @@ (c1 :> c2 @@ c2 :> c1)
SameTypes == [x \in {T1, T2, c1, c2} |-> x]
Symmetry ==
  {f @@ g @@ h : f \in {SameTypes, SwapTypes},
                 g \in Permutations({s1, s2}), h \in Permutations({t1, t3})}
==============================================================================
