---------------------------- MODULE MCDataQuotas ----------------------------
\* Instances of DataQuotas for TLC.
EXTENDS DataQuotas, TLC

CONSTANTS k1, k2, k3, s1, s2

\* A caller in each session,
OneCallerEach == k1 :> s1 @@ k2 :> s2

\* and two callers in the first one, where only the permit keeps them apart.
TwoInTheFirst == k1 :> s1 @@ k2 :> s1 @@ k3 :> s2

\* The callers of one session are interchangeable.
SameSession == Permutations({k1, k2})
=============================================================================
