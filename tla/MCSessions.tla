----------------------------- MODULE MCSessions -----------------------------
(* Instances of Sessions.tla for TLC.                                      *)
EXTENDS Sessions, TLC

CONSTANTS l1, l2, l3, r1, r2

MCLogins2 == {l1, l2}
MCLogins3 == {l1, l2, l3}
MCRequests2 == {r1, r2}

\* A reload may lengthen the interval.
MCInterval == [c \in Generations |-> c + 1]
LoginSymmetry == Permutations(MCLogins3)
RefreshSymmetry == Permutations(MCLogins2) \cup Permutations(MCRequests2)
=============================================================================
