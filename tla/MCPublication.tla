---------------------------- MODULE MCPublication ----------------------------
(* Instances of Publication.tla for TLC.                                   *)
EXTENDS Publication, TLC

CONSTANTS u1, u2, u3, a1, a2, b1, k1, k2

MCUploads2 == {u1, u2}
MCUploads3 == {u1, u2, u3}

\* Two builds of one version, and another collection.
MCArchives2 == {a1, a2}
MCArchives3 == {a1, a2, b1}
MCIdentity2 == [a \in MCArchives2 |-> k1]
MCIdentity3 == [a \in MCArchives3 |-> IF a = b1 THEN k2 ELSE k1]

\* The new uploads are alike, and so are the two builds.
Symmetry2 == Permutations(MCUploads2)
Symmetry4 == Symmetry2 \cup Permutations(MCArchives2)
=============================================================================
