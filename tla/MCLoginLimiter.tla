--------------------------- MODULE MCLoginLimiter ---------------------------
(* An instance of LoginLimiter.tla for TLC.                                *)
EXTENDS LoginLimiter, TLC

CONSTANTS a1, a2, a3, a4, a5, a6, i1, i2

MCAttempts == {a1, a2, a3, a4, a5, a6}
MCAddresses == {i1, i2}
MCSymmetry == Permutations(MCAttempts) \cup Permutations(MCAddresses)
=============================================================================
