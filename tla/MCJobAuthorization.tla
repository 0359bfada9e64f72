-------------------------- MODULE MCJobAuthorization --------------------------
(* JobAuthorization for TLC: two granted steps and one that is not. *)
EXTENDS JobAuthorization, TLC

CONSTANTS s1, s2, s3

MCStep    == {s1, s2, s3}
MCGranted == {s1, s2}
Symmetry  == Permutations(MCGranted)
=============================================================================
