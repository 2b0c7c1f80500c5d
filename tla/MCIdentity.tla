----------------------------- MODULE MCIdentity -----------------------------
(* Instances of Identity for TLC: one key of an older home and one for every call. *)
EXTENDS Identity, TLC

CONSTANTS p1, p2, k0, k1, k2, k3

MCKeys == {k0, k1, k2, k3}

MCSymmetry == Permutations(Processes) \cup Permutations(Keys)

=============================================================================
