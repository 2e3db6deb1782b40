------------------------- MODULE MCIdentityManager --------------------------
(* For TLC: it does not matter which password or which run of mirgen is which. *)
EXTENDS IdentityManager

Symmetry == Permutations(Passwds) \cup Permutations(Runs)
=============================================================================
