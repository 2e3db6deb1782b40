-------------------------- MODULE MCFibManagement ---------------------------
(* For TLC: one prefix, below that of management. *)
EXTENDS FibManagement, TLC

MCNames == {<<"m", "a">>}
MCTopPrefix == <<"m">>

Symmetry == Permutations(Faces)
=============================================================================
