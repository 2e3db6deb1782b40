---------------------------- MODULE MCFaceTable -----------------------------
(* FaceTable with a few faces of one peer of each kind. *)
EXTENDS FaceTable, TLC

Symmetry == Permutations(FaceIds) \cup Permutations(EtherWorkers)
=============================================================================
