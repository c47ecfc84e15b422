------------------------------ MODULE MCHolder ------------------------------
(* Instances of Holder and HolderRefinement for TLC. *)
EXTENDS HolderRefinement, TLC

Symmetry == Permutations(Conn)
=============================================================================
