--------------------------- MODULE MCHolderSocket ---------------------------
(* Instances of HolderSocket for TLC. *)
EXTENDS HolderSocket
=============================================================================
