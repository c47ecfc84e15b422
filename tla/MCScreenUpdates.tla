--------------------------- MODULE MCScreenUpdates ---------------------------
(* Instances of ScreenUpdates for TLC. *)
EXTENDS ScreenUpdates
=============================================================================
