------------------------------- MODULE MCPane -------------------------------
(* Instance of Pane for TLC. *)
EXTENDS Pane

Sizes == <<2, 1, 1>>
=============================================================================
