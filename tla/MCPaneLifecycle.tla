-------------------------- MODULE MCPaneLifecycle --------------------------
(* Instances of PaneLifecycle for TLC. *)
EXTENDS PaneLifecycle

CONSTANTS p1, p2, f1

OneDir == [p \in Pane |-> "work"]
TwoDirs == [p \in Pane |-> IF p = p1 THEN "work" ELSE "home"]
=============================================================================
