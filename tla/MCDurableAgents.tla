--------------------------- MODULE MCDurableAgents ---------------------------
(* Checks the bindings of durable panes.                                   *)
EXTENDS DurableAgents

-----------------------------------------------------------------------------
\* Expected to fail: every attach request is answered, also when its pane is
\* closed before it was bound (continuous_api.go:405).
AttachAlwaysAnswered == \A p \in Panes : p \in pending ~> p \notin pending
=============================================================================
