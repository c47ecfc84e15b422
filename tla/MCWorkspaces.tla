----------------------------- MODULE MCWorkspaces -----------------------------
(* Checks the workspaces, their layouts and what a launch restores of them. *)
EXTENDS Workspaces, TLC

Symmetry == Permutations(Panes) \cup Permutations(Spaces)

\* Expected to fail: the same of the menu of a pane.
MenusCloseTheirPane == [][MenuRuns /\ menu.kind = "pane" => Gone \subseteq TargetPanes]_spacesVars

\* Expected to fail: the menu of a tab that closes the tab takes a tab of the
\* workspace it was opened for off the screen, not only its programs' life.
MenusCloseTheirTab == [][MenuRuns /\ menu.kind = "tabs" => Current.id = menu.target]_spacesVars

\* Expected to fail: when no drag is under way, what drags moved is saved.
DragsAreSaved == moved => dragSpace # None \/ divider
=============================================================================
