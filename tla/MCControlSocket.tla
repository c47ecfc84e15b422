--------------------------- MODULE MCControlSocket ---------------------------
(* Checks the control socket: what clients are answered and told.          *)
EXTENDS ControlSocket

-----------------------------------------------------------------------------
TypeOK ==
    /\ spaces \subseteq Spaces /\ selected \in spaces \cup {None}
    /\ owner \in [Panes -> spaces \cup {None}] /\ nextID \in 1 .. MaxPane + 1
    /\ running \subseteq Shown /\ busy \subseteq running /\ wasBusy \subseteq Shown
    /\ soundSeq \in [Panes -> Nat] /\ confirms \subseteq Panes \X Nat
    /\ pc \in [Conns -> {"read", "send", "await", "sleep", "subscribed", "gone"}]
    /\ hand = None \/ hand.conn \in Conns
    /\ \A c \in Conns : Len(sub[c].queue) <= QueueCap /\ Len(reply[c]) <= 1

\* Every request is answered, a wait at its deadline at the latest, and a
\* connection whose client has gone ends, in a subscription too (server.go:241,
\* 289).
ConnectionsMoveOn ==
    \A c \in Conns : /\ pc[c] \in {"send", "await", "sleep"} ~> pc[c] \in {"read", "gone"}
                     /\ c \in left ~> pc[c] = "gone" /\ ~sub[c].on

\* The finish of every turn the UI has seen is acted upon once the agent stays
\* idle, whatever pauses and redraws come before (model.go:1110).
FinishNoticed ==
    \A p \in Panes : (p \in unseen /\ ~PaneBusy(p)) ~> (p \notin unseen \/ PaneBusy(p))

\* Expected to fail: a subscriber with room is told when the UI changes its
\* mind about whether the agent of a pane works (model.go:421, "notifies API
\* subscribers of the state change").
BusyAnnounced ==
    [][\A p \in Panes, c \in Conns :
          owner'[p] # None /\ (p \in wasBusy) # (p \in wasBusy') /\ Room(c) => Grows(c)]_vars
=============================================================================
