---------------------------- MODULE ControlSocket ----------------------------
(***************************************************************************)
(* internal/api and the update loop behind it: connections to the control  *)
(* socket, requests that travel through the update loop and time out,      *)
(* pane.wait, subscriptions with bounded queues, and the busy state of     *)
(* panes that wait, the events and the finish notification are about.      *)
(*                                                                         *)
(* Connections are goroutines; the update loop handles one message at a    *)
(* time.  A request is taken by the loop (Take) and handled in a later     *)
(* step, since the time of its sender runs from the hand-over on.  What a  *)
(* pane shows is reduced to whether an agent works in it, and that changes *)
(* with its output, so that a redraw message follows.                      *)
(***************************************************************************)
EXTENDS Naturals, Sequences, FiniteSets

CONSTANTS
    Conns,         \* connections to the socket
    Listeners,     \* those whose client only subscribes
    Spaces,        \* directories a workspace may be opened for
    MaxPane,       \* bound: panes ever made; ids are never reused
    QueueCap,      \* cap of a subscriber's channel: 64 in the code
    Methods,       \* the methods clients call
    Actions,       \* action ids clients register
    Agents,        \* panes whose program is an agent; in others none ever works
    MaxRequests,   \* bound: requests a connection makes
    MaxTurns,      \* bound: times an agent starts working
    MaxUser,       \* bound: panes and workspaces the user or the programs close
    None

ASSUME ControlAssumption ==
    /\ Listeners \subseteq Conns /\ Agents \subseteq 1 .. MaxPane /\ QueueCap \in Nat \ {0} /\ MaxPane \in Nat \ {0}
    /\ {MaxRequests, MaxTurns, MaxUser} \subseteq Nat /\ None \notin Spaces

Panes == 1 .. MaxPane

VARIABLES
    spaces,     \* the directories of m.spaces
    selected,   \* m.spaces[m.selected], or None
    owner,      \* the workspace of each pane, None when it is not in the layout
    nextID,     \* m.nextID
    menus,      \* the action ids of m.customMenus
    running,    \* the panes whose program runs
    busy,       \* the panes whose screen or title says that an agent works
    redraw,     \* the panes with a paneUpdateMsg on its way
    turns,      \* times an agent started working
    closes,     \* closes by hand and exits
    wasBusy,    \* m.wasBusy
    soundSeq,   \* m.soundSeq
    confirms,   \* the soundConfirmMsg ticks that have not fired: pane and number
    unseen,     \* history: panes seen working whose finish was not acted upon
    ticking,    \* m.ticking
    pc,         \* what the goroutine of a connection is at
    request,    \* the request it works on
    requests,   \* requests it has read
    answered,   \* history: the request its last line answers
    reply,      \* the reply channel of its round trip
    late,       \* connections whose wait is past its deadline
    left,       \* connections whose client has gone
    hand,       \* the request the update loop has taken, or None
    sub         \* b.subs: whether a connection subscribed, and its queue

layout == <<spaces, selected, owner, nextID, menus>>
agents == <<running, busy, redraw, turns>>
finish == <<wasBusy, soundSeq, confirms, unseen, ticking>>
conns == <<pc, request, requests, answered, reply, late, left>>
uivars == <<layout, closes, agents, finish, sub>>
vars == <<uivars, conns, hand>>

NoSub == [on |-> FALSE, queue |-> <<>>]

Init ==
    /\ \E s \in Spaces : /\ spaces = {s} /\ selected = s
                         /\ owner = [p \in Panes |-> IF p = 1 THEN s ELSE None]
    /\ nextID = 2 /\ menus = {}
    /\ running = {1} /\ busy \in SUBSET (Agents \cap {1}) /\ redraw = busy /\ turns = 0 /\ closes = 0
    /\ wasBusy = {} /\ soundSeq = [p \in Panes |-> 0] /\ confirms = {}
    /\ unseen = {} /\ ticking = FALSE
    /\ pc = [c \in Conns |-> "read"] /\ request = [c \in Conns |-> None]
    /\ requests = [c \in Conns |-> 0] /\ answered = [c \in Conns |-> 0]
    /\ reply = [c \in Conns |-> <<>>] /\ late = {} /\ left = {} /\ hand = None
    /\ sub = [c \in Conns |-> NoSub]

Open(p) == owner[p] # None
Shown == {p \in Panes : Open(p)}

\* What the agent reports, its title or its screen says.
TitleState(p) == IF p \in Agents /\ p \in busy THEN "working" ELSE ""
PaneBusy(p) == p \in running /\ TitleState(p) = "working"

-----------------------------------------------------------------------------
(* Broadcaster.                                                            *)

\* What a subscriber's channel takes of a sequence of events.
Queued(q) == IF Len(q) <= QueueCap THEN q ELSE SubSeq(q, 1, QueueCap)
Offer(c, es) == IF sub[c].on THEN [sub[c] EXCEPT !.queue = Queued(@ \o es)] ELSE sub[c]

\* Mutant of Publish: the loop ends once an event was delivered.
PublishOnce(es) ==
    \/ /\ \A c \in Conns : ~sub[c].on \/ Len(sub[c].queue) = QueueCap
       /\ UNCHANGED sub
    \/ \E c \in Conns : /\ sub[c].on /\ Len(sub[c].queue) < QueueCap
                        /\ sub' = [sub EXCEPT ![c] = Offer(c, es)]

\* Publish never blocks: what finds a queue full is dropped for that subscriber.
Publish(es) == sub' = [c \in Conns |-> Offer(c, es)]

Event(name, what) == [event |-> name, of |-> what]

-----------------------------------------------------------------------------
(* The busy state of panes, its events and the finish notification.        *)

\* The panes of ps as a sequence, in the order they were opened.
InTurn(ps) ==
    [k \in 1 .. Cardinality(ps) |-> CHOOSE p \in ps : Cardinality({q \in ps : q < p}) = k - 1]

\* trackBusy for the panes of ps, in turn.  The number of a confirmation
\* makes an older one of the same pane void.
TrackBusy(ps) ==
    LET starts == {p \in ps : PaneBusy(p) /\ p \notin wasBusy}
        stops == {p \in ps : ~PaneBusy(p) /\ p \in wasBusy}
        changed == InTurn(starts \cup stops)
    IN  /\ soundSeq' = [p \in Panes |-> IF p \in starts \cup stops THEN soundSeq[p] + 1 ELSE soundSeq[p]]
        /\ wasBusy' = (wasBusy \cup starts) \ stops
        /\ confirms' = confirms \cup {<<p, soundSeq[p] + 1>> : p \in stops}
        /\ unseen' = unseen \cup starts
        /\ Publish([k \in DOMAIN changed |->
                          Event("pane.busy_changed", <<changed[k], changed[k] \in starts>>)])

\* paneUpdateMsg of an open channel: the spinner starts when anything works.
PaneUpdate(p) ==
    /\ p \in redraw /\ redraw' = redraw \ {p}
    /\ IF Open(p)
       THEN /\ ticking' = (ticking \/ \E q \in Shown : PaneBusy(q))
            /\ TrackBusy({p})
       ELSE UNCHANGED <<finish, sub>>
    /\ UNCHANGED <<layout, closes, running, busy, turns, conns, hand>>

\* spinTickMsg.
SpinTick ==
    /\ ticking /\ ticking' = \E q \in Shown : PaneBusy(q)
    /\ TrackBusy(Shown)
    /\ UNCHANGED <<layout, closes, agents, conns, hand>>

\* Mutant of ConfirmBusy: the pause is not taken back.
ConfirmForgets(p) == UNCHANGED <<wasBusy, unseen>>

\* The pause was a gap in the redraw of a turn that goes on; no event says so.
ConfirmBusy(p) == wasBusy' = wasBusy \cup {p} /\ unseen' = unseen \cup {p}

\* soundConfirmMsg: attention, sound and notification, unless work goes on.
Confirm(p) ==
    /\ \E n \in {x[2] : x \in confirms} :
        /\ <<p, n>> \in confirms /\ confirms' = confirms \ {<<p, n>>}
        /\ CASE n # soundSeq[p] \/ ~Open(p) -> UNCHANGED <<wasBusy, unseen>>
             [] n = soundSeq[p] /\ Open(p) /\ PaneBusy(p) -> ConfirmBusy(p)
             [] OTHER -> unseen' = unseen \ {p} /\ UNCHANGED wasBusy
    /\ UNCHANGED <<layout, closes, agents, soundSeq, ticking, sub, conns, hand>>

-----------------------------------------------------------------------------
(* Programs, and what the user does to panes.                              *)

\* startPane's message: the program of a pane runs.
PaneRuns(p) ==
    /\ Open(p) /\ p \notin running /\ running' = running \cup {p}
    /\ UNCHANGED <<layout, closes, busy, redraw, turns, finish, sub, conns, hand>>

\* An agent starts a turn, pauses or ends it; both show in its output.
AgentWorks(p) ==
    /\ p \in (Agents \cap running) \ busy /\ turns < MaxTurns
    /\ busy' = busy \cup {p} /\ turns' = turns + 1 /\ redraw' = redraw \cup {p}
    /\ UNCHANGED <<layout, closes, running, finish, sub, conns, hand>>

AgentPauses(p) ==
    /\ p \in running \cap busy
    /\ busy' = busy \ {p} /\ redraw' = redraw \cup {p}
    /\ UNCHANGED <<layout, closes, running, turns, finish, sub, conns, hand>>

\* Mutant of Forget: the busy state of a closed pane is kept.
ForgetKeepsBusy(ps) ==
    /\ owner' = [p \in Panes |-> IF p \in ps THEN None ELSE owner[p]]
    /\ running' = running \ ps /\ busy' = busy \ ps
    /\ UNCHANGED <<redraw, turns, finish, nextID, menus>>

\* The panes of ps leave the layout, and with them what is known of them.
Forget(ps) ==
    /\ owner' = [p \in Panes |-> IF p \in ps THEN None ELSE owner[p]]
    /\ running' = running \ ps /\ busy' = busy \ ps
    /\ wasBusy' = wasBusy \ ps /\ unseen' = unseen \ ps
    /\ soundSeq' = [p \in Panes |-> IF p \in ps THEN 0 ELSE soundSeq[p]]
    /\ UNCHANGED <<redraw, turns, confirms, ticking, nextID, menus>>

\* removePane: a workspace may be left without panes.
ClosePane(p) == Open(p) /\ Forget({p}) /\ UNCHANGED <<spaces, selected>>

\* closeCurrentSpace, after it was selected: a neighbour is selected.
CloseSpace(s) ==
    /\ s \in spaces /\ spaces' = spaces \ {s}
    /\ selected' \in IF spaces' = {} THEN {None} ELSE spaces'
    /\ Forget({p \in Panes : owner[p] = s})

\* newPane: its program is started by a command of its own.
AddPane(s) ==
    /\ nextID \in Panes /\ nextID' = nextID + 1
    /\ owner' = [owner EXCEPT ![nextID] = s]
    /\ UNCHANGED <<menus, agents, finish>>

\* By hand, or because a program ends: the same, and no event.
UserCloses ==
    /\ closes < MaxUser /\ closes' = closes + 1
    /\ (\E p \in Panes : ClosePane(p)) \/ (\E s \in Spaces : CloseSpace(s))
    /\ UNCHANGED <<sub, conns, hand>>

UserAddsPane ==
    /\ closes < MaxUser /\ closes' = closes + 1
    /\ selected # None /\ AddPane(selected)
    /\ UNCHANGED <<spaces, selected, sub, conns, hand>>

\* A menu entry that a client registered is chosen.
UserPicksMenu(a) ==
    /\ closes < MaxUser /\ closes' = closes + 1
    /\ a \in menus /\ Publish(<<Event("menu.action", <<a>>)>>)
    /\ UNCHANGED <<layout, agents, finish, conns, hand>>

-----------------------------------------------------------------------------
(* handleAPI: the requests as the update loop carries them out.            *)

\* Mutant of Answer: one reply channel per connection.
AnswerShared(code) ==
    reply' = IF reply[hand.conn] = <<>>
             THEN [reply EXCEPT ![hand.conn] = <<[of |-> hand.of, code |-> code]>>]
             ELSE reply

\* Every round trip has a channel of its own: an answer nobody waits for any
\* more goes nowhere.
Answer(code) ==
    reply' = IF hand.stale THEN reply
             ELSE [reply EXCEPT ![hand.conn] = <<[of |-> hand.of, code |-> code]>>]

Unchanged == UNCHANGED <<layout, agents, finish, sub>>
Refuse(code) == Answer(code) /\ Unchanged

\* status, group.list, plugins.status, pane.read of an open pane.
DoQuery(ask) ==
    /\ ask.method = "status" /\ Answer("ok") /\ Unchanged

\* pane.busy, which pane.wait polls.
DoBusy(ask) ==
    /\ ask.method = "pane.wait"
    /\ IF ~Open(ask.pane) THEN Refuse("not_found")
       ELSE Answer(IF PaneBusy(ask.pane) THEN "busy" ELSE "idle") /\ Unchanged

DoSendText(ask) ==
    /\ ask.method = "pane.send_text"
    /\ Refuse(IF ~Open(ask.pane) THEN "not_found" ELSE IF ask.pane \notin running THEN "error" ELSE "ok")

\* registerMenu; an invalid or surplus entry is refused.
DoRegisterMenu(ask) ==
    /\ ask.method = "menu.register"
    /\ \/ Refuse("invalid_params")
       \/ /\ \E a \in Actions : menus' = menus \cup {a}
          /\ Answer("ok")
          /\ UNCHANGED <<spaces, selected, owner, nextID, agents, finish, sub>>

DoWorkspaceCreate(ask) ==
    /\ ask.method = "workspace.create"
    /\ IF ask.space \in spaces THEN Refuse("error")
       ELSE /\ AddPane(ask.space)
            /\ spaces' = spaces \cup {ask.space} /\ selected' = ask.space
            /\ Answer("ok")
            /\ Publish(<<Event("workspace.created", <<ask.space>>), Event("pane.created", <<nextID>>)>>)

DoWorkspaceMove(ask) ==
    /\ ask.method = "workspace.move"
    /\ IF ask.space \notin spaces THEN Refuse("not_found")
       ELSE /\ Answer("ok") /\ Publish(<<Event("workspace.moved", <<ask.space>>)>>)
            /\ UNCHANGED <<layout, agents, finish>>

DoWorkspaceClose(ask) ==
    /\ ask.method = "workspace.close"
    /\ IF ask.space \notin spaces THEN Refuse("not_found")
       ELSE CloseSpace(ask.space) /\ Answer("ok") /\ Publish(<<Event("workspace.closed", <<ask.space>>)>>)

\* The workspace is selected before the rest of the request is looked at.
DoPaneCreate(ask) ==
    /\ ask.method = "pane.create"
    /\ IF ask.space \notin spaces THEN Refuse("not_found")
       ELSE /\ selected' = ask.space /\ UNCHANGED spaces
            /\ \/ /\ Answer("invalid_params")
                  /\ UNCHANGED <<owner, nextID, menus, agents, finish, sub>>
               \/ /\ AddPane(ask.space)
                  /\ Answer("ok") /\ Publish(<<Event("pane.created", <<nextID>>)>>)

DoPaneClose(ask) ==
    /\ ask.method = "pane.close"
    /\ IF ~Open(ask.pane) THEN Refuse("not_found")
       ELSE /\ Forget({ask.pane}) /\ selected' = owner[ask.pane] /\ UNCHANGED spaces
            /\ Answer("ok") /\ Publish(<<Event("pane.closed", <<ask.pane>>)>>)

Handle ==
    /\ hand # None /\ hand' = None
    /\ LET ask == hand.ask IN
       \/ DoQuery(ask) \/ DoBusy(ask) \/ DoSendText(ask) \/ DoRegisterMenu(ask)
       \/ DoWorkspaceCreate(ask) \/ DoWorkspaceMove(ask) \/ DoWorkspaceClose(ask)
       \/ DoPaneCreate(ask) \/ DoPaneClose(ask)
    /\ UNCHANGED <<closes, pc, request, requests, answered, late, left>>

-----------------------------------------------------------------------------
(* A connection: serve, dispatch, roundTrip, waitForState.                 *)

Asks ==
    [method : Methods \cap {"status", "menu.register"}]
    \cup [method : Methods \cap {"workspace.create", "workspace.move", "workspace.close", "pane.create"},
          space : Spaces]
    \cup [method : Methods \cap {"pane.close", "pane.send_text"}, pane : Panes]
    \cup [method : Methods \cap {"pane.wait"}, pane : Panes, until : {"busy", "idle"}]

\* The line is written for nobody when the client has gone.
Writes(c, n) ==
    /\ answered' = [answered EXCEPT ![c] = n]
    /\ pc' = [pc EXCEPT ![c] = "read"]
    /\ request' = [request EXCEPT ![c] = None]
    /\ late' = late \ {c}

\* Reading a line.  What cannot be decoded, an unknown method and a ping are
\* answered at once; a subscription is registered and acknowledged.
ReadRequest(c) ==
    /\ pc[c] = "read" /\ c \notin left /\ requests[c] < MaxRequests
    /\ requests' = [requests EXCEPT ![c] = @ + 1]
    /\ \/ c \notin Listeners /\ Writes(c, requests[c] + 1) /\ UNCHANGED sub
       \/ /\ pc' = [pc EXCEPT ![c] = "subscribed"]
          /\ sub' = [sub EXCEPT ![c] = [NoSub EXCEPT !.on = TRUE]]
          /\ UNCHANGED <<request, answered, late>>
       \/ /\ c \notin Listeners
          /\ \E ask \in Asks : request' = [request EXCEPT ![c] = ask]
          /\ pc' = [pc EXCEPT ![c] = "send"]
          /\ UNCHANGED <<answered, sub, late>>
    /\ UNCHANGED <<layout, closes, agents, finish, reply, left, hand>>

\* program.Send hands the request over when the update loop is free.
Take(c) ==
    /\ pc[c] = "send" /\ hand = None
    /\ hand' = [conn |-> c, ask |-> request[c], of |-> requests[c], stale |-> FALSE]
    /\ pc' = [pc EXCEPT ![c] = "await"]
    /\ UNCHANGED <<uivars, request, requests, answered, reply, late, left>>

\* The answer is there; a wait that has not seen its state polls again until
\* its deadline.
Receive(c) ==
    /\ pc[c] = "await" /\ reply[c] # <<>>
    /\ reply' = [reply EXCEPT ![c] = <<>>]
    /\ LET r == reply[c][1]
           waits == /\ request[c].method = "pane.wait"
                    /\ r.code \in {"busy", "idle"} \ {request[c].until}
       IN  IF waits /\ c \notin late
           THEN pc' = [pc EXCEPT ![c] = "sleep"] /\ UNCHANGED <<answered, request, late>>
           ELSE Writes(c, r.of)
    /\ UNCHANGED <<uivars, requests, left, hand>>

\* Five seconds without an answer; what the loop still does is lost.
TimesOut(c) ==
    /\ pc[c] = "await" /\ Writes(c, requests[c])
    /\ reply' = [reply EXCEPT ![c] = <<>>]
    /\ hand' = IF hand # None /\ hand.conn = c THEN [hand EXCEPT !.stale = TRUE] ELSE hand
    /\ UNCHANGED <<uivars, requests, left>>

\* Mutant of Poll: the wait starts over, with its deadline.
PollAnew(c) == late' = late \ {c}

Poll(c) == UNCHANGED late

PollAgain(c) ==
    /\ pc[c] = "sleep" /\ pc' = [pc EXCEPT ![c] = "send"] /\ Poll(c)
    /\ UNCHANGED <<uivars, request, requests, answered, reply, left, hand>>

DeadlinePasses(c) ==
    /\ pc[c] \in {"send", "await", "sleep"} /\ request[c].method = "pane.wait"
    /\ c \notin late /\ late' = late \cup {c}
    /\ UNCHANGED <<uivars, pc, request, requests, answered, reply, left, hand>>

\* serveSubscription pushes the next event.
Push(c) ==
    /\ pc[c] = "subscribed" /\ sub[c].queue # <<>> /\ c \notin left
    /\ sub' = [sub EXCEPT ![c].queue = Tail(@)]
    /\ UNCHANGED <<layout, closes, agents, finish, conns, hand>>

ClientLeaves(c) ==
    /\ c \notin left /\ left' = left \cup {c}
    /\ UNCHANGED <<uivars, pc, request, requests, answered, reply, late, hand>>

\* The scanner, or the goroutine that reads behind a subscription, finds the
\* client gone: Unsubscribe.
ServeEnds(c) ==
    /\ c \in left /\ pc[c] \in {"read", "subscribed"}
    /\ pc' = [pc EXCEPT ![c] = "gone"]
    /\ sub' = [sub EXCEPT ![c] = NoSub]
    /\ UNCHANGED <<layout, closes, agents, finish, request, requests, answered, reply, late, left, hand>>

-----------------------------------------------------------------------------
ConnStep(c) == Take(c) \/ Receive(c) \/ TimesOut(c) \/ PollAgain(c) \/ Push(c) \/ ServeEnds(c)

Next ==
    \/ \E p \in Panes : PaneRuns(p) \/ AgentWorks(p) \/ AgentPauses(p) \/ PaneUpdate(p) \/ Confirm(p)
    \/ SpinTick \/ UserCloses \/ UserAddsPane \/ Handle
    \/ \E a \in Actions : UserPicksMenu(a)
    \/ \E c \in Conns : \/ ConnStep(c) \/ ReadRequest(c) \/ DeadlinePasses(c) \/ ClientLeaves(c)

\* The goroutine of a connection, the clock and the update loop go on; Take
\* competes for the loop with others that come back.
Fairness ==
    /\ WF_vars(Handle)
    /\ \A c \in Conns : /\ WF_vars(ConnStep(c)) /\ SF_vars(Take(c))
                        /\ WF_vars(DeadlinePasses(c))
    /\ \A p \in Panes : WF_vars(PaneUpdate(p)) /\ WF_vars(Confirm(p))

Spec == Init /\ [][Next]_vars /\ Fairness
-----------------------------------------------------------------------------
\* A client that asks, times out and asks again never takes the late answer to
\* the first question for one to the second (server.go:230).
AnswersOwnRequest ==
    \A c \in Conns : pc[c] = "read" => answered[c] = requests[c]

Room(c) == sub[c].on /\ Len(sub[c].queue) < QueueCap
Grows(c) == Len(sub'[c].queue) > Len(sub[c].queue)

\* An event that reaches one subscriber reaches every other that has room for
\* it, however slow some are (api.go:291).
NoNeedlessLoss == [][\A c, d \in Conns : Grows(d) /\ Room(c) => Grows(c)]_vars
=============================================================================
