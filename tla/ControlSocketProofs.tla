------------------------- MODULE ControlSocketProofs -------------------------
(***************************************************************************)
(* The control socket answers every request with its own answer, and an    *)
(* event that one subscriber gets reaches all that have room for it, for   *)
(* any number of connections, panes and requests.                          *)
(*                                                                         *)
(* A reply channel and a request in the hands of the update loop exclude    *)
(* each other, and both are of the request the connection works on, until  *)
(* the connection stops waiting: that makes what the loop holds stale.      *)
(***************************************************************************)
EXTENDS ControlSocket, FiniteSetTheorems, SequenceTheorems, TLAPS

Pcs == {"read", "send", "await", "sleep", "subscribed", "gone"}
Codes == {"ok", "error", "not_found", "invalid_params", "busy", "idle"}

ConnTypes ==
    /\ pc \in [Conns -> Pcs] /\ request \in [Conns -> Asks \cup {None}]
    /\ requests \in [Conns -> Nat] /\ answered \in [Conns -> Nat]
    /\ reply \in [Conns -> Seq([of : Nat, code : Codes])]
    /\ hand # None => hand \in [conn : Conns, ask : Asks \cup {None}, of : Nat, stale : BOOLEAN]

HandInv ==
    (hand # None /\ ~hand.stale) => /\ pc[hand.conn] = "await" /\ hand.of = requests[hand.conn]
                                    /\ reply[hand.conn] = <<>>

ReplyInv ==
    \A c \in Conns : reply[c] # <<>> => pc[c] = "await" /\ reply[c] # <<>> /\ reply[c][1].of = requests[c]

SocketInv == ConnTypes /\ HandInv /\ ReplyInv /\ AnswersOwnRequest

LEMMA InitSocketInv == Init => SocketInv
<1> SUFFICES ASSUME Init PROVE SocketInv
  OBVIOUS
<1>1. ConnTypes
  <2>1. reply \in [Conns -> Seq([of : Nat, code : Codes])]
    BY DEF Init
  <2> QED
    BY <2>1 DEF Init, ConnTypes, Pcs
<1> QED
  BY <1>1 DEF Init, SocketInv, HandInv, ReplyInv, AnswersOwnRequest

\* The handlers of the update loop answer, and do nothing else to connections.
LEMMA HandleAnswers == Handle => \E code \in Codes : Answer(code)
  BY DEF Handle, DoQuery, DoBusy, DoSendText, DoRegisterMenu, DoWorkspaceCreate, DoWorkspaceMove, DoWorkspaceClose,
         DoPaneCreate, DoPaneClose, Refuse, Codes

LEMMA HandleInv == ASSUME SocketInv, Handle PROVE SocketInv'
<1> USE DEF SocketInv
<1>1. hand # None /\ hand' = None /\ UNCHANGED <<pc, request, requests, answered>>
  BY DEF Handle
<1>2. PICK code \in Codes : Answer(code)
  BY HandleAnswers
<1>3. hand \in [conn : Conns, ask : Asks \cup {None}, of : Nat, stale : BOOLEAN]
  BY <1>1 DEF ConnTypes
<1>4. CASE hand.stale
  BY <1>1, <1>2, <1>4 DEF Answer, ConnTypes, HandInv, ReplyInv, AnswersOwnRequest
<1>5. CASE ~hand.stale
  <2> DEFINE line == <<[of |-> hand.of, code |-> code]>>
  <2>1. line \in Seq([of : Nat, code : Codes]) /\ line # <<>> /\ line[1].of = requests[hand.conn]
        /\ pc[hand.conn] = "await"
    BY <1>1, <1>3, <1>5 DEF HandInv
  <2>2. reply' = [reply EXCEPT ![hand.conn] = line]
    BY <1>2, <1>5 DEF Answer
  <2> HIDE DEF line
  <2> QED
    BY <1>1, <1>3, <2>1, <2>2 DEF ConnTypes, HandInv, ReplyInv, AnswersOwnRequest
<1> QED
  BY <1>4, <1>5

LEMMA ConnectionInv ==
  ASSUME SocketInv, NEW c \in Conns, ConnStep(c) \/ ReadRequest(c) \/ DeadlinePasses(c) \/ ClientLeaves(c)
  PROVE  SocketInv'
<1> USE DEF SocketInv
<1>1. CASE Take(c)
  <2>1. /\ hand' = [conn |-> c, ask |-> request[c], of |-> requests[c], stale |-> FALSE]
        /\ hand' \in [conn : Conns, ask : Asks \cup {None}, of : Nat, stale : BOOLEAN]
    BY <1>1 DEF Take, ConnTypes
  <2>2. hand'.conn = c /\ hand'.of = requests[c]
    BY <2>1
  <2> QED
    BY <1>1, <2>1, <2>2 DEF Take, ConnTypes, Pcs, HandInv, ReplyInv, AnswersOwnRequest
<1>2. CASE Receive(c)
  <2>1. reply' = [reply EXCEPT ![c] = <<>>] /\ reply[c][1].of = requests[c] /\ UNCHANGED <<requests, hand>>
        /\ pc[c] = "await" /\ reply[c] # <<>>
    BY <1>2 DEF Receive, ReplyInv
  <2>2. <<>> \in Seq([of : Nat, code : Codes])
    OBVIOUS
  <2>3. hand # None /\ ~hand.stale => hand.conn # c
    BY <2>1 DEF HandInv
  <2>4. CASE pc' = [pc EXCEPT ![c] = "sleep"] /\ UNCHANGED <<answered, request>>
    BY <2>1, <2>2, <2>3, <2>4 DEF ConnTypes, Pcs, HandInv, ReplyInv, AnswersOwnRequest
  <2>5. CASE Writes(c, reply[c][1].of)
    BY <2>1, <2>2, <2>3, <2>5, ZenonT(30) DEF Writes, ConnTypes, Pcs, HandInv, ReplyInv, AnswersOwnRequest
  <2> QED
    BY <1>2, <2>4, <2>5 DEF Receive
<1>3. CASE TimesOut(c)
  <2>1. reply' = [reply EXCEPT ![c] = <<>>] /\ UNCHANGED requests /\ Writes(c, requests[c])
    BY <1>3 DEF TimesOut
  <2>2. <<>> \in Seq([of : Nat, code : Codes])
    OBVIOUS
  <2>3. \/ hand' = hand /\ (hand # None => hand.conn # c)
        \/ hand # None /\ hand.conn = c /\ hand' = [hand EXCEPT !.stale = TRUE]
    BY <1>3 DEF TimesOut
  <2>4. hand # None => [hand EXCEPT !.stale = TRUE] \in [conn : Conns, ask : Asks \cup {None}, of : Nat, stale : BOOLEAN]
                       /\ [hand EXCEPT !.stale = TRUE].stale
    BY DEF ConnTypes
  <2>5. ConnTypes'
    BY <2>1, <2>2, <2>3, <2>4 DEF ConnTypes, Writes, Pcs
  <2>6. HandInv'
    BY <2>1, <2>3, <2>4 DEF ConnTypes, Writes, Pcs, HandInv
  <2> QED
    BY <2>1, <2>5, <2>6 DEF ConnTypes, Writes, ReplyInv, AnswersOwnRequest
<1>4. CASE PollAgain(c)
  BY <1>4 DEF PollAgain, ConnTypes, Pcs, HandInv, ReplyInv, AnswersOwnRequest
<1>5. CASE Push(c) \/ DeadlinePasses(c) \/ ClientLeaves(c)
  BY <1>5 DEF Push, DeadlinePasses, ClientLeaves, conns, ConnTypes, HandInv, ReplyInv, AnswersOwnRequest
<1>6. CASE ServeEnds(c)
  BY <1>6 DEF ServeEnds, ConnTypes, Pcs, HandInv, ReplyInv, AnswersOwnRequest
<1>7. CASE ReadRequest(c)
  <2>1. /\ pc[c] = "read" /\ requests' = [requests EXCEPT ![c] = requests[c] + 1] /\ requests[c] + 1 \in Nat
        /\ UNCHANGED <<reply, hand>>
    BY <1>7 DEF ReadRequest, ConnTypes
  <2>2. reply[c] = <<>> /\ (hand # None /\ ~hand.stale => hand.conn # c)
    BY <2>1 DEF ReplyInv, HandInv
  <2>3. CASE Writes(c, requests[c] + 1)
    BY <2>1, <2>2, <2>3 DEF Writes, ConnTypes, Pcs, HandInv, ReplyInv, AnswersOwnRequest
  <2>4. CASE /\ pc' = [pc EXCEPT ![c] = "subscribed"] \/ pc' = [pc EXCEPT ![c] = "send"]
             /\ request' = request \/ \E ask \in Asks : request' = [request EXCEPT ![c] = ask]
             /\ answered' = answered
    <3>1. ConnTypes'
      <4>1. pc' \in [Conns -> Pcs]
        BY <2>4 DEF ConnTypes, Pcs
      <4>2. request' \in [Conns -> Asks \cup {None}]
        BY <2>4, ZenonT(30) DEF ConnTypes
      <4>3. requests' \in [Conns -> Nat]
        BY <2>1 DEF ConnTypes
      <4> QED
        BY <2>1, <2>4, <4>1, <4>2, <4>3 DEF ConnTypes
    <3>2. \A d \in Conns : d # c => pc'[d] = pc[d] /\ requests'[d] = requests[d]
      BY <2>1, <2>4 DEF ConnTypes
    <3>3. pc'[c] # "read"
      BY <2>4 DEF ConnTypes
    <3>4. HandInv' /\ ReplyInv'
      BY <2>1, <2>2, <3>2 DEF ConnTypes, HandInv, ReplyInv
    <3> QED
      BY <2>4, <3>1, <3>2, <3>3, <3>4 DEF AnswersOwnRequest
  <2> QED
    BY <1>7, <2>3, <2>4 DEF ReadRequest
<1> QED
  BY <1>1, <1>2, <1>3, <1>4, <1>5, <1>6, <1>7 DEF ConnStep

LEMMA StepSocketInv == SocketInv /\ [Next]_vars => SocketInv'
<1> SUFFICES ASSUME SocketInv, [Next]_vars PROVE SocketInv'
  OBVIOUS
<1>1. ASSUME UNCHANGED <<conns, hand>> PROVE SocketInv'
  BY <1>1 DEF conns, SocketInv, ConnTypes, HandInv, ReplyInv, AnswersOwnRequest
<1>2. ASSUME NEW p \in Panes, PaneRuns(p) \/ AgentWorks(p) \/ AgentPauses(p) \/ PaneUpdate(p) \/ Confirm(p)
      PROVE  UNCHANGED <<conns, hand>>
  BY <1>2 DEF PaneRuns, AgentWorks, AgentPauses, PaneUpdate, Confirm
<1>3. CASE SpinTick \/ UserCloses \/ UserAddsPane \/ \E a \in Actions : UserPicksMenu(a)
  BY <1>1, <1>3 DEF SpinTick, UserCloses, UserAddsPane, UserPicksMenu
<1>4. CASE UNCHANGED vars
  BY <1>1, <1>4 DEF vars
<1> QED
  BY <1>1, <1>2, <1>3, <1>4, HandleInv, ConnectionInv DEF Next

\* A client never takes the answer to one request for that to another.
THEOREM AnswersAreOwn == Spec => []AnswersOwnRequest
<1>1. SocketInv => AnswersOwnRequest
  BY DEF SocketInv
<1> QED
  BY <1>1, InitSocketInv, StepSocketInv, PTL DEF Spec

-----------------------------------------------------------------------------
(* Losses of events.  Every handler publishes one sequence of events and    *)
(* touches no queue otherwise; what matters of that sequence is its length, *)
(* the same for all that subscribe.                                         *)

IsSeq(q) == q \in Seq({q[i] : i \in DOMAIN q})

\* Every subscriber's channel holds no more than its cap.
QueueInv ==
    /\ sub = [c \in Conns |-> [on |-> sub[c].on, queue |-> sub[c].queue]]
    /\ \A c \in Conns : IsSeq(sub[c].queue) /\ Len(sub[c].queue) <= QueueCap

Loses == \E c, d \in Conns : Grows(d) /\ Room(c) /\ ~Grows(c)

LEMMA SeqIsSeq == ASSUME NEW T, NEW q \in Seq(T) PROVE IsSeq(q) /\ Len(q) \in Nat
  BY DEF IsSeq

\* What a queue becomes by a sequence of events depends on lengths alone.
LEMMA QueuedLength ==
  ASSUME NEW q, NEW es, IsSeq(q), IsSeq(es), Len(q) <= QueueCap
  PROVE  /\ IsSeq(Queued(q \o es)) /\ Len(Queued(q \o es)) <= QueueCap
         /\ Len(q) \in Nat /\ Len(es) \in Nat
         /\ Len(Queued(q \o es)) > Len(q) <=> Len(q) < QueueCap /\ Len(es) > 0
<1> DEFINE T == {q[i] : i \in DOMAIN q} \cup {es[i] : i \in DOMAIN es}
           r == q \o es
<1>1. q \in Seq(T) /\ es \in Seq(T)
  BY SeqMonotonic DEF IsSeq
<1> HIDE DEF T
<1>2. r \in Seq(T) /\ Len(r) = Len(q) + Len(es) /\ Len(q) \in Nat /\ Len(es) \in Nat
  BY <1>1, ConcatProperties
<1>3. QueueCap \in Nat \ {0}
  BY ControlAssumption
<1> HIDE DEF r
<1> DEFINE y == Queued(r)
           Goal == IsSeq(y) /\ Len(y) <= QueueCap /\ (Len(y) > Len(q) <=> Len(q) < QueueCap /\ Len(es) > 0)
<1>4. ASSUME Len(r) <= QueueCap PROVE Goal
  <2>1. y = r /\ IsSeq(r)
    BY <1>2, <1>4, SeqIsSeq DEF Queued
  <2> HIDE DEF y
  <2> QED
    BY <1>2, <1>3, <1>4, <2>1
<1>5. ASSUME ~(Len(r) <= QueueCap) PROVE Goal
  <2>1. SubSeq(r, 1, QueueCap) \in Seq(T) /\ Len(SubSeq(r, 1, QueueCap)) = QueueCap
    BY <1>2, <1>3, <1>5, SubSeqProperties
  <2>2. y = SubSeq(r, 1, QueueCap) /\ IsSeq(y) /\ Len(y) = QueueCap
    BY <1>5, <2>1, SeqIsSeq DEF Queued
  <2> HIDE DEF y
  <2> QED
    BY <1>2, <1>3, <1>5, <2>2
<1> QED
  BY <1>2, <1>4, <1>5 DEF r

LEMMA PublishLosesNothing ==
  ASSUME QueueInv, NEW es, IsSeq(es), Publish(es)
  PROVE  QueueInv' /\ ~Loses
<1>1. ASSUME NEW c \in Conns
      PROVE  /\ sub'[c] = [on |-> sub[c].on, queue |-> sub'[c].queue]
             /\ IsSeq(sub'[c].queue) /\ Len(sub'[c].queue) <= QueueCap
             /\ Grows(c) <=> Room(c) /\ Len(es) > 0
  <2> DEFINE q == sub[c].queue
  <2>1. IsSeq(q) /\ Len(q) <= QueueCap /\ sub[c] = [on |-> sub[c].on, queue |-> q]
    BY DEF QueueInv
  <2>2. sub'[c] = IF sub[c].on THEN [on |-> sub[c].on, queue |-> Queued(q \o es)] ELSE sub[c]
    BY <2>1 DEF Publish, Offer
  <2>3. Len(q) \in Nat
    BY <2>1 DEF IsSeq
  <2> HIDE DEF q
  <2> QED
    BY <2>1, <2>2, <2>3, QueuedLength DEF Grows, Room, q
<1>2. sub' = [c \in Conns |-> sub'[c]]
  BY DEF Publish
<1>3. QueueInv'
  <2>1. sub' = [c \in Conns |-> [on |-> sub'[c].on, queue |-> sub'[c].queue]]
    <3>1. ASSUME NEW c \in Conns PROVE sub'[c] = [on |-> sub'[c].on, queue |-> sub'[c].queue]
      <4>1. PICK on, q : sub'[c] = [on |-> on, queue |-> q]
        BY <1>1
      <4> QED
        BY <4>1
    <3> QED
      BY <1>2, <3>1
  <2> QED
    BY <1>1, <2>1 DEF QueueInv
<1> QED
  BY <1>1, <1>3 DEF Loses

LEMMA QuietLosesNothing == ASSUME QueueInv, UNCHANGED sub PROVE QueueInv' /\ ~Loses
<1>1. \A c \in Conns : Len(sub[c].queue) \in Nat
  BY DEF QueueInv, IsSeq
<1>2. QueueInv'
  BY DEF QueueInv
<1> QED
  BY <1>1, <1>2 DEF Loses, Grows

\* A connection only shortens a queue, and only its own.
LEMMA ShrinkLosesNothing ==
  ASSUME QueueInv, NEW c \in Conns, NEW on, NEW q, IsSeq(q), Len(q) <= Len(sub[c].queue),
         sub' = [sub EXCEPT ![c] = [on |-> on, queue |-> q]]
  PROVE  QueueInv' /\ ~Loses
<1> DEFINE x == [on |-> on, queue |-> q]
<1>1. \A d \in Conns : Len(sub[d].queue) \in Nat
  BY DEF QueueInv, IsSeq
<1>2. /\ Len(q) \in Nat /\ QueueCap \in Nat
      /\ x = [on |-> x.on, queue |-> x.queue] /\ x.queue = q
  BY ControlAssumption DEF IsSeq
<1>3. sub' = [sub EXCEPT ![c] = x]
  OBVIOUS
<1> HIDE DEF x
<1>4. \A d \in Conns : sub'[d] = IF d = c THEN x ELSE sub[d]
  BY <1>3 DEF QueueInv
<1>5. sub' = [d \in Conns |-> sub'[d]]
  BY <1>3 DEF QueueInv
<1>6. \A d \in Conns : ~Grows(d)
  BY <1>1, <1>2, <1>4 DEF Grows
<1>7. \A d \in Conns : /\ sub'[d] = [on |-> sub'[d].on, queue |-> sub'[d].queue]
                       /\ IsSeq(sub'[d].queue) /\ Len(sub'[d].queue) <= QueueCap
  BY <1>1, <1>2, <1>4 DEF QueueInv
<1> QED
  BY <1>5, <1>6, <1>7 DEF QueueInv, Loses

\* The events of trackBusy are a sequence, as long as panes changed.
LEMMA TrackBusyLosesNothing ==
  ASSUME QueueInv, NEW ps \in SUBSET Panes, TrackBusy(ps)
  PROVE  QueueInv' /\ ~Loses
<1> DEFINE starts == {p \in ps : PaneBusy(p) /\ p \notin wasBusy}
           stops == {p \in ps : ~PaneBusy(p) /\ p \in wasBusy}
           changed == InTurn(starts \cup stops)
           es == [k \in DOMAIN changed |-> Event("pane.busy_changed", <<changed[k], changed[k] \in starts>>)]
<1>1. IsFiniteSet(starts \cup stops)
  <2>1. IsFiniteSet(Panes)
    BY FS_Interval, ControlAssumption DEF Panes
  <2> QED
    BY <2>1, FS_Subset
<1>2. PICK n \in Nat : DOMAIN changed = 1 .. n
  BY <1>1, FS_CardinalityType DEF InTurn
<1>3. IsSeq(es)
  <2> HIDE DEF changed
  <2>1. es = [k \in 1 .. n |-> es[k]] /\ DOMAIN es = 1 .. n
    BY <1>2
  <2> HIDE DEF es
  <2> QED
    BY <2>1, IsASeq DEF IsSeq
<1>4. Publish(es)
  BY DEF TrackBusy
<1> QED
  BY <1>3, <1>4, PublishLosesNothing

LEMMA HandleLosesNothing == ASSUME QueueInv, Handle PROVE QueueInv' /\ ~Loses
<1>1. UNCHANGED sub \/ \E es : IsSeq(es) /\ Publish(es)
  <2>1. \A x, y : IsSeq(<<x>>) /\ IsSeq(<<x, y>>)
    BY DEF IsSeq
  <2> QED
    BY <2>1 DEF Handle, DoQuery, DoBusy, DoSendText, DoRegisterMenu, DoWorkspaceCreate, DoWorkspaceMove,
                DoWorkspaceClose, DoPaneCreate, DoPaneClose, Refuse, Unchanged
<1> QED
  BY <1>1, QuietLosesNothing, PublishLosesNothing

LEMMA ConnectionLosesNothing ==
  ASSUME QueueInv, NEW c \in Conns, ConnStep(c) \/ ReadRequest(c) \/ DeadlinePasses(c) \/ ClientLeaves(c)
  PROVE  QueueInv' /\ ~Loses
<1>1. IsSeq(<<>>) /\ Len(<<>>) = 0 /\ Len(sub[c].queue) \in Nat /\ sub[c] = [on |-> sub[c].on, queue |-> sub[c].queue]
  BY DEF IsSeq, QueueInv
<1>2. CASE UNCHANGED sub
  BY <1>2, QuietLosesNothing
<1>3. CASE \E on : sub' = [sub EXCEPT ![c] = [on |-> on, queue |-> <<>>]]
  <2>1. PICK on : sub' = [sub EXCEPT ![c] = [on |-> on, queue |-> <<>>]]
    BY <1>3
  <2>2. Len(<<>>) <= Len(sub[c].queue)
    BY <1>1
  <2> QED
    BY <1>1, <2>1, <2>2, ShrinkLosesNothing
<1>4. CASE Push(c)
  <2> DEFINE q == sub[c].queue
             T == {q[i] : i \in DOMAIN q}
  <2>1. q \in Seq(T) /\ q # <<>>
    BY <1>4 DEF Push, QueueInv, IsSeq
  <2> HIDE DEF T
  <2>2. Tail(q) \in Seq(T) /\ Len(Tail(q)) = Len(q) - 1 /\ Len(q) \in Nat
    BY <2>1, HeadTailProperties
  <2>3. IsSeq(Tail(q)) /\ Len(Tail(q)) <= Len(q)
    <3>1. IsSeq(Tail(q))
      BY <2>2, SeqIsSeq
    <3> QED
      BY <2>2, <3>1
  <2>4. sub' = [sub EXCEPT ![c] = [on |-> sub[c].on, queue |-> Tail(q)]]
    <3>1. sub' = [sub EXCEPT ![c] = [sub[c] EXCEPT !.queue = Tail(q)]]
      BY <1>4 DEF Push
    <3>2. [sub[c] EXCEPT !.queue = Tail(q)] = [on |-> sub[c].on, queue |-> Tail(q)]
      <4>1. PICK on, z : sub[c] = [on |-> on, queue |-> z]
        BY <1>1
      <4>2. sub[c].on = on
        BY <4>1
      <4>3. [[on |-> on, queue |-> z] EXCEPT !.queue = Tail(q)] = [on |-> on, queue |-> Tail(q)]
        <5> DEFINE w == Tail(q)
        <5> HIDE DEF w
        <5>1. [[on |-> on, queue |-> z] EXCEPT !.queue = w] = [on |-> on, queue |-> w]
          OBVIOUS
        <5> QED
          BY <5>1 DEF w
      <4> QED
        BY <4>1, <4>2, <4>3, Zenon
    <3> QED
      BY <3>1, <3>2
  <2> QED
    BY <2>3, <2>4, ShrinkLosesNothing
<1> QED
  BY <1>1, <1>2, <1>3, <1>4
     DEF ConnStep, Take, Receive, TimesOut, PollAgain, ServeEnds, ReadRequest, DeadlinePasses, ClientLeaves, NoSub, uivars

LEMMA StepLosesNothing == ASSUME QueueInv, [Next]_vars PROVE QueueInv' /\ ~Loses
<1>1. ASSUME NEW p \in Panes, PaneRuns(p) \/ AgentWorks(p) \/ AgentPauses(p) \/ Confirm(p) PROVE QueueInv' /\ ~Loses
  <2>1. UNCHANGED sub
    BY <1>1 DEF PaneRuns, AgentWorks, AgentPauses, Confirm
  <2> QED
    BY <2>1, QuietLosesNothing
<1>2. ASSUME NEW p \in Panes, PaneUpdate(p) PROVE QueueInv' /\ ~Loses
  <2>1. {p} \in SUBSET Panes
    OBVIOUS
  <2> QED
    BY <1>2, <2>1, QuietLosesNothing, TrackBusyLosesNothing DEF PaneUpdate
<1>3. CASE SpinTick
  <2>1. Shown \in SUBSET Panes
    BY DEF Shown
  <2> QED
    BY <1>3, <2>1, TrackBusyLosesNothing DEF SpinTick
<1>4. ASSUME NEW a \in Actions, UserPicksMenu(a) PROVE QueueInv' /\ ~Loses
  <2>1. IsSeq(<<Event("menu.action", <<a>>)>>)
    BY DEF IsSeq
  <2> QED
    BY <1>4, <2>1, PublishLosesNothing DEF UserPicksMenu
<1>5. CASE UserCloses \/ UserAddsPane \/ UNCHANGED vars
  <2>1. UNCHANGED sub
    BY <1>5 DEF UserCloses, UserAddsPane, vars, uivars
  <2> QED
    BY <2>1, QuietLosesNothing
<1> QED
  BY <1>1, <1>2, <1>3, <1>4, <1>5, HandleLosesNothing, ConnectionLosesNothing DEF Next

\* An event that reaches one subscriber reaches every other with room for it.
THEOREM NoEventIsLostNeedlessly == Spec => NoNeedlessLoss
<1>1. Init => QueueInv
  <2>1. IsSeq(<<>>) /\ Len(<<>>) = 0
    BY DEF IsSeq
  <2> QED
    BY <2>1, ControlAssumption DEF Init, QueueInv, NoSub
<1>2. QueueInv /\ [Next]_vars => QueueInv' /\ [\A c, d \in Conns : Grows(d) /\ Room(c) => Grows(c)]_vars
  BY StepLosesNothing DEF Loses
<1> QED
  BY <1>1, <1>2, PTL DEF Spec, NoNeedlessLoss
=============================================================================
