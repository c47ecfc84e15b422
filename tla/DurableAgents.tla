---------------------------- MODULE DurableAgents ----------------------------
(***************************************************************************)
(* Durable panes of internal/ui (continuous.go and its menus and API): the  *)
(* views of conversations that live on a zot host.  A binding is prepared   *)
(* by a command in several remote calls, any of which may fail, or be       *)
(* carried out while its answer is lost; the update loop verifies and       *)
(* records it, starts the view, and follows the host by polls.              *)
(*                                                                         *)
(* One workspace and one host profile.  Key 1 stands for the workspace      *)
(* directory, key n for the directory with the suffix #n, 0 for no key;     *)
(* conversations are numbered in the order the hosts make them, 0 is none.  *)
(* The host's store, a program of its own, is external.  Turns and what the *)
(* polls read of them are followed for one conversation, Watched: those of  *)
(* the others are independent of it.                                        *)
(***************************************************************************)
EXTENDS Integers, FiniteSets

CONSTANTS
    MaxPane,      \* bound: panes ever made; ids are never reused
    MaxKey,       \* bound: workspace keys in use at once
    MaxConv,      \* bound: conversations the host makes
    MaxRev,       \* bound: turns of Watched that start or end
    Watched       \* the conversation whose observations are followed

ASSUME DurableAssumption ==
    {MaxPane, MaxKey, MaxConv} \subseteq Nat \ {0} /\ MaxRev \in Nat /\ Watched \in 1 .. MaxConv

Panes == 1 .. MaxPane
Keys == 1 .. MaxKey
Convs == 1 .. MaxConv

\* What a pane or the workspace keeps of a binding (state.DurableRef).
Refs == [key : Keys \cup {0}, conv : Convs \cup {0}]
NoRef == [key |-> 0, conv |-> 0]
Valid(r) == r.conv # 0

VARIABLES
    root,       \* host: the conversation of each workspace key, or 0
    made,       \* host: conversations made by this store and the ones before
    store,      \* host: the conversations it knows
    rev,        \* host: turns of Watched started or ended; odd while one runs
    pane,       \* the durable panes
    nextID,     \* m.nextID
    durables,   \* owner.durables
    saved,      \* the state file: bindings of panes, and durables
    commands,   \* prepareDurable's commands and their results
    starting,   \* panes with a startPTY command on its way
    pending,    \* m.pendingAttaches
    polling,    \* m.durablePolling
    polls,      \* polls on their way
    info        \* the rev in m.durState of Watched, -1 if there is none

host == <<root, made, store, rev>>
poll == <<polling, polls, info>>
vars == <<host, pane, nextID, durables, saved, commands, starting, pending, poll>>

NoPane == [open |-> FALSE, ref |-> NoRef, fresh |-> FALSE, ready |-> FALSE, failed |-> FALSE, view |-> 0]
Snapshot(ps, ds) == [pane |-> [p \in Panes |-> [open |-> ps[p].open, ref |-> ps[p].ref, fresh |-> ps[p].fresh]],
                     durables |-> ds]

Init ==
    /\ root = [k \in Keys |-> 0] /\ made = 0 /\ store = {} /\ rev = 0
    /\ pane = [p \in Panes |-> NoPane] /\ nextID = 1 /\ durables = {} /\ saved = Snapshot(pane, {})
    /\ commands = {} /\ starting = {} /\ pending = {}
    /\ polling = FALSE /\ polls = {} /\ info = -1

Shown == {p \in Panes : pane[p].open}

-----------------------------------------------------------------------------
(* The host.                                                               *)

\* Opening the root of a key: the conversation it has, or a new one.
RootOf(k) == IF root[k] # 0 THEN root[k] ELSE made + 1

OpensRoot(k) ==
    IF root[k] # 0 THEN UNCHANGED <<root, made, store>>
    ELSE /\ made < MaxConv /\ made' = made + 1
         /\ root' = [root EXCEPT ![k] = made + 1] /\ store' = store \cup {made + 1}

\* A turn starts or ends.
HostWorks ==
    /\ Watched \in store /\ rev < MaxRev /\ rev' = rev + 1
    /\ UNCHANGED <<root, made, store, pane, nextID, durables, saved, commands, starting, pending, poll>>

-----------------------------------------------------------------------------
(* Polling.                                                                *)

Targets(ps, ds) == {r.conv : r \in {x \in ds \cup {ps[p].ref : p \in {q \in Panes : ps[q].open}} : Valid(x)}}

NewPoll(of) == [watches |-> Watched \in of, read |-> FALSE, snap |-> -1]

\* Mutant of PollDurable: a poll is started beside another.
PollAnyway(ps, ds) ==
    IF Targets(ps, ds) = {} THEN UNCHANGED <<polling, polls>>
    ELSE polling' = TRUE /\ polls' = polls \cup {NewPoll(Targets(ps, ds))}

\* pollDurable: at most one poll is in flight.
PollDurable(ps, ds) ==
    IF polling \/ Targets(ps, ds) = {} THEN UNCHANGED <<polling, polls>>
    ELSE polling' = TRUE /\ polls' = polls \cup {NewPoll(Targets(ps, ds))}

\* The poll's goroutine: the host cannot be reached, or the snapshot cannot
\* be read, or it is what the host has now.
PollReads(q) ==
    /\ ~q.read
    /\ \E snap \in {-1} \cup (IF q.watches /\ Watched \in store THEN {rev} ELSE {}) :
          polls' = (polls \ {q}) \cup {[q EXCEPT !.read = TRUE, !.snap = snap]}
    /\ UNCHANGED <<host, pane, nextID, durables, saved, commands, starting, pending, polling, info>>

\* durablePollMsg and applyDurablePoll: what is still bound is updated.
PollApplies(q) ==
    /\ q.read /\ polls' = polls \ {q} /\ polling' = FALSE
    /\ info' = IF q.snap # -1 /\ Watched \in Targets(pane, durables) THEN q.snap ELSE info
    /\ UNCHANGED <<host, pane, nextID, durables, saved, commands, starting, pending>>

\* A tick, of which there is one under way as long as there are targets; the
\* panel is opened, the end of one of its actions, or a client of the socket
\* asks for the hosts.
PollsAgain ==
    /\ PollDurable(pane, durables)
    /\ UNCHANGED <<host, pane, nextID, durables, saved, commands, starting, pending, info>>

-----------------------------------------------------------------------------
(* The socket's requests about conversations.                              *)

\* To list, show, abort, submit, decide and the like, or to start or stop the
\* host: what is not refused at once is asked of the host by a command, which
\* touches nothing here until its durableAPIReply answers the client and polls
\* the hosts, so that asking and answering are one step.
AsksHost ==
    /\ PollDurable(pane, durables)
    /\ UNCHANGED <<host, pane, nextID, durables, saved, commands, starting, pending, info>>

\* The workspace is given a host profile, which is saved with all the rest.
SetWorkspaceHost ==
    /\ saved' = Snapshot(pane, durables)
    /\ UNCHANGED <<host, pane, nextID, durables, commands, starting, pending, poll>>

-----------------------------------------------------------------------------
(* Bindings.                                                               *)

ByID(r) == r.conv # 0 /\ r.key = 0

\* Mutant of UsedKeys: the keys of bindings under way are not counted.
UsedKeysBound == {r.key : r \in durables}

UsedKeys == {r.key : r \in durables} \cup {pane[p].ref.key : p \in Shown}

\* nextWorkspaceKey.
NextKey == CHOOSE k \in Keys : k \notin UsedKeys /\ \A l \in 1 .. k - 1 : l \in UsedKeys

\* prepareDurable reserves the key in the update loop, before the command runs.
Reserved(r) == IF r.key = 0 /\ ~ByID(r) THEN [r EXCEPT !.key = NextKey] ELSE r
Reservable(r) == (r.key = 0 /\ ~ByID(r)) => Keys \ UsedKeys # {}

Command(p, r) == [pane |-> p, ref |-> r, restoring |-> r.conv # 0, step |-> "reach", ok |-> FALSE]

\* addDurablePane, then persist, then startPane.
AddDurable(r, fresh) ==
    /\ nextID \in Panes /\ nextID' = nextID + 1 /\ Reservable(r)
    /\ LET blank == [NoPane EXCEPT !.open = TRUE, !.ref = r, !.fresh = fresh] IN
       /\ saved' = Snapshot([pane EXCEPT ![nextID] = blank], durables)
       /\ pane' = [pane EXCEPT ![nextID] = [blank EXCEPT !.ref = Reserved(r)]]
       /\ commands' = commands \cup {Command(nextID, Reserved(r))}
    /\ UNCHANGED <<host, durables, starting, poll>>

\* The user asks for a new agent, or for another view of a conversation.
UserOpens ==
    /\ AddDurable(NoRef, TRUE)
       \/ \E r \in durables \cup {pane[p].ref : p \in Shown} : Valid(r) /\ AddDurable(r, FALSE)
    /\ UNCHANGED pending

\* A client of the socket asks for a new agent, for a conversation of the
\* list, or for a key or a conversation it names (not both), and waits.
ApiAttach ==
    /\ AddDurable(NoRef, TRUE)
       \/ \E r \in durables \cup [key : Keys, conv : {0}] \cup [key : {0}, conv : store] : AddDurable(r, FALSE)
    /\ pending' = pending \cup {nextID}

Becomes(c, d) == commands' = (commands \ {c}) \cup {d}
Fails(c) == Becomes(c, [c EXCEPT !.step = "done"])
Succeeds(c, id) == Becomes(c, [c EXCEPT !.step = "done", !.ok = TRUE, !.ref.conv = id])
LoopIdle == UNCHANGED <<pane, nextID, durables, saved, starting, pending, poll>>

\* Probe, StartManaged and Pool.Get.
Reaches(c) ==
    /\ c.step = "reach"
    /\ \/ Fails(c)
       \/ Becomes(c, [c EXCEPT !.step = IF c.restoring THEN "snapshot" ELSE "root"])
    /\ UNCHANGED host /\ LoopIdle

\* A restored conversation must be there.
Looks(c) ==
    /\ c.step = "snapshot"
    /\ \/ Fails(c)
       \/ /\ c.ref.conv \in store
          /\ IF ByID(c.ref) THEN Succeeds(c, c.ref.conv) ELSE Becomes(c, [c EXCEPT !.step = "root"])
    /\ UNCHANGED host /\ LoopIdle

\* Mutant of Verified: a restored key may resolve to any conversation.
VerifiedNot(c) == TRUE

Verified(c) == c.restoring => RootOf(c.ref.key) = c.ref.conv

\* OpenRoot; a call that fails may have been carried out.
OpensKey(c) ==
    /\ c.step = "root" /\ UNCHANGED rev
    /\ \/ Fails(c) /\ UNCHANGED <<root, made, store>>
       \/ /\ OpensRoot(c.ref.key)
          /\ Fails(c) \/ (Verified(c) /\ Succeeds(c, IF c.restoring THEN c.ref.conv ELSE RootOf(c.ref.key)))
    /\ LoopIdle

Associated(r) == {x \in durables : x.conv # r.conv} \cup {r}

\* Mutant of Waiting: only a binding that succeeded is answered.
WaitingFailed(ps) == {p \in pending : ps[p].open /\ ~ps[p].ready}

\* resolveAttaches: requests that are not answered yet.
Waiting(ps) == {p \in pending : ps[p].open /\ ~ps[p].failed /\ ~ps[p].ready}

\* durablePreparedMsg.
Prepared(c) ==
    /\ c.step = "done" /\ commands' = commands \ {c}
    /\ LET p == c.pane
           failed == [pane EXCEPT ![p].failed = TRUE, ![p].ref = c.ref]
           bound == [pane EXCEPT ![p].ready = TRUE, ![p].ref = c.ref]
       IN  CASE ~pane[p].open -> UNCHANGED <<pane, durables, saved, starting, pending, poll>>
             [] pane[p].open /\ ~c.ok ->
                    /\ pane' = failed /\ saved' = Snapshot(failed, durables) /\ pending' = Waiting(failed)
                    /\ UNCHANGED <<durables, starting, poll>>
             [] OTHER ->
                    /\ pane' = bound /\ durables' = Associated(c.ref)
                    /\ saved' = Snapshot(bound, durables') /\ pending' = Waiting(bound)
                    /\ starting' = starting \cup {p}
                    /\ PollDurable(bound, durables') /\ UNCHANGED info
    /\ UNCHANGED <<host, nextID>>

\* durableLaunch: the conversation a view is of, by its key or by its id.
Viewed(r) == IF r.key = 0 THEN r.conv ELSE RootOf(r.key)

\* startPTY and paneStartedMsg: the attached program opens the root of the
\* key, or the conversation itself when there is no key.
ViewStarts(p) ==
    /\ p \in starting /\ starting' = starting \ {p} /\ UNCHANGED rev
    /\ LET r == pane[p].ref IN
       \/ /\ ~pane[p].open /\ UNCHANGED <<root, made, store, pane>>
       \/ /\ pane[p].open /\ pane' = [pane EXCEPT ![p].failed = TRUE]
          /\ UNCHANGED <<root, made, store>>
       \/ /\ pane[p].open
          /\ IF r.key = 0 THEN UNCHANGED <<root, made, store>> ELSE OpensRoot(r.key)
          /\ pane' = [pane EXCEPT ![p].view = Viewed(r)]
    /\ UNCHANGED <<nextID, durables, saved, commands, pending, poll>>

-----------------------------------------------------------------------------
(* What the user does with them, and the end of hrdx.                      *)

\* retryDurable, offered while the pane shows a failure.
Retry(p) ==
    /\ pane[p].open /\ pane[p].failed /\ Reservable(pane[p].ref)
    /\ LET r == Reserved(pane[p].ref) IN
       /\ pane' = [pane EXCEPT ![p] = [@ EXCEPT !.failed = FALSE, !.ready = FALSE, !.view = 0, !.ref = r]]
       /\ commands' = commands \cup {Command(p, r)}
    /\ UNCHANGED <<host, nextID, durables, saved, starting, pending, poll>>

\* removePane, also when the view's program ends.
Close(p) ==
    /\ pane[p].open /\ pane' = [pane EXCEPT ![p] = NoPane]
    /\ saved' = Snapshot(pane', durables)
    /\ UNCHANGED <<host, nextID, durables, commands, starting, pending, poll>>

\* dur-forget, refused while a view is open.
Forget(r) ==
    /\ r \in durables /\ \A p \in Shown : pane[p].ref.conv # r.conv
    /\ durables' = durables \ {r} /\ info' = IF r.conv = Watched THEN -1 ELSE info
    /\ saved' = Snapshot(pane, durables')
    /\ UNCHANGED <<host, pane, nextID, commands, starting, pending, polling, polls>>

\* restore: a valid binding is verified again, another reports its failure.
Restored(s) == [p \in Panes |-> IF s.pane[p].open
                                THEN [NoPane EXCEPT !.open = TRUE, !.ref = s.pane[p].ref, !.fresh = s.pane[p].fresh,
                                                    !.failed = ~Valid(s.pane[p].ref)]
                                ELSE NoPane]

\* hrdx quits, or dies, and is launched again, which begins with a poll; the
\* profile may by then lead to another store, or to one that knows the same
\* conversations under other keys.
Restart ==
    /\ \E s \in {saved, Snapshot(pane, durables)} :
        LET ps == Restored(s) IN
        /\ pane' = ps /\ saved' = s
        /\ durables' = {r \in s.durables : \A p \in Panes : ps[p].ref.conv # r.conv}
                       \cup {ps[p].ref : p \in {q \in Panes : /\ Valid(ps[q].ref)
                                                           /\ \A n \in q + 1 .. MaxPane : ps[n].ref.conv # ps[q].ref.conv}}
        /\ commands' = {Command(p, ps[p].ref) : p \in {q \in Panes : ps[q].open /\ Valid(ps[q].ref)}}
    /\ starting' = {} /\ pending' = {} /\ info' = -1
    /\ LET of == Targets(pane', durables') IN
       /\ polling' = (of # {})
       /\ polls' = IF of = {} THEN {} ELSE {NewPoll(of)}
    /\ \/ UNCHANGED <<root, store>>
       \/ root' = [k \in Keys |-> 0] /\ store' \in {{}, store}
    /\ UNCHANGED <<made, rev, nextID>>

-----------------------------------------------------------------------------
CommandStep(c) == Reaches(c) \/ Looks(c) \/ OpensKey(c) \/ Prepared(c)

Next ==
    \/ \E c \in commands : CommandStep(c)
    \/ \E q \in polls : PollReads(q) \/ PollApplies(q)
    \/ PollsAgain \/ AsksHost \/ SetWorkspaceHost \/ HostWorks \/ UserOpens \/ ApiAttach \/ Restart
    \/ \E p \in Panes : ViewStarts(p) \/ Retry(p) \/ Close(p)
    \/ \E r \in durables : Forget(r)

\* Commands and polls have deadlines; the update loop handles every message.
Fairness ==
    /\ \A p \in Panes : /\ WF_vars(\E c \in commands : c.pane = p /\ CommandStep(c))
                        /\ WF_vars(ViewStarts(p))
    /\ WF_vars(\E q \in polls : PollReads(q) \/ PollApplies(q))

Spec == Init /\ [][Next]_vars /\ Fairness
-----------------------------------------------------------------------------
Steps == {"reach", "snapshot", "root", "done"}
Kept == [open : BOOLEAN, ref : Refs, fresh : BOOLEAN]
DurablePanes == [open : BOOLEAN, ref : Refs, fresh : BOOLEAN, ready : BOOLEAN, failed : BOOLEAN, view : Convs \cup {0}]
Commands == [pane : Panes, ref : Refs, restoring : BOOLEAN, step : Steps, ok : BOOLEAN]

TypeOK ==
    /\ root \in [Keys -> Convs \cup {0}] /\ made \in 0 .. MaxConv /\ store \subseteq 1 .. made /\ rev \in 0 .. MaxRev
    /\ pane \in [Panes -> DurablePanes]
    /\ nextID \in 1 .. MaxPane + 1 /\ durables \subseteq Refs
    /\ saved \in [pane : [Panes -> Kept], durables : SUBSET Refs]
    /\ commands \subseteq Commands
    /\ starting \subseteq Panes /\ pending \subseteq Panes
    /\ polling \in BOOLEAN /\ polls \subseteq [watches : BOOLEAN, read : BOOLEAN, snap : -1 .. MaxRev]
    /\ info \in -1 .. MaxRev

\* Agents opened as new ones are independent: no two of them that are open
\* share a conversation, however their preparation overlaps, fails, is retried
\* or is cut off by a restart (continuous.go:144).
DistinctAgents ==
    \A p, q \in Shown : (p # q /\ pane[p].fresh /\ pane[q].fresh) => (pane[p].ref.conv = 0 \/ pane[p].ref.conv # pane[q].ref.conv)

\* What a view shows is the conversation its pane is bound to, and never one
\* of another store (continuous.go:235).
ViewsShowBinding == \A p \in Shown : pane[p].view \in {0, pane[p].ref.conv}

\* A client waits for an attach only while the binding of its pane is under
\* way: it is answered with the result, success or failure, of the command it
\* waits for (continuous_api.go:399).
AttachUnderWay == \A p \in pending : pane[p].open => \E c \in commands : c.pane = p

\* What the UI knows of a conversation never goes back (continuous.go:483).
ObservationsForward == [][info' >= info \/ info' = -1]_vars
=============================================================================
