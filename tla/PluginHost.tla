----------------------------- MODULE PluginHost -----------------------------
(***************************************************************************)
(* internal/ui: the side of the plugin runtime that runs on the UI loop.   *)
(* The loop reads one event at a time, asks the runtime for the status     *)
(* again, and keeps what plugins contribute (texts, views, floating panes, *)
(* a snapshot subscription), tagged with the generation that asked.        *)
(*                                                                         *)
(* The UI is one thread: uiPc names the rest of the handler it is in, and  *)
(* every section of the runtime it enters under r.mu is one action, so a   *)
(* session may end between the check of a request and what it does.        *)
(***************************************************************************)
EXTENDS PluginRuntime

CONSTANTS
    Kinds,     \* what a request may contribute
    Quota      \* contributions of a plugin

ASSUME HostAssumption == Kinds \subseteq {"text", "view", "pane", "subscription"} /\ Quota \in Nat \ {0}

VARIABLES
    uiPc,      \* "wait", "apply" (a request is authorized and its operation
               \* not done) or "quit"
    uiStatus,  \* m.pluginStates[id]: whether it offers the plugin's actions
    request,   \* the request being applied: generation, ID and operation
    contrib    \* the generation each contribution belongs to, 0 for none

uivars == <<uiPc, uiStatus, request, contrib>>
vars == <<rvars, uivars>>

\* The menus offer the actions of a plugin that is approved or ready; the
\* settings window offers to disable one that is not blocked.
View(s) == CASE s.state \in {"approved", "ready"} -> "offered"
             [] s.state = "blocked" -> "blocked"
             [] OTHER -> "down"

NoRequest == [gen |-> 0, id |-> CHOOSE i \in Ids : TRUE]

HostInit ==
    /\ RuntimeInit
    /\ uiPc = "wait"
    /\ uiStatus = View(status)
    /\ request = NoRequest
    /\ contrib = [k \in Kinds |-> 0]

-----------------------------------------------------------------------------
(* syncPluginStates: texts, views and panes of a generation that is not    *)
(* ready are removed.  The subscription waits for the next tick.           *)

\* Mutant of Pruned: whatever the generation, while the plugin is ready.
PrunedReady(c, s) ==
    [k \in Kinds |-> IF k = "subscription" \/ s.state = "ready" THEN c[k] ELSE 0]

Pruned(c, s) ==
    [k \in Kinds |-> IF k = "subscription" \/ s = [state |-> "ready", gen |-> c[k]]
                     THEN c[k] ELSE 0]

\* A handler that changes the runtime synchronises in the same step: what the
\* runtime does in between, it tells in an event.
SyncPluginStates ==
    /\ uiStatus' = View(status')
    /\ contrib' = Pruned(contrib, status')

\* Reply is buffered: the worker of request i of generation g takes the answer
\* unless its context has ended.  A later request with the same ID is still in
\* the queue.
Answer(g, i) ==
    incoming' = IF g = last /\ incoming[i] = "queued"
                   /\ ~\E k \in DOMAIN events' : events'[k] = i
                THEN [incoming EXCEPT ![i] = "answered"] ELSE incoming

\* waitPluginEvent and handlePluginEvent: it synchronises, then a request is
\* authorized by itself and answered denied, or goes on.
UiEvent ==
    /\ uiPc = "wait" /\ events # <<>>
    /\ events' = Tail(events)
    /\ LET e == Head(events) IN
       IF e = Notice
       THEN UNCHANGED <<uiPc, request, incoming>>
       ELSE IF Authorized(last)
       THEN /\ uiPc' = "apply" /\ request' = [gen |-> last, id |-> e]
            /\ UNCHANGED incoming
       ELSE /\ Answer(last, e)
            /\ UNCHANGED <<uiPc, request>>
    /\ UNCHANGED <<disk, entry, last, session, status, closing, client, watch>>
    /\ SyncPluginStates

\* What the authorized request does.  An invalid or refused one, a notice, a
\* query and an operation of the control API leave the contributions alone.
Adds(k) ==
    /\ Cardinality({o \in Kinds \ {k} : contrib[o] # 0}) < Quota
    /\ contrib' = [contrib EXCEPT ![k] = request.gen]

Removes(k) == contrib' = [contrib EXCEPT ![k] = 0]

ApplyOther == UNCHANGED contrib

\* ui.status: a text, or none.
ApplyStatus == "text" \in Kinds /\ (Adds("text") \/ Removes("text"))

\* events.subscribe replaces the subscription; events.unsubscribe.
ApplySubscribe ==
    "subscription" \in Kinds /\ (Adds("subscription") \/ Removes("subscription"))

\* pane.create with a floating pane; pane.close of it.
ApplyPane == "pane" \in Kinds /\ (Adds("pane") \/ Removes("pane"))

\* handlePluginView authorizes once more.
ApplyView ==
    /\ "view" \in Kinds /\ Authorized(request.gen)
    /\ Adds("view") \/ Removes("view")

\* The rest of handlePluginRequest: every path replies.
UiApply ==
    /\ uiPc = "apply" /\ uiPc' = "wait"
    /\ ApplyOther \/ ApplyStatus \/ ApplySubscribe \/ ApplyPane \/ ApplyView
    /\ request' = NoRequest
    /\ UNCHANGED events /\ Answer(request.gen, request.id)
    /\ UNCHANGED <<disk, entry, last, session, status, closing, client, watch, uiStatus>>

\* The user closes a view with Esc or its cross.
UiCloseView ==
    /\ uiPc = "wait" /\ "view" \in Kinds /\ contrib["view"] # 0
    /\ Removes("view")
    /\ UNCHANGED <<rvars, uiPc, uiStatus, request>>

\* publishPluginSnapshots, every 200 ms while there is a subscription.
UiTick ==
    /\ uiPc = "wait" /\ "subscription" \in Kinds /\ contrib["subscription"] # 0
    /\ uiStatus' = View(status)
    /\ contrib' = [Pruned(contrib, status) EXCEPT !["subscription"] =
                        IF Authorized(@) THEN @ ELSE 0]
    /\ UNCHANGED <<rvars, uiPc, request>>

\* The menu and `hrdx plugins stop`: Stop under the lock, then the sync.
UiStop ==
    /\ uiPc = "wait"
    /\ StopLocked
    /\ UNCHANGED <<disk, entry, last, closing, events, incoming, client, watch>>
    /\ UNCHANGED <<uiPc, request>>
    /\ SyncPluginStates

\* `hrdx plugins start`.
UiStart ==
    /\ uiPc = "wait"
    /\ CanStart(entry, TRUE) /\ StartLocked(entry, status)
    /\ UNCHANGED <<disk, entry, closing, events, client, watch>>
    /\ UNCHANGED <<uiPc, request>>
    /\ SyncPluginStates

\* The settings window saves the approval disabled, then stops the plugin.
UiDisable ==
    /\ uiPc = "wait"
    /\ uiStatus # "blocked" /\ file # NoFile
    /\ Edit /\ file' = [file EXCEPT !.on = FALSE]
    /\ StopLocked
    /\ UNCHANGED <<package, entry, last, closing, events, incoming, client, watch>>
    /\ UNCHANGED <<uiPc, request>>
    /\ SyncPluginStates

\* runPluginMenu and handlePluginAPI start the goroutine of a command.  An
\* action is offered while the plugin is known as approved or ready.
UiCommand(c) ==
    /\ uiPc = "wait"
    /\ \/ Restart(c)
       \/ Reload(c)
       \/ uiStatus = "offered" /\ Activate(c)
    /\ UNCHANGED uivars

\* handlePluginActivation: it synchronises, and the generation that became
\* ready must still be authorized before the command is sent to it.
UiActivated(c) ==
    /\ uiPc = "wait" /\ client[c].pc = "activated"
    /\ client' = IF Authorized(client[c].gen) THEN [client EXCEPT ![c].pc = "call"]
                 ELSE [client EXCEPT ![c] = Idle]
    /\ UNCHANGED <<disk, runtime, watch, uiPc, request>>
    /\ SyncPluginStates

\* handlePluginResult.
UiResult(c) ==
    /\ uiPc = "wait" /\ client[c].pc = "result"
    /\ client' = [client EXCEPT ![c] = Idle]
    /\ UNCHANGED <<disk, runtime, watch, uiPc, request>>
    /\ SyncPluginStates

\* Quitting: BeginShutdown under the lock, and the UI loop ends.
UiQuit ==
    /\ uiPc = "wait" /\ uiPc' = "quit"
    /\ closing' = TRUE
    /\ session' = CloseStop(last)
    /\ UNCHANGED <<disk, entry, last, status, events, incoming, client, watch>>
    /\ uiStatus' = "down" /\ contrib' = [k \in Kinds |-> 0]
    /\ UNCHANGED request

UiStep ==
    \/ UiEvent \/ UiApply \/ UiTick
    \/ \E c \in Clients : UiActivated(c) \/ UiResult(c)

HostNext ==
    \/ RuntimeNext /\ UNCHANGED uivars
    \/ UiStep
    \/ UiStop \/ UiStart \/ UiDisable \/ UiQuit \/ UiCloseView
    \/ \E c \in Clients : UiCommand(c)

\* What goes on without help: the verification, the timers, the kill, the
\* workers, the goroutines, the watcher and the UI loop.  A plugin that runs
\* may run for ever, and nobody has to ask for anything.  The tick waits in the
\* same channel as every other message of the loop, so its turn comes.
HostFairness ==
    /\ WF_rvars(\E g \in Gens : SessionEnds(g))
    /\ WF_rvars(\E i \in Ids : RequestEnds(i))
    /\ \A c \in Clients : WF_rvars(ClientStep(c))
    /\ WF_rvars(WatchTick \/ WatchRevoke)
    /\ WF_vars(UiStep) /\ SF_vars(UiTick)

HostSpec == HostInit /\ [][HostNext]_vars /\ HostFairness
-----------------------------------------------------------------------------
ClientPcs == {"idle", "result", "restart_read", "restart_wait", "restart_start", "reload_stop", "reload_read",
              "reload_wait", "reload_install", "activate_wait", "activated", "call"}
Reloading == {"reload_stop", "reload_read", "reload_wait", "reload_install"}

TypeOK ==
    /\ package \in Revs /\ file \in Approvals \cup {NoFile} /\ edits \in 0 .. MaxEdits
    /\ entry \in Approvals /\ last \in 0 .. MaxGens /\ session \in [Gens -> Sessions]
    /\ status \in [state : States, gen : 0 .. MaxGens] /\ closing \in BOOLEAN /\ watch \in BOOLEAN
    /\ events \in Seq(Ids \cup {Notice}) /\ Len(events) <= EventCap /\ incoming \in [Ids -> RequestStates]
    /\ client \in [Clients -> [pc : ClientPcs, gen : 0 .. MaxGens, appr : Approvals \cup {NoFile}]]
    /\ \A c \in Clients : client[c].pc \in Reloading => client[c].appr \in Approvals
    /\ uiPc \in {"wait", "apply", "quit"} /\ uiStatus \in {"offered", "blocked", "down"}
    /\ request.gen \in 0 .. MaxGens /\ (uiPc = "apply" => request.id \in Ids)
    /\ contrib \in [Kinds -> 0 .. MaxGens]

\* A plugin has at most one process: a generation is started only when the
\* one before has been killed and reaped, whatever restarts, reloads, starts
\* and activations run at once; and a status that says ready names a process
\* that has said so and has not ended (runtime.go:199, 377).
OneGeneration ==
    /\ \A g \in Gens : g # last => session[g].stage = "done"
    /\ status.state = "ready" => /\ status.gen = last
                                 /\ session[last].stage = "running"
=============================================================================
