---------------------------- MODULE PaneLifecycle ---------------------------
(***************************************************************************)
(* The panes of a terminal interface and the holder sessions behind them,  *)
(* over launches, quits and crashes (internal/ui/model.go: Init,           *)
(* startHolderPane and the messages paneStartedMsg, paneUpdateMsg and      *)
(* HolderExitMsg; internal/ui/persist.go; term.Pane as far as its end).    *)
(*                                                                         *)
(* The update loop handles one message at a time.  Commands that start a   *)
(* pane, exit events and kill requests each run in a goroutine of their    *)
(* own, so they reach the update loop and the holder in any order.  The    *)
(* holder is reduced to its table of sessions; how requests, replays and   *)
(* exit events travel is the subject of Holder, which socket it has of     *)
(* HolderSocket.  A call to it may fail or run into its time-out           *)
(* (client.go call); what was asked is done or not, and when it is done    *)
(* late that is before anything asked later, for requests are handled in   *)
(* order.                                                                  *)
(***************************************************************************)
EXTENDS Integers, FiniteSets

CONSTANTS
  Pane,         \* panes, each with its place in the layout
  Floating,     \* those that float: temporary, never saved
  Dir,          \* the working directory of each pane
  MaxSession,   \* bound: sessions a holder ever starts
  MaxLaunch,    \* bound: launches of the terminal interface
  MaxRestart    \* bound: times the holder is replaced by a new one

ASSUME PaneLifecycleAssumption ==
  /\ Floating \subseteq Pane
  /\ DOMAIN Dir = Pane
  /\ MaxSession \in Nat /\ MaxLaunch \in Nat /\ MaxRestart \in Nat

Session == 1..MaxSession
NoSession == 0      \* pane.session of a pane that never had one
Absent == -1        \* a pane the state file does not have

VARIABLES
  tui,        \* the terminal interface: "down", "up"
  holder,     \* its connection: TRUE while the holder it dialled lives
  launches,   \* launches so far
  restarts,   \* holder replacements so far
  \* -- the holder --------------------------------------------------------
  sessions,   \* Server.sessions
  running,    \* those whose process is alive
  cwd,        \* the directory each session was started in
  nextID,     \* Server.nextID
  \* -- the terminal interface ----------------------------------------------
  pane,       \* where each pane is: not in the layout, starting, shown, failed
  session,    \* pane.session
  term,       \* the session of pane.term, or NoSession for nil
  exited,     \* Pane.exited of pane.term: its updates channel is closed
  cmd,        \* the command that starts each pane
  exits,      \* HolderExitMsg on their way to the update loop
  kills,      \* kill requests on their way to the holder
  saved,      \* the state file: the session of each saved pane
  \* -- history ------------------------------------------------------------
  abandoned   \* sessions left by a call of this launch that got no answer

holderVars == <<sessions, running, cwd, nextID>>
paneVars == <<pane, session, term, exited>>
vars == <<tui, holder, launches, restarts, holderVars, paneVars, cmd, exits, kills, saved, abandoned>>

(* The start command of a pane: the step it is at, the session it is to    *)
(* reattach, the one it has got, and whether that was running.             *)
NoCmd == [at |-> "none", want |-> NoSession, got |-> NoSession, runs |-> FALSE]
StartCmd(s) ==
  [at |-> IF s = NoSession THEN "start" ELSE "list", want |-> s, got |-> NoSession, runs |-> FALSE]

Init ==
  /\ tui = "down" /\ holder = FALSE /\ launches = 0 /\ restarts = 0
  /\ sessions = {} /\ running = {} /\ nextID = 1
  /\ cwd = [s \in Session |-> CHOOSE d \in {Dir[p] : p \in Pane} : TRUE]
  /\ pane = [p \in Pane |-> "absent"]
  /\ session = [p \in Pane |-> NoSession]
  /\ term = [p \in Pane |-> NoSession]
  /\ exited = [p \in Pane |-> FALSE]
  /\ cmd = [p \in Pane |-> NoCmd]
  /\ exits = {} /\ kills = {}
  /\ saved = [p \in Pane |-> Absent]
  /\ abandoned = {}

-----------------------------------------------------------------------------
(* The holder.                                                             *)

(* The program of a session ends; a connected terminal interface is told.  *)
SessionExits(s) ==
  /\ s \in running
  /\ running' = running \ {s}
  /\ exits' = IF holder THEN exits \cup {s} ELSE exits
  /\ UNCHANGED <<tui, holder, launches, restarts, abandoned, sessions, cwd, nextID, paneVars,
                 cmd, kills, saved>>

(* A kill request arrives: end the process, forget the session.            *)
KillArrives(s) ==
  /\ holder /\ s \in kills
  /\ kills' = kills \ {s}
  /\ sessions' = sessions \ {s}
  /\ running' = running \ {s}
  /\ exits' = IF s \in running THEN exits \cup {s} ELSE exits
  /\ UNCHANGED <<tui, holder, launches, restarts, abandoned, cwd, nextID, paneVars, cmd, saved>>

(* The holder ends with all its sessions (a crash, a reboot, hrdx stop)    *)
(* while no terminal interface is attached; the next launch spawns one.    *)
HolderRestarts ==
  /\ ~holder /\ restarts < MaxRestart
  /\ restarts' = restarts + 1
  /\ sessions' = {} /\ running' = {} /\ nextID' = 1
  /\ UNCHANGED <<tui, holder, launches, abandoned, cwd, paneVars, cmd, exits, kills,
                 saved>>

-----------------------------------------------------------------------------
(* A launch and its end.                                                   *)

(* snapshot: floating panes are left out.                                  *)
Snapshot(there, ids) ==
  [p \in Pane |-> IF there[p] # "absent" /\ p \notin Floating THEN ids[p] ELSE Absent]

(* restore: the saved panes come back, each with the session it had.       *)
Restores ==
  /\ pane' = [p \in Pane |-> IF saved[p] = Absent THEN "absent" ELSE "starting"]
  /\ session' = [p \in Pane |-> IF saved[p] = Absent THEN NoSession ELSE saved[p]]
  /\ term' = [p \in Pane |-> NoSession]
  /\ exited' = [p \in Pane |-> FALSE]

(* Mutant of Unreferenced: as if nothing had been restored yet.            *)
UnreferencedYet == sessions

(* gcHolderSessions: the sessions that no restored pane refers to.         *)
Unreferenced == sessions \ {saved[p] : p \in Pane}

(* Init: those sessions are killed, unless listing them fails, and every   *)
(* pane gets a command that starts it.                                     *)
Launch ==
  /\ tui = "down" /\ launches < MaxLaunch
  /\ tui' = "up" /\ holder' = TRUE /\ launches' = launches + 1
  /\ Restores
  /\ \/ kills' = Unreferenced /\ abandoned' = {}
     \/ kills' = {} /\ abandoned' = Unreferenced
  /\ cmd' = [p \in Pane |-> IF saved[p] = Absent THEN NoCmd ELSE StartCmd(saved[p])]
  /\ UNCHANGED <<restarts, holderVars, exits, saved>>

(* What is left when the process is gone.                                  *)
ProcessEnds ==
  /\ tui' = "down" /\ holder' = FALSE
  /\ pane' = [p \in Pane |-> "absent"]
  /\ session' = [p \in Pane |-> NoSession]
  /\ term' = [p \in Pane |-> NoSession]
  /\ exited' = [p \in Pane |-> FALSE]
  /\ cmd' = [p \in Pane |-> NoCmd]
  /\ exits' = {} /\ kills' = {} /\ abandoned' = {}
  /\ UNCHANGED <<launches, restarts, cwd, nextID>>

(* closeAll: save, detach the panes, close the floating ones, close the    *)
(* connection.  A kill is written by a goroutine: before that, or never.   *)
Quit ==
  /\ tui = "up"
  /\ saved' = Snapshot(pane, session)
  /\ LET closed == {term[p] : p \in {q \in Floating : term[q] # NoSession /\ ~exited[q]}}
     IN  \E written \in SUBSET (kills \cup closed) :
           /\ sessions' = sessions \ written
           /\ running' = running \ written
  /\ ProcessEnds

(* The process is killed or its terminal goes away.                        *)
Dies ==
  /\ tui = "up"
  /\ \E written \in SUBSET kills :
       sessions' = sessions \ written /\ running' = running \ written
  /\ ProcessEnds
  /\ UNCHANGED saved

-----------------------------------------------------------------------------
(* startHolderPane, a command in a goroutine of its own.                   *)

SetCmd(p, c) == cmd' = [cmd EXCEPT ![p] = c]

(* Mutant of CmdLists: the session only has to exist.                      *)
CmdListsById(p) ==
  /\ cmd[p].at = "list"
  /\ \/ /\ IF cmd[p].want \in sessions
           THEN SetCmd(p, [cmd[p] EXCEPT !.at = "attach", !.got = cmd[p].want])
           ELSE SetCmd(p, [cmd[p] EXCEPT !.at = "start"])
        /\ UNCHANGED abandoned
     \/ /\ SetCmd(p, [cmd[p] EXCEPT !.at = "failed"])
        /\ abandoned' = abandoned \cup ({cmd[p].want} \cap sessions)
  /\ UNCHANGED <<tui, holder, launches, restarts, holderVars, paneVars, exits, kills, saved>>

(* The session to reattach must exist and belong to the directory.  When   *)
(* the sessions cannot be listed the pane fails, and nobody looks for its  *)
(* session again before the next launch.                                   *)
CmdLists(p) ==
  /\ cmd[p].at = "list"
  /\ \/ /\ IF cmd[p].want \in sessions /\ cwd[cmd[p].want] = Dir[p]
           THEN SetCmd(p, [cmd[p] EXCEPT !.at = "attach", !.got = cmd[p].want])
           ELSE SetCmd(p, [cmd[p] EXCEPT !.at = "start"])
        /\ UNCHANGED abandoned
     \/ /\ SetCmd(p, [cmd[p] EXCEPT !.at = "failed"])
        /\ abandoned' = abandoned \cup ({cmd[p].want} \cap sessions)
  /\ UNCHANGED <<tui, holder, launches, restarts, holderVars, paneVars, exits, kills, saved>>

(* The holder starts a session in directory d.                             *)
HolderStarts(d) ==
  /\ nextID \in Session
  /\ sessions' = sessions \cup {nextID}
  /\ running' = running \cup {nextID}
  /\ cwd' = [cwd EXCEPT ![nextID] = d]
  /\ nextID' = nextID + 1

(* A start that fails in the holder leaves nothing; one whose answer does  *)
(* not come leaves a session whose id nobody was told.                     *)
CmdStarts(p) ==
  /\ cmd[p].at = "start"
  /\ \/ /\ HolderStarts(Dir[p])
        /\ SetCmd(p, [cmd[p] EXCEPT !.at = "attach", !.got = nextID])
        /\ UNCHANGED abandoned
     \/ /\ HolderStarts(Dir[p])
        /\ SetCmd(p, [cmd[p] EXCEPT !.at = "failed"])
        /\ abandoned' = abandoned \cup {nextID}
     \/ SetCmd(p, [cmd[p] EXCEPT !.at = "failed"]) /\ UNCHANGED <<holderVars, abandoned>>
  /\ UNCHANGED <<tui, holder, launches, restarts, paneVars, exits, kills, saved>>

(* An attach that fails, whether the session vanished or no answer came,   *)
(* is followed by a fresh start when there was a session to reattach, and  *)
(* else by the failure of the pane.  A session that is there stays.        *)
CmdAttaches(p) ==
  /\ cmd[p].at = "attach"
  /\ \/ /\ cmd[p].got \in sessions
        /\ SetCmd(p, [cmd[p] EXCEPT !.at = "built", !.runs = cmd[p].got \in running])
        /\ UNCHANGED abandoned
     \/ /\ SetCmd(p, IF cmd[p].want # NoSession
                     THEN StartCmd(NoSession)
                     ELSE [cmd[p] EXCEPT !.at = "failed"])
        /\ abandoned' = abandoned \cup ({cmd[p].got} \cap sessions)
  /\ UNCHANGED <<tui, holder, launches, restarts, holderVars, paneVars, exits, kills, saved>>

-----------------------------------------------------------------------------
(* The update loop.                                                        *)

(* A user, the control socket or a plugin opens a pane; a floating one is  *)
(* not saved.                                                              *)
NewPane(p) ==
  /\ tui = "up" /\ pane[p] = "absent" /\ cmd[p] = NoCmd
  /\ pane' = [pane EXCEPT ![p] = "starting"]
  /\ session' = [session EXCEPT ![p] = NoSession]
  /\ saved' = Snapshot(pane', session')
  /\ SetCmd(p, StartCmd(NoSession))
  /\ UNCHANGED <<tui, holder, launches, restarts, abandoned, holderVars, term, exited, exits, kills>>

(* Mutant of PaneStarted: the new session is not saved.                    *)
PaneStartedUnsaved(p) ==
  /\ tui = "up" /\ cmd[p].at = "built" /\ pane[p] # "absent"
  /\ pane' = [pane EXCEPT ![p] = "shown"]
  /\ term' = [term EXCEPT ![p] = cmd[p].got]
  /\ exited' = [exited EXCEPT ![p] = ~cmd[p].runs]
  /\ session' = [session EXCEPT ![p] = cmd[p].got]
  /\ SetCmd(p, NoCmd)
  /\ UNCHANGED <<tui, holder, launches, restarts, abandoned, holderVars, exits, kills, saved>>

(* paneStartedMsg for a pane that is still there.                          *)
PaneStarted(p) ==
  /\ tui = "up" /\ cmd[p].at = "built" /\ pane[p] # "absent"
  /\ pane' = [pane EXCEPT ![p] = "shown"]
  /\ term' = [term EXCEPT ![p] = cmd[p].got]
  /\ exited' = [exited EXCEPT ![p] = ~cmd[p].runs]
  /\ session' = [session EXCEPT ![p] = cmd[p].got]
  /\ saved' = IF session' # session THEN Snapshot(pane', session') ELSE saved
  /\ SetCmd(p, NoCmd)
  /\ UNCHANGED <<tui, holder, launches, restarts, abandoned, holderVars, exits, kills>>

PaneFailed(p) ==
  /\ tui = "up" /\ cmd[p].at = "failed"
  /\ pane' = IF pane[p] = "absent" THEN pane ELSE [pane EXCEPT ![p] = "failed"]
  /\ SetCmd(p, NoCmd)
  /\ UNCHANGED <<tui, holder, launches, restarts, abandoned, holderVars, session, term,
                 exited, exits, kills, saved>>

(* Mutant of StartedTooLate: the terminal is dropped, not closed.          *)
StartedTooLateDropped(p) ==
  /\ tui = "up" /\ cmd[p].at = "built" /\ pane[p] = "absent"
  /\ SetCmd(p, NoCmd)
  /\ UNCHANGED <<tui, holder, launches, restarts, abandoned, holderVars, paneVars, exits, kills, saved>>

(* paneStartedMsg for a pane that was closed meanwhile: Pane.Close, which  *)
(* does nothing for a session that has exited.                             *)
StartedTooLate(p) ==
  /\ tui = "up" /\ cmd[p].at = "built" /\ pane[p] = "absent"
  /\ kills' = IF cmd[p].runs THEN kills \cup {cmd[p].got} ELSE kills
  /\ SetCmd(p, NoCmd)
  /\ UNCHANGED <<tui, holder, launches, restarts, abandoned, holderVars, paneVars, exits, saved>>

(* removePane: close the panes of P and save what is left.                 *)
Removes(P) ==
  /\ pane' = [p \in Pane |-> IF p \in P THEN "absent" ELSE pane[p]]
  /\ term' = [p \in Pane |-> IF p \in P THEN NoSession ELSE term[p]]
  /\ exited' = [p \in Pane |-> exited[p] /\ p \notin P]
  /\ session' = [p \in Pane |-> IF p \in P THEN NoSession ELSE session[p]]
  /\ kills' = kills \cup {term[p] : p \in {q \in P : term[q] # NoSession /\ ~exited[q]}}
  /\ saved' = Snapshot(pane', session')

(* A pane, a tab or a workspace is closed.                                 *)
ClosePanes(P) ==
  /\ tui = "up" /\ P # {} /\ \A p \in P : pane[p] # "absent"
  /\ Removes(P)
  /\ UNCHANGED <<tui, holder, launches, restarts, abandoned, holderVars, cmd, exits>>

(* HolderExitMsg: MarkExited on every pane that shows the session.         *)
HolderExit(s) ==
  /\ tui = "up" /\ s \in exits
  /\ exits' = exits \ {s}
  /\ exited' = [p \in Pane |-> exited[p] \/ (session[p] = s /\ term[p] # NoSession)]
  /\ UNCHANGED <<tui, holder, launches, restarts, abandoned, holderVars, pane, session, term, cmd,
                 kills, saved>>

(* paneUpdateMsg once the updates channel is closed: the pane goes.        *)
PaneEnds(p) ==
  /\ tui = "up" /\ pane[p] = "shown" /\ exited[p]
  /\ Removes({p})
  /\ UNCHANGED <<tui, holder, launches, restarts, abandoned, holderVars, cmd, exits>>

-----------------------------------------------------------------------------
CmdStep(p) == CmdLists(p) \/ CmdStarts(p) \/ CmdAttaches(p)

Message(p) == PaneStarted(p) \/ PaneFailed(p) \/ StartedTooLate(p) \/ PaneEnds(p)

Next ==
  \/ \E s \in Session : SessionExits(s) \/ KillArrives(s) \/ HolderExit(s)
  \/ HolderRestarts \/ Launch \/ Quit \/ Dies
  \/ \E p \in Pane : CmdStep(p) \/ Message(p) \/ NewPane(p)
  \/ \E P \in SUBSET Pane : ClosePanes(P)

Spec == Init /\ [][Next]_vars

(* Goroutines run and messages are handled.  Nothing obliges anybody to    *)
(* open, close, quit or launch.                                            *)
FairSpec == /\ Spec
            /\ \A p \in Pane : WF_vars(CmdStep(p)) /\ WF_vars(Message(p))
            /\ WF_vars(\E s \in Session : KillArrives(s))
            /\ WF_vars(\E s \in Session : HolderExit(s))

-----------------------------------------------------------------------------
Commands ==
  [at : {"none", "list", "start", "attach", "built", "failed"},
   want : {NoSession} \cup Session, got : {NoSession} \cup Session, runs : BOOLEAN]

TypeOK ==
  /\ tui \in {"down", "up"} /\ holder \in BOOLEAN /\ (holder <=> tui = "up")
  /\ launches \in 0..MaxLaunch /\ restarts \in 0..MaxRestart
  /\ running \subseteq sessions /\ sessions \subseteq Session
  /\ DOMAIN cwd = Session /\ \A s \in sessions : cwd[s] \in {Dir[p] : p \in Pane}
  /\ nextID \in 1..(MaxSession + 1)
  /\ pane \in [Pane -> {"absent", "starting", "shown", "failed"}]
  /\ session \in [Pane -> {NoSession} \cup Session]
  /\ term \in [Pane -> {NoSession} \cup Session]
  /\ exited \in [Pane -> BOOLEAN]
  /\ cmd \in [Pane -> Commands]
  /\ exits \subseteq Session /\ kills \subseteq Session /\ abandoned \subseteq Session
  /\ saved \in [Pane -> {NoSession, Absent} \cup Session]

(* What a pane, its command or a kill under way refers to.                 *)
Referenced == {session[p] : p \in Pane} \cup kills
                \cup UNION {{cmd[p].want, cmd[p].got} : p \in Pane}

Shown == {p \in Pane : pane[p] = "shown"}

(* A pane never shows a session started in another directory, whatever id  *)
(* the state file has for it.  "Never attach that PTY to the wrong         *)
(* workspace" (startHolderPane).                                           *)
NeverWrongWorkspace == \A p \in Shown : cwd[term[p]] = Dir[p]

(* A crash of the terminal interface loses no pane: the state file names   *)
(* the session of every pane shown that is to be kept (paneStartedMsg).    *)
ShownPaneSaved == \A p \in Shown \ Floating : saved[p] = term[p]

(* As long as the holder is the one the sessions were saved for, no        *)
(* program runs that no pane shows, none is about to show, and that is not *)
(* about to be killed (paneStartedMsg of a closed pane, removePane,        *)
(* gcHolderSessions), but for those of calls that got no answer since the  *)
(* launch: the next one finds and kills them, and starts with none ...     *)
SameHolder == restarts = 0

NoLostSession == tui = "up" /\ SameHolder => running \subseteq Referenced \cup abandoned

(* ... and a session is killed only when its pane is closed: no kill is    *)
(* under way for a session that a pane shows (gcHolderSessions, Close).    *)
ShownNotKilled == SameHolder => \A p \in Shown : term[p] \notin kills

(* The sessions of the holder and the panes of the interface keep in step, *)
(* in both directions.                                                     *)
SessionsMatchPanes == NoLostSession /\ ShownNotKilled

(* No pane shares its program with another: "if a session is truly gone,   *)
(* agents resume their latest conversation" (README).                      *)
NoSharedSession ==
  \A p, q \in Shown : term[p] = term[q] => p = q

(* Floating panes "never leave a detached holder session, and are closed   *)
(* through the normal pane cleanup path when [...] the TUI quits"          *)
(* (docs/plugin-platform.md; closeAll).                                    *)
FloatingGone ==
  [][Quit => \A p \in Floating \cap Shown : term[p] \notin running']_vars

(* A program of no pane ends, unless hrdx does: whatever closes a pane, in *)
(* whatever phase of its start, gets its session killed, and a launch that *)
(* can list the sessions gets those killed that an earlier one left behind *)
(* by a call without an answer.                                            *)
UnwantedEnds ==
  \A s \in Session :
    (tui = "up" /\ SameHolder /\ s \in running \ abandoned /\ \A p \in Pane : session[p] # s)
      ~> (s \notin running \/ s \in abandoned \/ tui = "down" \/ \E p \in Shown : term[p] = s)

(* Expected to fail: a pane to reattach gets a fresh session only when its *)
(* own is gone.  "The session vanished (holder restarted): start fresh"    *)
(* (model.go:824), but any error of Attach is taken for that, a time-out   *)
(* too: the old session runs on and no pane shows it until the next        *)
(* launch.                                                                 *)
FreshOnlyIfVanished ==
  [][\A p \in Pane : cmd[p].at = "attach" /\ cmd'[p].at = "start"
                        => cmd[p].got \notin sessions]_vars

(* "Panes whose process exits (for example `exit` in a shell) close        *)
(* automatically" (README; HolderExitMsg and paneUpdateMsg).               *)
ExitedPaneCloses ==
  \A p \in Pane : (p \in Shown /\ term[p] \notin running) ~> p \notin Shown
=============================================================================
