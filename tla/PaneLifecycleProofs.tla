------------------------- MODULE PaneLifecycleProofs -------------------------
(***************************************************************************)
(* Panes and the holder's sessions keep in step, for any number of panes,  *)
(* floating ones among them, sessions, launches, crashes and replacements  *)
(* of the holder.                                                          *)
(*                                                                         *)
(* None of the three invariants is inductive.  They need what a start      *)
(* command has in hand at each step (Commands), that a pane's session is   *)
(* the one its terminal shows (Phases), that the state file is at any time *)
(* a snapshot of the layout (SavedInv), and, as long as the holder is the  *)
(* one the sessions were saved for, that everything refers to a session of *)
(* its own (SameInv): a session two panes share would be killed with the   *)
(* first of them.  A call without an answer may leave a session running    *)
(* that nobody looks for before the next launch; the others are Sought.    *)
(*                                                                         *)
(* The second part is about Workspaces, for any panes, workspaces and      *)
(* tabs.  LayoutsComplete says of one tab what a handler needs of all of   *)
(* them: that no pane is in two tabs or workspaces, that what floats is    *)
(* open, and that the state file has lists and trees a launch can restore  *)
(* (SpacesInv).  A tree is a list of nodes, so what a handler makes of one *)
(* is what it makes of a list: Shows says which panes the leaves have, and *)
(* each operator of SplitTree has a lemma about it.                        *)
(***************************************************************************)
EXTENDS PaneLifecycle, Workspaces, WellFoundedInduction, SequenceTheorems, FiniteSetTheorems, TLAPS

Started == 1 .. (nextID - 1)

(* The sessions a pane refers to: its own, the one its start command wants *)
(* and the one it has got.                                                 *)
Refs(p) == {session[p], cmd[p].want, cmd[p].got} \ {NoSession}

(* What runs and was not given up by a call that got no answer.            *)
Sought == running \ abandoned

Cleared ==
  /\ pane = [p \in Pane |-> "absent"] /\ session = [p \in Pane |-> NoSession]
  /\ term = [p \in Pane |-> NoSession] /\ exited = [p \in Pane |-> FALSE]
  /\ cmd = [p \in Pane |-> NoCmd]
  /\ exits = {} /\ kills = {}

HolderInv ==
  /\ TypeOK /\ cwd = [s \in Session |-> cwd[s]]
  /\ sessions \subseteq Started /\ kills \subseteq Started /\ exits \subseteq Started
  /\ exits \cap running = {}
  /\ tui = "down" => Cleared

Phase(p) ==
  /\ pane[p] = "absent" => session[p] = NoSession
  /\ pane[p] # "shown" => term[p] = NoSession
  /\ pane[p] = "shown" => /\ term[p] = session[p] /\ term[p] \in Started
                          /\ cwd[term[p]] = Dir[p]
                          /\ exited[p] => term[p] \notin running
  /\ pane[p] \in {"shown", "failed"} => cmd[p] = NoCmd

Command(p) ==
  /\ cmd[p].at = "none" => cmd[p] = NoCmd
  /\ cmd[p].got \in {NoSession} \cup Started
  /\ cmd[p].at \in {"list", "start"} => cmd[p].got = NoSession
  /\ cmd[p].at \in {"attach", "built"} => /\ cmd[p].got \in Started
                                          /\ cwd[cmd[p].got] = Dir[p]
  /\ cmd[p].at = "built" /\ ~cmd[p].runs => cmd[p].got \notin running
  /\ cmd[p].at = "failed" => cmd[p].got \notin Sought

SavedInv ==
  /\ tui = "up" => saved = Snapshot(pane, session)
  /\ \A p \in Floating : saved[p] = Absent

(* What pane p refers to, while the holder is the same.                    *)
Own(p) ==
  /\ \A r \in Refs(p) : r \in Started /\ cwd[r] = Dir[p] /\ r \notin kills
  /\ \/ cmd[p].at = "list" \/ cmd[p].got = cmd[p].want
     \/ cmd[p].want \notin Sought
  /\ pane[p] # "shown" => session[p] = cmd[p].want \/ session[p] \notin Sought

Apart(p, q) == p # q => Refs(p) \cap Refs(q) = {}

OwnSaved(p) == saved[p] \in Session => saved[p] \in Started /\ cwd[saved[p]] = Dir[p]

SavedApart(p, q) == saved[p] = saved[q] /\ saved[p] \in Session => p = q

SameInv ==
  SameHolder =>
    /\ \A p \in Pane : Own(p) /\ OwnSaved(p)
    /\ \A p, q \in Pane : Apart(p, q) /\ SavedApart(p, q)
    /\ tui = "up" => \A s \in Sought : s \in kills \/ \E p \in Pane : s \in Refs(p)

LifecycleInv ==
  /\ HolderInv
  /\ \A p \in Pane : Phase(p) /\ Command(p)
  /\ SavedInv
  /\ SameInv

-----------------------------------------------------------------------------
(* What the definitions say of one pane.                                   *)
LEMMA Fields ==
  ASSUME LifecycleInv, NEW p \in Pane
  PROVE  /\ cmd[p] \in Commands
         /\ cmd[p] = [at |-> cmd[p].at, want |-> cmd[p].want,
                      got |-> cmd[p].got, runs |-> cmd[p].runs]
         /\ session[p] \in {NoSession} \cup Session /\ term[p] \in {NoSession} \cup Session
         /\ exited[p] \in BOOLEAN
         /\ pane[p] \in {"absent", "starting", "shown", "failed"}
         /\ saved[p] \in {NoSession, Absent} \cup Session
<1>1. cmd[p] \in Commands
  BY DEF LifecycleInv, HolderInv, TypeOK
<1>2. cmd[p] = [at |-> cmd[p].at, want |-> cmd[p].want, got |-> cmd[p].got, runs |-> cmd[p].runs]
  BY <1>1 DEF Commands
<1> QED BY <1>1, <1>2 DEF LifecycleInv, HolderInv, TypeOK

LEMMA Numbers == Session \subseteq Nat /\ NoSession \notin Session /\ Absent \notin Session
                   /\ Absent # NoSession /\ NoSession \notin Started
  BY PaneLifecycleAssumption DEF Session, NoSession, Absent, Started

LEMMA StartCommands ==
  ASSUME NEW s \in {NoSession} \cup Session
  PROVE  /\ StartCmd(s) \in Commands /\ NoCmd \in Commands
         /\ StartCmd(s).at = (IF s = NoSession THEN "start" ELSE "list")
         /\ StartCmd(s).want = s /\ StartCmd(s).got = NoSession /\ StartCmd(s).runs = FALSE
         /\ NoCmd.at = "none" /\ NoCmd.want = NoSession /\ NoCmd.got = NoSession
         /\ NoCmd.runs = FALSE
<1> DEFINE step == IF s = NoSession THEN "start" ELSE "list"
<1>1. step \in {"start", "list"}
  OBVIOUS
<1>2. StartCmd(s) = [at |-> step, want |-> s, got |-> NoSession, runs |-> FALSE]
  BY DEF StartCmd, NoCmd
<1> HIDE DEF step
<1>3. StartCmd(s) \in Commands /\ NoCmd \in Commands
  BY <1>1, <1>2 DEF Commands, NoCmd
<1>4. /\ StartCmd(s).at = step /\ StartCmd(s).want = s
      /\ StartCmd(s).got = NoSession /\ StartCmd(s).runs = FALSE
  BY <1>2
<1>5. /\ NoCmd.at = "none" /\ NoCmd.want = NoSession /\ NoCmd.got = NoSession
      /\ NoCmd.runs = FALSE
  BY DEF NoCmd
<1> QED BY <1>3, <1>4, <1>5 DEF step

(* What a command has in hand after a step.                                *)
LEMMA AtHow ==
  ASSUME NEW c \in Commands, NEW a \in {"start", "failed"}, NEW d, d = [c EXCEPT !.at = a]
  PROVE  d \in Commands /\ d.at = a /\ d.want = c.want /\ d.got = c.got /\ d.runs = c.runs
  BY DEF Commands

(* A command takes one step; the others stay where they are.               *)
LEMMA OneCommand ==
  ASSUME LifecycleInv, NEW p \in Pane, NEW c \in Commands, SetCmd(p, c)
  PROVE  /\ cmd' \in [Pane -> Commands] /\ cmd'[p] = c
         /\ \A q \in Pane \ {p} : cmd'[q] = cmd[q]
  BY DEF SetCmd, LifecycleInv, HolderInv, TypeOK

-----------------------------------------------------------------------------
LEMMA InitLifecycleInv == Init => LifecycleInv
<1> SUFFICES ASSUME Init PROVE LifecycleInv
  OBVIOUS
<1>1. Cleared
  BY DEF Init, Cleared
<1>2. NoCmd \in Commands
  BY StartCommands
<1>3. 1 \in 1 .. (MaxSession + 1) /\ 0 \in 0 .. MaxLaunch /\ 0 \in 0 .. MaxRestart
  BY PaneLifecycleAssumption
<1>4. TypeOK
  BY <1>2, <1>3 DEF Init, TypeOK
<1>5. HolderInv
  BY <1>1, <1>4 DEF Init, HolderInv
<1>6. ASSUME NEW p \in Pane PROVE Phase(p) /\ Command(p)
  BY StartCommands DEF Init, Phase, Command
<1>7. SavedInv
  BY PaneLifecycleAssumption DEF Init, SavedInv
<1>8. SameInv
  <2>1. ASSUME NEW p \in Pane
        PROVE  Refs(p) = {} /\ session[p] = cmd[p].want /\ cmd[p].got = cmd[p].want
               /\ saved[p] \notin Session
    BY StartCommands, Numbers DEF Init, Refs
  <2>2. tui # "up"
    BY DEF Init
  <2> QED BY <2>1, <2>2 DEF SameInv, Own, Apart, OwnSaved, SavedApart
<1> QED BY <1>5, <1>6, <1>7, <1>8 DEF LifecycleInv

-----------------------------------------------------------------------------
(* Programs end, kills arrive and exits are noticed: nothing starts, and a *)
(* kill that is gone has done its work.                                    *)
LEMMA EndingsKeep ==
  ASSUME LifecycleInv, HolderInv',
         UNCHANGED <<tui, restarts, cwd, nextID, pane, session, term, cmd, saved, abandoned>>,
         running' \subseteq running, kills' \subseteq kills,
         \A s \in kills : s \in kills' \/ s \notin running',
         \A p \in Pane : exited'[p] =>
           exited[p] \/ session[p] \in exits
  PROVE  LifecycleInv'
<1> USE DEF LifecycleInv
<1>1. /\ exits \cap running = {} /\ Started' = Started /\ Sought' \subseteq Sought
      /\ \A s \in kills : s \in kills' \/ s \notin Sought'
  BY DEF HolderInv, Started, Sought
<1>2. ASSUME NEW p \in Pane PROVE Phase(p)'
  BY <1>1 DEF Phase
<1>3. ASSUME NEW p \in Pane PROVE Command(p)'
  BY <1>1 DEF Command
<1>4. SavedInv'
  BY DEF SavedInv, Snapshot
<1>5. ASSUME NEW p \in Pane PROVE Refs(p)' = Refs(p)
  BY DEF Refs
<1>6. SameInv'
  <2> SUFFICES ASSUME SameHolder PROVE SameInv'
    BY DEF SameInv, SameHolder
  <2>1. ASSUME NEW p \in Pane PROVE Own(p)' /\ OwnSaved(p)'
    BY <1>1, <1>5 DEF SameInv, Own, OwnSaved, Session
  <2>2. ASSUME NEW p \in Pane, NEW q \in Pane PROVE Apart(p, q)' /\ SavedApart(p, q)'
    BY <1>5 DEF SameInv, Apart, SavedApart, Session
  <2>3. ASSUME tui' = "up", NEW s \in Sought'
        PROVE  s \in kills' \/ \E p \in Pane : s \in Refs(p)'
    BY <1>1, <1>5, <2>3 DEF SameInv
  <2> QED BY <2>1, <2>2, <2>3 DEF SameInv
<1> QED BY <1>2, <1>3, <1>4, <1>6

LEMMA SessionExitsKeeps ==
  ASSUME LifecycleInv, NEW s \in Session, SessionExits(s)
  PROVE  LifecycleInv'
<1> USE DEF LifecycleInv
<1>1. exits' \subseteq exits \cup {s} /\ exits' \cap running' = {} /\ s \in Started
  BY DEF SessionExits, HolderInv, TypeOK
<1>2. tui = "down" => exits' = exits
  BY DEF SessionExits, HolderInv, TypeOK
<1>3. TypeOK'
  BY <1>1 DEF SessionExits, HolderInv, TypeOK, holderVars, paneVars, Session
<1>4. HolderInv'
  BY <1>1, <1>2, <1>3 DEF SessionExits, HolderInv, Cleared, Started, paneVars, Session
<1> QED BY <1>4, EndingsKeep DEF SessionExits, paneVars

LEMMA KillArrivesKeeps ==
  ASSUME LifecycleInv, NEW s \in Session, KillArrives(s)
  PROVE  LifecycleInv'
<1> USE DEF LifecycleInv
<1>1. exits' \subseteq exits \cup {s} /\ exits' \cap running' = {} /\ s \in Started /\ tui = "up"
  BY DEF KillArrives, HolderInv, TypeOK
<1>3. TypeOK'
  BY <1>1 DEF KillArrives, HolderInv, TypeOK, paneVars, Session
<1>4. HolderInv'
  BY <1>1, <1>3 DEF KillArrives, HolderInv, Started, paneVars, Session
<1> QED BY <1>4, EndingsKeep DEF KillArrives, paneVars

LEMMA HolderExitKeeps ==
  ASSUME LifecycleInv, NEW s \in Session, HolderExit(s)
  PROVE  LifecycleInv'
<1> USE DEF LifecycleInv
<1>1. ASSUME NEW p \in Pane
      PROVE  exited'[p] \in BOOLEAN /\ (exited'[p] => exited[p] \/ session[p] \in exits)
  BY Fields DEF HolderExit
<1>2. exited' \in [Pane -> BOOLEAN]
  BY <1>1 DEF HolderExit
<1>3. TypeOK'
  BY <1>2 DEF HolderExit, HolderInv, TypeOK, holderVars, Session
<1>4. HolderInv'
  BY <1>3 DEF HolderExit, HolderInv, Started, holderVars, Session
<1> QED BY <1>1, <1>4, EndingsKeep DEF HolderExit, holderVars

LEMMA StutterLifecycleInv == LifecycleInv /\ UNCHANGED vars => LifecycleInv'
<1> SUFFICES ASSUME LifecycleInv, UNCHANGED vars PROVE LifecycleInv'
  OBVIOUS
<1> USE DEF LifecycleInv, vars, holderVars, paneVars
<1>1. TypeOK' /\ Started' = Started
  BY DEF HolderInv, TypeOK, Started
<1>2. Cleared => Cleared'
  BY DEF Cleared
<1>3. HolderInv'
  BY <1>1, <1>2 DEF HolderInv
<1> QED BY <1>3, EndingsKeep

-----------------------------------------------------------------------------
(* The holder goes; what is left of it is of no use to a pane, but there   *)
(* are no panes.                                                           *)
LEMMA HolderRestartsKeeps ==
  ASSUME LifecycleInv, HolderRestarts
  PROVE  LifecycleInv'
<1> USE DEF LifecycleInv
<1>1. tui = "down" /\ Cleared /\ restarts \in Nat /\ restarts' = restarts + 1
  BY DEF HolderRestarts, HolderInv, TypeOK
<1>2. ~SameHolder'
  BY <1>1 DEF SameHolder
<1>3. 1 \in 1 .. (MaxSession + 1) /\ restarts' \in 0 .. MaxRestart
  BY PaneLifecycleAssumption DEF HolderRestarts, HolderInv, TypeOK
<1>4. TypeOK'
  BY <1>3 DEF HolderRestarts, HolderInv, TypeOK, paneVars, Session
<1>5. Cleared'
  BY <1>1 DEF Cleared, HolderRestarts, paneVars
<1>6. HolderInv'
  BY <1>4, <1>5 DEF HolderInv, Cleared, HolderRestarts
<1>7. ASSUME NEW p \in Pane PROVE Phase(p)' /\ Command(p)'
  BY <1>5, StartCommands DEF Cleared, Phase, Command
<1>8. SavedInv'
  BY <1>1 DEF SavedInv, HolderRestarts
<1>9. SameInv'
  BY <1>2 DEF SameInv
<1> QED BY <1>6, <1>7, <1>8, <1>9

(* A launch restores what was saved and kills the rest.                    *)
LEMMA LaunchKeeps ==
  ASSUME LifecycleInv, Launch
  PROVE  LifecycleInv'
<1> USE DEF LifecycleInv
<1>1. /\ Cleared /\ exits = {} /\ tui' = "up" /\ Started' = Started
      /\ UNCHANGED <<restarts, sessions, running, cwd, nextID, saved, exits>>
  BY DEF Launch, HolderInv, Cleared, holderVars, Started
<1>2. ASSUME NEW p \in Pane
      PROVE  /\ saved[p] = Absent => /\ pane'[p] = "absent" /\ session'[p] = NoSession
                                     /\ cmd'[p] = NoCmd
             /\ saved[p] # Absent => /\ pane'[p] = "starting" /\ session'[p] = saved[p]
                                     /\ cmd'[p] = StartCmd(saved[p])
                                     /\ saved[p] \in {NoSession} \cup Session
             /\ term'[p] = NoSession /\ exited'[p] = FALSE
  BY Fields DEF Launch, Restores
<1>3. ASSUME NEW p \in Pane
      PROVE  /\ cmd'[p] \in Commands /\ pane'[p] \in {"absent", "starting"}
             /\ session'[p] \in {NoSession} \cup Session
             /\ cmd'[p].at \in {"none", "start", "list"}
             /\ cmd'[p].want = session'[p] /\ cmd'[p].got = NoSession
             /\ cmd'[p].at \in {"none", "start"} => session'[p] = NoSession
             /\ cmd'[p].at = "none" => cmd'[p] = NoCmd
             /\ saved[p] = Absent => session'[p] = NoSession
  <2>1. CASE saved[p] = Absent
    BY <2>1, <1>2, StartCommands
  <2>2. CASE saved[p] # Absent
    <3>1. saved[p] \in {NoSession} \cup Session /\ saved[p] # Absent
      BY <2>2, <1>2
    <3>2. /\ StartCmd(saved[p]) \in Commands /\ StartCmd(saved[p]).want = saved[p]
          /\ StartCmd(saved[p]).got = NoSession
          /\ StartCmd(saved[p]).at = (IF saved[p] = NoSession THEN "start" ELSE "list")
      BY <3>1, StartCommands
    <3>3. cmd'[p] = StartCmd(saved[p]) /\ session'[p] = saved[p] /\ pane'[p] = "starting"
      BY <2>2, <1>2
    <3> QED BY <3>1, <3>2, <3>3
  <2> QED BY <2>1, <2>2
<1>4. /\ kills' \subseteq sessions /\ abandoned' \subseteq sessions
      /\ \A p \in Pane : saved[p] \notin kills'
  BY DEF Launch, Unreferenced
<1>5. TypeOK'
  <2>1. /\ cmd' \in [Pane -> Commands] /\ session' \in [Pane -> {NoSession} \cup Session]
        /\ pane' \in [Pane -> {"absent", "starting", "shown", "failed"}]
        /\ term' \in [Pane -> {NoSession} \cup Session] /\ exited' \in [Pane -> BOOLEAN]
    BY <1>2, <1>3 DEF Launch, Restores
  <2>2. launches' \in 0 .. MaxLaunch
    BY PaneLifecycleAssumption DEF Launch, HolderInv, TypeOK
  <2> QED BY <1>1, <1>4, <2>1, <2>2 DEF Launch, HolderInv, TypeOK, Session
<1>6. HolderInv'
  BY <1>1, <1>4, <1>5 DEF HolderInv, Session
<1>7. ASSUME NEW p \in Pane PROVE Phase(p)' /\ Command(p)'
  BY <1>2, <1>3 DEF Phase, Command
<1>8. SavedInv'
  <2>1. ASSUME NEW p \in Pane
        PROVE  saved[p] = (IF pane'[p] # "absent" /\ p \notin Floating THEN session'[p] ELSE Absent)
    BY <1>2 DEF SavedInv
  <2>2. saved = [p \in Pane |-> saved[p]]
    BY DEF HolderInv, TypeOK
  <2>3. saved = [p \in Pane |-> IF pane'[p] # "absent" /\ p \notin Floating
                                THEN session'[p] ELSE Absent]
    BY <2>1, <2>2
  <2> QED BY <1>1, <2>3 DEF SavedInv, Snapshot
<1>9. SameInv'
  <2> SUFFICES ASSUME SameHolder PROVE SameInv'
    BY <1>1 DEF SameInv, SameHolder
  <2>0. ASSUME NEW p \in Pane, NEW r \in Refs(p)'
        PROVE  r = session'[p] /\ r \in Session /\ r = saved[p]
    <3>1. r = session'[p] /\ r # NoSession
      BY <1>3 DEF Refs
    <3>2. r = saved[p] /\ session'[p] \in {NoSession} \cup Session
      BY <1>2, <1>3, <3>1
    <3> QED BY <3>1, <3>2
  <2>1. ASSUME NEW p \in Pane PROVE Own(p)' /\ OwnSaved(p)'
    <3>1. OwnSaved(p)' /\ OwnSaved(p)
      BY <1>1 DEF SameInv, OwnSaved, Session
    <3>2. ASSUME NEW r \in Refs(p)' PROVE r \in Started' /\ cwd'[r] = Dir[p] /\ r \notin kills'
      BY <1>1, <1>4, <2>0, <3>1 DEF OwnSaved
    <3>3. cmd'[p].at = "list" \/ cmd'[p].got = cmd'[p].want
      BY <1>3
    <3> QED BY <1>3, <3>1, <3>2, <3>3 DEF Own
  <2>2. ASSUME NEW p \in Pane, NEW q \in Pane PROVE Apart(p, q)' /\ SavedApart(p, q)'
    <3>1. SavedApart(p, q) /\ SavedApart(p, q)'
      BY <1>1 DEF SameInv, SavedApart, Session
    <3> QED BY <2>0, <3>1 DEF Apart, SavedApart
  <2>3. ASSUME NEW s \in Sought'
        PROVE  s \in kills' \/ \E p \in Pane : s \in Refs(p)'
    <3>1. s \in sessions /\ s \in Session /\ s \notin abandoned'
      BY <1>1 DEF Sought, HolderInv, TypeOK
    <3>2. CASE \E p \in Pane : saved[p] = s
      <4>1. PICK p \in Pane : saved[p] = s
        BY <3>2
      <4>2. session'[p] = s
        BY <4>1, <3>1, <1>2, Numbers
      <4> QED BY <4>2, <3>1, Numbers DEF Refs
    <3>3. CASE ~\E p \in Pane : saved[p] = s
      BY <3>1, <3>3 DEF Launch, Unreferenced
    <3> QED BY <3>2, <3>3
  <2> QED BY <2>1, <2>2, <2>3 DEF SameInv
<1> QED BY <1>6, <1>7, <1>8, <1>9

(* The end of the interface: nothing is left of it but the state file.     *)
LEMMA EndsKeeps ==
  ASSUME LifecycleInv, ProcessEnds, tui = "up",
         sessions' \subseteq sessions, running' \subseteq sessions', running' \subseteq running,
         saved' = saved \/ saved' = Snapshot(pane, session)
  PROVE  LifecycleInv'
<1> USE DEF LifecycleInv
<1>1. Cleared' /\ tui' = "down" /\ UNCHANGED <<cwd, nextID, restarts, launches>>
  BY DEF ProcessEnds, Cleared
<1>2. saved = Snapshot(pane, session) /\ saved' = saved
  BY DEF SavedInv
<1>3. NoCmd \in Commands
  BY StartCommands
<1>4. TypeOK'
  BY <1>2, <1>3 DEF ProcessEnds, HolderInv, TypeOK, Session
<1>5. HolderInv'
  BY <1>1, <1>4 DEF HolderInv, Cleared, Started
<1>6. ASSUME NEW p \in Pane PROVE Phase(p)' /\ Command(p)'
  BY <1>1, StartCommands DEF Cleared, Phase, Command
<1>7. SavedInv'
  BY <1>1, <1>2 DEF SavedInv
<1>8. SameInv'
  <2> SUFFICES ASSUME SameHolder PROVE SameInv'
    BY <1>1 DEF SameInv, SameHolder
  <2>1. ASSUME NEW p \in Pane PROVE Refs(p)' = {} /\ Own(p)'
    BY <1>1, StartCommands, ZenonT(30) DEF Cleared, Refs, Own
  <2>2. ASSUME NEW p \in Pane PROVE OwnSaved(p)'
    BY <1>1, <1>2 DEF SameInv, OwnSaved, Started, Session
  <2>3. ASSUME NEW p \in Pane, NEW q \in Pane PROVE Apart(p, q)' /\ SavedApart(p, q)'
    BY <1>2, <2>1 DEF SameInv, Apart, SavedApart, Session
  <2> QED BY <1>1, <2>1, <2>2, <2>3 DEF SameInv
<1> QED BY <1>5, <1>6, <1>7, <1>8

LEMMA QuitKeeps ==
  ASSUME LifecycleInv, Quit
  PROVE  LifecycleInv'
<1>1. PICK written : sessions' = sessions \ written /\ running' = running \ written
  BY DEF Quit
<1>2. running \subseteq sessions
  BY DEF LifecycleInv, HolderInv, TypeOK
<1> QED BY <1>1, <1>2, EndsKeeps DEF Quit

LEMMA DiesKeeps ==
  ASSUME LifecycleInv, Dies
  PROVE  LifecycleInv'
<1>1. PICK written : sessions' = sessions \ written /\ running' = running \ written
  BY DEF Dies
<1>2. running \subseteq sessions
  BY DEF LifecycleInv, HolderInv, TypeOK
<1> QED BY <1>1, <1>2, EndsKeeps DEF Dies

-----------------------------------------------------------------------------
(* A step of the command that starts pane p, c being what it has in hand   *)
(* afterwards: it forgets no session that runs, and a session it starts is *)
(* one that nobody refers to.                                              *)
LEMMA CommandKeeps ==
  ASSUME LifecycleInv, HolderInv', NEW p \in Pane, NEW c \in Commands, SetCmd(p, c),
         UNCHANGED <<tui, restarts, pane, session, term, exited, exits, kills, saved>>,
         cmd[p].at # "none",
         Started \subseteq Started', running \subseteq running',
         \A s \in Started : (s \in running' => s \in running) /\ cwd'[s] = cwd[s],
         \A s \in Started : s \in Sought' => s \in Sought,
         Command(p)',
         SameHolder => /\ Own(p)'
                       /\ \A q \in Pane : Refs(p)' \cap Refs(q) \subseteq Refs(p)
                       /\ \A s \in Sought' : s \in Sought \/ s \in Refs(p)'
                       /\ \A s \in Refs(p) : s \notin Sought' \/ s \in Refs(p)'
  PROVE  LifecycleInv'
<1> USE DEF LifecycleInv
<1>1. cmd' \in [Pane -> Commands] /\ cmd'[p] = c /\ \A q \in Pane \ {p} : cmd'[q] = cmd[q]
  BY OneCommand
<1>2. pane[p] \notin {"shown", "failed"}
  BY StartCommands DEF Phase
<1>3. ASSUME NEW q \in Pane PROVE Phase(q)'
  <2>1. Phase(q)
    OBVIOUS
  <2>2. q = p \/ cmd'[q] = cmd[q]
    BY <1>1
  <2> QED BY <1>2, <2>1, <2>2 DEF Phase
<1>4. ASSUME NEW q \in Pane PROVE Command(q)'
  <2>1. CASE q = p
    BY <2>1
  <2>2. CASE q # p
    <3>1. cmd'[q] = cmd[q] /\ Command(q)
      BY <1>1, <2>2
    <3>2. NoSession \notin running' /\ NoSession \notin Sought'
      BY Numbers DEF HolderInv, TypeOK, Session, Sought
    <3> QED BY <3>1, <3>2 DEF Command
  <2> QED BY <2>1, <2>2
<1>5. SavedInv'
  BY DEF SavedInv, Snapshot
<1>6. ASSUME NEW q \in Pane, q # p PROVE Refs(q)' = Refs(q)
  BY <1>1, <1>6 DEF Refs
<1>7. SameInv'
  <2> SUFFICES ASSUME SameHolder PROVE SameInv'
    BY DEF SameInv, SameHolder
  <2>1. ASSUME NEW q \in Pane PROVE Own(q)'
    <3>1. CASE q = p
      BY <3>1
    <3>2. CASE q # p
      <4>1. Own(q) /\ cmd'[q] = cmd[q] /\ Refs(q)' = Refs(q)
        BY <1>1, <1>6, <3>2 DEF SameInv
      <4>2. NoSession \notin Sought'
        BY Numbers DEF HolderInv, TypeOK, Session, Sought
      <4>3. ASSUME NEW r, r = session[q] \/ r = cmd[q].want
            PROVE  r \in Sought' => r \in Sought
        BY <4>1, <4>2, <4>3 DEF Own, Refs
      <4> QED BY <4>1, <4>3 DEF Own
    <3> QED BY <3>1, <3>2
  <2>2. ASSUME NEW q \in Pane PROVE OwnSaved(q)'
    BY DEF SameInv, OwnSaved, Session
  <2>3. ASSUME NEW q \in Pane, NEW r \in Pane PROVE Apart(q, r)' /\ SavedApart(q, r)'
    <3>1. Apart(q, r) /\ SavedApart(q, r) /\ Apart(r, q)
      BY DEF SameInv
    <3>2. SavedApart(q, r)'
      BY <3>1 DEF SavedApart, Session
    <3>3. CASE q # p /\ r # p
      BY <1>6, <3>1, <3>2, <3>3 DEF Apart
    <3>4. CASE q = p /\ r # p
      BY <1>6, <3>1, <3>2, <3>4 DEF Apart
    <3>5. CASE q # p /\ r = p
      BY <1>6, <3>1, <3>2, <3>5 DEF Apart
    <3> QED BY <3>2, <3>3, <3>4, <3>5 DEF Apart
  <2>4. ASSUME tui' = "up", NEW s \in Sought'
        PROVE  s \in kills' \/ \E q \in Pane : s \in Refs(q)'
    <3>1. CASE s \in Sought
      <4>1. s \in kills \/ \E q \in Pane : s \in Refs(q)
        BY <2>4, <3>1 DEF SameInv
      <4>2. ASSUME NEW q \in Pane, s \in Refs(q) PROVE \E r \in Pane : s \in Refs(r)'
        BY <1>6, <2>4, <4>2
      <4> QED BY <4>1, <4>2
    <3>2. CASE s \notin Sought
      BY <2>4, <3>2
    <3> QED BY <3>1, <3>2
  <2> QED BY <2>1, <2>2, <2>3, <2>4 DEF SameInv
<1> QED BY <1>3, <1>4, <1>5, <1>7

(* The same of a step that leaves the holder alone: what the command does  *)
(* not refer to any longer does not run or is given up, and it refers to   *)
(* nothing new.                                                            *)
LEMMA LocalCommandKeeps ==
  ASSUME LifecycleInv, NEW p \in Pane, NEW c \in Commands, SetCmd(p, c),
         UNCHANGED <<tui, holder, launches, restarts, holderVars, paneVars, exits, kills, saved>>,
         cmd[p].at # "none", Command(p)', abandoned \subseteq abandoned', abandoned' \subseteq Session,
         c.want \in {NoSession, cmd[p].want}, c.got \in {NoSession, cmd[p].want, cmd[p].got},
         SameHolder => /\ c.at = "list" \/ c.got = c.want \/ c.want \notin Sought'
                       /\ c.want = cmd[p].want \/ cmd[p].want \notin Sought'
                       /\ c.got = cmd[p].got \/ cmd[p].got \notin Sought'
  PROVE  LifecycleInv'
<1> USE DEF LifecycleInv
<1>1. cmd' \in [Pane -> Commands] /\ cmd'[p] = c
  BY OneCommand
<1>2. TypeOK' /\ Started' = Started /\ Sought' \subseteq Sought
  BY <1>1 DEF HolderInv, TypeOK, holderVars, paneVars, Started, Session, Sought
<1>3. tui # "down"
  BY StartCommands, ZenonT(30) DEF HolderInv, Cleared
<1>4. HolderInv'
  BY <1>2, <1>3 DEF HolderInv, holderVars, Session
<1>5. ASSUME SameHolder
      PROVE  /\ Refs(p)' \subseteq Refs(p) /\ Own(p)'
             /\ \A s \in Refs(p) : s \notin Sought' \/ s \in Refs(p)'
  <2>1. Refs(p)' \subseteq Refs(p)
    BY <1>1 DEF Refs, paneVars
  <2>2. Own(p)
    BY <1>5 DEF SameInv
  <2>3. NoSession \notin Sought'
    BY <1>2, Numbers DEF HolderInv, TypeOK, Session, Sought
  <2>4. pane[p] # "shown" => session[p] = c.want \/ session[p] \notin Sought'
    BY <1>2, <1>5, <2>2, <2>3 DEF Own
  <2>5. Own(p)'
    BY <1>1, <1>2, <1>5, <2>1, <2>2, <2>4 DEF Own, holderVars, paneVars
  <2>6. ASSUME NEW s \in Refs(p) PROVE s \notin Sought' \/ s \in Refs(p)'
    BY <1>1, <1>5 DEF Refs, holderVars, paneVars
  <2> QED BY <2>1, <2>5, <2>6
<1> QED BY <1>1, <1>2, <1>4, <1>5, CommandKeeps DEF holderVars, paneVars

LEMMA CmdListsKeeps ==
  ASSUME LifecycleInv, NEW p \in Pane, CmdLists(p)
  PROVE  LifecycleInv'
<1> USE DEF LifecycleInv
<1> DEFINE w == cmd[p].want
           found == [cmd[p] EXCEPT !.at = "attach", !.got = w]
           lost == [cmd[p] EXCEPT !.at = "start"]
           failed == [cmd[p] EXCEPT !.at = "failed"]
<1>1. /\ cmd[p] \in Commands /\ cmd[p].at = "list" /\ cmd[p].got = NoSession
      /\ w \in {NoSession} \cup Session /\ sessions \subseteq Started
      /\ running \subseteq sessions /\ NoSession \notin running
  BY Fields, Numbers DEF CmdLists, Command, Commands, HolderInv, TypeOK
<1>2. found.at = "attach" /\ found.want = w /\ found.got = w /\ found \in Commands
  <2>1. PICK d : d = found
    OBVIOUS
  <2>2. d = [cmd[p] EXCEPT !.at = "attach", !.got = w]
    BY <2>1
  <2> HIDE DEF found
  <2>3. d \in Commands /\ d.at = "attach" /\ d.want = cmd[p].want /\ d.got = w
    BY <1>1, <2>2 DEF Commands
  <2> QED BY <2>1, <2>3
<1>3. lost.at = "start" /\ lost.want = w /\ lost.got = NoSession /\ lost \in Commands
  BY <1>1, AtHow
<1>4. SameHolder => w = NoSession \/ cwd[w] = Dir[p]
  BY DEF SameInv, Own, Refs
<1>7. failed.at = "failed" /\ failed.want = w /\ failed.got = NoSession /\ failed \in Commands
  BY <1>1, AtHow
<1>8. abandoned \subseteq Session /\ sessions \subseteq Session
  BY DEF HolderInv, TypeOK
<1>10. NoSession \notin Sought'
  BY <1>1 DEF Sought, CmdLists, holderVars
<1> HIDE DEF found, lost, failed
<1>5. CASE w \in sessions /\ cwd[w] = Dir[p] /\ SetCmd(p, found) /\ UNCHANGED abandoned
  <2>2. cmd'[p] = found
    BY <1>2, <1>5, OneCommand
  <2>3. Command(p)'
    BY <1>1, <1>2, <1>5, <2>2 DEF Command, CmdLists, holderVars, Started
  <2> QED BY <1>1, <1>2, <1>5, <1>8, <1>10, <2>3, LocalCommandKeeps DEF CmdLists
<1>6. CASE ~(w \in sessions /\ cwd[w] = Dir[p]) /\ SetCmd(p, lost) /\ UNCHANGED abandoned
  <2>2. cmd'[p] = lost
    BY <1>3, <1>6, OneCommand
  <2>3. Command(p)'
    BY <1>1, <1>3, <2>2 DEF Command, CmdLists, holderVars, Started
  <2>4. SameHolder => w \notin Sought'
    BY <1>1, <1>4, <1>6 DEF Sought, CmdLists, holderVars
  <2> QED BY <1>1, <1>3, <1>6, <1>8, <2>3, <2>4, LocalCommandKeeps DEF CmdLists
<1>9. CASE SetCmd(p, failed) /\ abandoned' = abandoned \cup ({w} \cap sessions)
  <2>1. cmd'[p] = failed
    BY <1>7, <1>9, OneCommand
  <2>2. w \notin Sought' /\ NoSession \notin Sought'
    BY <1>1, <1>9, <1>10 DEF Sought, CmdLists, holderVars
  <2>3. Command(p)'
    BY <1>1, <1>7, <2>1, <2>2 DEF Command, CmdLists, holderVars, Started
  <2>4. abandoned \subseteq abandoned' /\ abandoned' \subseteq Session
    BY <1>8, <1>9
  <2> QED BY <1>1, <1>7, <1>9, <2>2, <2>3, <2>4, LocalCommandKeeps DEF CmdLists
<1> QED BY <1>5, <1>6, <1>9 DEF CmdLists, found, lost, failed

(* A new session belongs to nobody yet.                                    *)
LEMMA CmdStartsKeeps ==
  ASSUME LifecycleInv, NEW p \in Pane, CmdStarts(p)
  PROVE  LifecycleInv'
<1> USE DEF LifecycleInv
<1> DEFINE w == cmd[p].want
           got == [cmd[p] EXCEPT !.at = "attach", !.got = nextID]
           failed == [cmd[p] EXCEPT !.at = "failed"]
<1>1. /\ cmd[p] \in Commands /\ cmd[p].at = "start" /\ cmd[p].got = NoSession
      /\ w \in {NoSession} \cup Session /\ sessions \subseteq Started
      /\ running \subseteq sessions /\ NoSession \notin running /\ nextID \in Nat
  <2>1. cmd[p] \in Commands /\ cmd[p].at = "start" /\ cmd[p].got = NoSession
    BY Fields DEF CmdStarts, Command
  <2>2. sessions \subseteq Started /\ running \subseteq sessions /\ nextID \in 1 .. (MaxSession + 1)
    BY DEF HolderInv, TypeOK
  <2> QED BY <2>1, <2>2, Numbers, PaneLifecycleAssumption DEF Commands
<1>2. failed.at = "failed" /\ failed.want = w /\ failed.got = NoSession /\ failed \in Commands
  BY <1>1, AtHow
<1>7. NoSession \notin Sought
  BY <1>1 DEF Sought
<1>3. SameHolder => w \notin Sought
  BY <1>1, <1>7 DEF SameInv, Own
<1> HIDE DEF got, failed
<1>6. abandoned \subseteq Session
  BY DEF HolderInv, TypeOK
<1>4. CASE SetCmd(p, failed) /\ UNCHANGED <<holderVars, abandoned>>
  <2>1. Sought' = Sought
    BY <1>4 DEF Sought, holderVars
  <2>2. cmd'[p] = failed
    BY <1>2, <1>4, OneCommand
  <2>3. Command(p)'
    BY <1>1, <1>2, <1>4, <1>7, <2>1, <2>2 DEF Command, CmdStarts, holderVars, Started
  <2> QED BY <1>1, <1>2, <1>3, <1>4, <1>6, <2>1, <2>3, LocalCommandKeeps DEF CmdStarts
<1>5. CASE /\ HolderStarts(Dir[p])
           /\ \/ SetCmd(p, got) /\ UNCHANGED abandoned
              \/ SetCmd(p, failed) /\ abandoned' = abandoned \cup {nextID}
  <2>0. /\ nextID \in Session
        /\ sessions' = sessions \cup {nextID}
        /\ running' = running \cup {nextID}
        /\ cwd' = [cwd EXCEPT ![nextID] = Dir[p]]
        /\ nextID' = nextID + 1
    BY <1>5 DEF HolderStarts
  <2>1. got.at = "attach" /\ got.want = w /\ got.got = nextID /\ got \in Commands
    <3>1. got = [cmd[p] EXCEPT !.at = "attach", !.got = nextID]
      BY DEF got
    <3>2. nextID \in {NoSession} \cup Session
      BY <2>0
    <3> QED BY <1>1, <3>1, <3>2 DEF Commands
  <2>12. PICK c \in {got, failed} : SetCmd(p, c) /\ (c = got => UNCHANGED abandoned)
                                    /\ (c = failed => abandoned' = abandoned \cup {nextID})
    BY <1>2, <1>5, <2>1
  <2>2. cmd' \in [Pane -> Commands] /\ cmd'[p] = c /\ c \in Commands
    BY <1>2, <2>1, <2>12, OneCommand
  <2>3. /\ Started' = Started \cup {nextID} /\ nextID \notin Started
        /\ nextID # NoSession
    BY <1>1, <2>0 DEF Started, Session, NoSession
  <2>4. /\ cwd' = [s \in Session |-> cwd'[s]] /\ cwd'[nextID] = Dir[p]
        /\ \A s \in Session \ {nextID} : cwd'[s] = cwd[s]
    BY <2>0 DEF HolderInv
  <2>5. TypeOK'
    <3>3. abandoned' \subseteq Session
      BY <1>6, <2>0, <2>12
    <3>1. nextID' \in 1 .. (MaxSession + 1)
      BY <1>1, <2>0, PaneLifecycleAssumption DEF Session
    <3>2. \A s \in sessions' : cwd'[s] \in {Dir[q] : q \in Pane}
      <4>1. ASSUME NEW s \in sessions, s # nextID PROVE cwd'[s] \in {Dir[q] : q \in Pane}
        <5>1. s \in Session /\ cwd[s] \in {Dir[q] : q \in Pane}
          BY DEF HolderInv, TypeOK
        <5> QED BY <2>4, <4>1, <5>1
      <4>2. Dir[p] \in {Dir[q] : q \in Pane}
        OBVIOUS
      <4> QED BY <2>0, <2>4, <4>1, <4>2
    <3> QED BY <2>0, <2>2, <2>4, <3>1, <3>2, <3>3 DEF CmdStarts, HolderInv, TypeOK, paneVars, Session
  <2>6. tui = "up"
    <3>1. tui = "down" => cmd[p] = NoCmd
      BY DEF HolderInv, Cleared
    <3> QED BY <1>1, <3>1, StartCommands DEF HolderInv, TypeOK
  <2>7. HolderInv'
    BY <1>1, <2>0, <2>3, <2>4, <2>5, <2>6 DEF HolderInv, CmdStarts, Session
  <2>8. \A s \in Started : s \in Session
    <3>1. nextID \in 1 .. (MaxSession + 1)
      BY DEF HolderInv, TypeOK
    <3> QED BY <3>1, PaneLifecycleAssumption DEF Started, Session
  <2>9. \A s \in Started : (s \in running' => s \in running) /\ cwd'[s] = cwd[s]
    BY <2>0, <2>3, <2>4, <2>8
  <2>13. Sought' \subseteq Sought \cup {nextID} /\ (nextID \in Sought' => c = got)
    BY <2>0, <2>12 DEF Sought
  <2>14. \A s \in Started : s \in Sought' => s \in Sought
    BY <2>3, <2>13
  <2>15. c.want = w /\ (c = got => c.got = nextID) /\ (c # got => c.at = "failed" /\ c.got = NoSession)
    BY <1>2, <2>1, <2>12
  <2>10. Command(p)'
    <3>1. CASE c = got
      BY <2>1, <2>2, <2>3, <2>4, <3>1 DEF Command
    <3>2. CASE c # got
      <4>1. NoSession \notin Sought'
        BY <1>7, <2>3, <2>13
      <4> QED BY <2>2, <2>15, <3>2, <4>1 DEF Command
    <3> QED BY <3>1, <3>2
  <2>11. ASSUME SameHolder
         PROVE  /\ Own(p)'
                /\ \A q \in Pane : Refs(p)' \cap Refs(q) \subseteq Refs(p)
                /\ \A s \in Sought' : s \in Sought \/ s \in Refs(p)'
                /\ \A s \in Refs(p) : s \notin Sought' \/ s \in Refs(p)'
    <3>1. \A q \in Pane : Own(q)
      BY <2>11 DEF SameInv
    <3>2. Refs(p)' = {session[p], w, c.got} \ {NoSession} /\ Refs(p) = {session[p], w} \ {NoSession}
      BY <1>1, <2>2, <2>15 DEF Refs, CmdStarts, paneVars
    <3>9. /\ Refs(p) \subseteq Refs(p)' /\ Refs(p)' \subseteq Refs(p) \cup {nextID}
          /\ c = got => nextID \in Refs(p)'
      BY <2>3, <2>15, <3>2
    <3>3. \A q \in Pane : nextID \notin Refs(q)
      BY <2>3, <3>1 DEF Own
    <3>4. ASSUME NEW r \in Refs(p)' PROVE r \in Started' /\ cwd'[r] = Dir[p] /\ r \notin kills'
      <4>1. nextID \notin kills' /\ kills' = kills
        BY <2>3 DEF CmdStarts, HolderInv
      <4>2. CASE r = nextID
        BY <2>3, <2>4, <4>1, <4>2
      <4>3. CASE r # nextID
        <5>1. r \in Refs(p) /\ r \in Started /\ cwd[r] = Dir[p] /\ r \notin kills
          BY <3>1, <3>9, <4>3 DEF Own
        <5> QED BY <2>3, <2>9, <4>1, <5>1
      <4> QED BY <4>2, <4>3
    <3>5. w # nextID /\ session[p] # nextID
      BY <2>3, <3>3 DEF Refs
    <3>6. cmd'[p].want \notin Sought'
      BY <1>3, <2>2, <2>11, <2>13, <2>15, <3>5
    <3>7. pane'[p] # "shown" => session'[p] = cmd'[p].want \/ session'[p] \notin Sought'
      BY <2>2, <2>13, <2>15, <3>1, <3>5 DEF Own, CmdStarts, paneVars
    <3>8. Own(p)'
      BY <3>4, <3>6, <3>7 DEF Own
    <3> QED BY <2>13, <3>3, <3>8, <3>9
  <2> QED BY <1>1, <2>0, <2>2, <2>3, <2>7, <2>9, <2>10, <2>11, <2>12, <2>14, CommandKeeps
          DEF CmdStarts, paneVars
<1> QED BY <1>4, <1>5 DEF CmdStarts, got, failed

LEMMA CmdAttachesKeeps ==
  ASSUME LifecycleInv, NEW p \in Pane, CmdAttaches(p)
  PROVE  LifecycleInv'
<1> USE DEF LifecycleInv
<1> DEFINE w == cmd[p].want
           g == cmd[p].got
           alive == g \in running
           built == [cmd[p] EXCEPT !.at = "built", !.runs = alive]
           failed == [cmd[p] EXCEPT !.at = "failed"]
<1>1. /\ cmd[p] \in Commands /\ cmd[p].at = "attach" /\ g \in Started
      /\ cwd[g] = Dir[p] /\ g \in Session
      /\ w \in {NoSession} \cup Session /\ alive \in BOOLEAN
      /\ running \subseteq sessions /\ NoSession \notin running
  <2>1. cmd[p] \in Commands /\ cmd[p].at = "attach" /\ g \in Started /\ cwd[g] = Dir[p]
    BY Fields DEF CmdAttaches, Command
  <2>2. g \in Session
    BY <2>1, Numbers DEF Commands
  <2> QED BY <2>1, <2>2, Numbers DEF Commands, HolderInv, TypeOK
<1> HIDE DEF alive
<1>2. /\ built.at = "built" /\ built.want = w /\ built.got = g
      /\ (built.runs <=> alive) /\ built \in Commands
  <2>1. PICK d : d = built
    OBVIOUS
  <2>2. d = [cmd[p] EXCEPT !.at = "built", !.runs = alive]
    BY <2>1
  <2> HIDE DEF built
  <2>3. d \in Commands /\ d.at = "built" /\ d.want = cmd[p].want /\ d.got = cmd[p].got
        /\ (d.runs <=> alive)
    BY <1>1, <2>2 DEF Commands
  <2> QED BY <2>1, <2>3
<1>3. failed.at = "failed" /\ failed.want = w /\ failed.got = g /\ failed \in Commands
  BY <1>1, AtHow
<1>4. SameHolder => g = w \/ w \notin Sought
  BY <1>1 DEF SameInv, Own
<1>5. \/ g \in sessions /\ SetCmd(p, built) /\ abandoned' = abandoned
      \/ /\ w # NoSession => SetCmd(p, StartCmd(NoSession))
         /\ w = NoSession => SetCmd(p, failed)
         /\ abandoned' = abandoned \cup ({g} \cap sessions)
  BY DEF CmdAttaches, alive
<1>9. abandoned \subseteq abandoned' /\ abandoned' \subseteq Session
  BY <1>1, <1>5 DEF HolderInv, TypeOK
<1>10. Sought' \subseteq Sought
  BY <1>9 DEF Sought, CmdAttaches, holderVars
<1> HIDE DEF built, failed
<1>6. CASE g \in sessions /\ SetCmd(p, built) /\ abandoned' = abandoned
  <2>1. cmd'[p] = built
    BY <1>2, <1>6, OneCommand
  <2>2. ~built.runs => g \notin running
    BY <1>2 DEF alive
  <2>a. nextID' = nextID /\ running' = running /\ cwd' = cwd
    BY DEF CmdAttaches, holderVars
  <2>3. Command(p)'
    BY <1>1, <1>2, <2>1, <2>2, <2>a DEF Command, Started
  <2>b. SetCmd(p, built) /\ built \in Commands /\ built.want = cmd[p].want /\ built.got = cmd[p].got
    BY <1>2, <1>6
  <2>c. SameHolder => built.got = built.want \/ built.want \notin Sought'
    BY <1>4, <1>10, <2>b
  <2>d. cmd[p].at # "none"
    BY <1>1
  <2> HIDE DEF built, LifecycleInv
  <2> QED BY <1>9, <2>3, <2>b, <2>c, <2>d, LocalCommandKeeps DEF CmdAttaches
<1> DEFINE left == abandoned' = abandoned \cup ({g} \cap sessions)
<1>11. left => g \notin Sought' /\ (SameHolder => w \notin Sought') /\ NoSession \notin Sought'
  <2>1. left => g \notin Sought'
    BY <1>1 DEF Sought, CmdAttaches, holderVars
  <2>2. NoSession \notin Sought'
    BY <1>1 DEF Sought, CmdAttaches, holderVars
  <2> QED BY <1>4, <1>10, <2>1, <2>2
<1> HIDE DEF left
<1>7. CASE left /\ w # NoSession /\ SetCmd(p, StartCmd(NoSession))
  <2>1. cmd'[p] = StartCmd(NoSession)
    BY <1>7, OneCommand, StartCommands
  <2>3. Command(p)'
    BY <2>1, StartCommands DEF Command
  <2> QED BY <1>1, <1>7, <1>9, <1>11, <2>3, LocalCommandKeeps, StartCommands DEF CmdAttaches
<1>8. CASE left /\ w = NoSession /\ SetCmd(p, failed)
  <2>1. cmd'[p] = failed
    BY <1>3, <1>8, OneCommand
  <2>2. Command(p)'
    BY <1>1, <1>3, <1>8, <1>11, <2>1 DEF Command, CmdAttaches, holderVars, Started
  <2> QED BY <1>1, <1>3, <1>8, <1>9, <1>11, <2>2, LocalCommandKeeps DEF CmdAttaches
<1> QED BY <1>5, <1>6, <1>7, <1>8 DEF left

(* The update loop. It leaves the holder alone.                            *)
LEMMA LoopTypes ==
  ASSUME LifecycleInv, tui = "up", UNCHANGED <<tui, holder, launches, restarts, abandoned, holderVars, exits>>,
         kills' \subseteq Started,
         pane' \in [Pane -> {"absent", "starting", "shown", "failed"}],
         session' \in [Pane -> {NoSession} \cup Session],
         term' \in [Pane -> {NoSession} \cup Session], exited' \in [Pane -> BOOLEAN],
         cmd' \in [Pane -> Commands], saved' \in [Pane -> {NoSession, Absent} \cup Session]
  PROVE  HolderInv' /\ Started' = Started
<1> USE DEF LifecycleInv
<1>1. Started' = Started /\ Started \subseteq Session
  BY PaneLifecycleAssumption DEF holderVars, Started, HolderInv, TypeOK, Session
<1>2. TypeOK'
  BY <1>1 DEF HolderInv, TypeOK, holderVars, Session
<1> QED BY <1>1, <1>2 DEF HolderInv, holderVars, Session

LEMMA SnapshotTyped ==
  ASSUME NEW there \in [Pane -> {"absent", "starting", "shown", "failed"}],
         NEW ids \in [Pane -> {NoSession} \cup Session]
  PROVE  /\ Snapshot(there, ids) \in [Pane -> {NoSession, Absent} \cup Session]
         /\ \A p \in Pane : Snapshot(there, ids)[p] =
              (IF there[p] # "absent" /\ p \notin Floating THEN ids[p] ELSE Absent)
  BY DEF Snapshot

(* A message or a wish of the user: panes only let go of sessions, and one *)
(* that runs is killed then, which nobody else refers to.                  *)
LEMMA LoopKeeps ==
  ASSUME LifecycleInv, HolderInv', tui = "up", UNCHANGED <<tui, restarts, abandoned, holderVars>>,
         \A p \in Pane : Phase(p)' /\ Command(p)',
         saved' = Snapshot(pane', session'),
         kills \subseteq kills',
         SameHolder =>
           /\ \A p \in Pane :
                /\ Refs(p)' \subseteq Refs(p)
                /\ \A s \in Refs(p) : s \notin Sought \/ s \in Refs(p)' \/ s \in kills'
                /\ \/ cmd'[p].at = "list" \/ cmd'[p].got = cmd'[p].want
                   \/ cmd'[p].want \notin Sought
                /\ pane'[p] # "shown" =>
                     session'[p] = cmd'[p].want \/ session'[p] \notin Sought
           /\ \A s \in kills' :
                s \in kills \/ \E p \in Pane : s \in Refs(p) /\ s \notin Refs(p)'
  PROVE  LifecycleInv'
<1> USE DEF LifecycleInv
<1>1. ASSUME NEW p \in Pane
      PROVE  saved'[p] = (IF pane'[p] # "absent" /\ p \notin Floating THEN session'[p] ELSE Absent)
  BY SnapshotTyped DEF HolderInv, TypeOK
<1>2. SavedInv'
  <2>1. ASSUME NEW p \in Floating PROVE saved'[p] = Absent
    BY <1>1, PaneLifecycleAssumption
  <2> QED BY <2>1 DEF SavedInv
<1>3. SameInv'
  <2> SUFFICES ASSUME SameHolder PROVE SameInv'
    BY DEF SameInv, SameHolder
  <2>1. /\ \A p, q \in Pane : Apart(p, q)
        /\ \A p \in Pane : Own(p)
    BY DEF SameInv
  <2>2. ASSUME NEW p \in Pane PROVE Own(p)'
    <3>1. ASSUME NEW r \in Refs(p)' PROVE r \in Started' /\ cwd'[r] = Dir[p] /\ r \notin kills'
      <4>1. r \in Refs(p) /\ r \in Started /\ cwd[r] = Dir[p] /\ r \notin kills
        BY <2>1 DEF Own
      <4>2. ASSUME NEW q \in Pane, r \in Refs(q), r \notin Refs(q)' PROVE FALSE
        BY <2>1, <4>1, <4>2 DEF Apart
      <4> QED BY <4>1, <4>2 DEF holderVars, Started
    <3>2. Sought' = Sought
      BY DEF Sought, holderVars
    <3> QED BY <3>1, <3>2 DEF Own, holderVars
  <2>3. ASSUME NEW p \in Pane, saved'[p] \in Session
        PROVE  saved'[p] = session'[p] /\ saved'[p] \in Refs(p)'
    BY <1>1, <2>3, Numbers DEF Refs, Session
  <2>4. ASSUME NEW p \in Pane PROVE OwnSaved(p)'
    BY <2>2, <2>3 DEF OwnSaved, Own, Session
  <2>5. ASSUME NEW p \in Pane, NEW q \in Pane PROVE Apart(p, q)' /\ SavedApart(p, q)'
    <3>1. Apart(p, q)'
      BY <2>1 DEF Apart
    <3>2. SavedApart(p, q)'
      BY <2>3, <3>1 DEF SavedApart, Apart, Session
    <3> QED BY <3>1, <3>2
  <2>6. ASSUME NEW s \in Sought'
        PROVE  s \in kills' \/ \E p \in Pane : s \in Refs(p)'
    <3>1. s \in Sought
      BY DEF holderVars, Sought
    <3>2. s \in kills \/ \E p \in Pane : s \in Refs(p)
      BY <3>1 DEF SameInv
    <3> QED BY <3>1, <3>2
  <2> QED BY <2>2, <2>4, <2>5, <2>6 DEF SameInv
<1> QED BY <1>2, <1>3

LEMMA NewPaneKeeps ==
  ASSUME LifecycleInv, NEW p \in Pane, NewPane(p)
  PROVE  LifecycleInv'
<1> USE DEF LifecycleInv
<1>1. /\ tui = "up" /\ pane[p] = "absent" /\ cmd[p] = NoCmd /\ SetCmd(p, StartCmd(NoSession))
      /\ session[p] = NoSession
  BY DEF NewPane, Phase
<1>2. /\ cmd' \in [Pane -> Commands] /\ cmd'[p] = StartCmd(NoSession)
      /\ \A q \in Pane \ {p} : cmd'[q] = cmd[q]
  BY <1>1, OneCommand, StartCommands
<1>3. /\ pane' \in [Pane -> {"absent", "starting", "shown", "failed"}] /\ pane'[p] = "starting"
      /\ \A q \in Pane \ {p} : pane'[q] = pane[q]
  BY DEF NewPane, HolderInv, TypeOK
<1>4. session' \in [Pane -> {NoSession} \cup Session] /\ \A q \in Pane : session'[q] = session[q]
  BY <1>1 DEF NewPane, HolderInv, TypeOK
<1>5. saved' = Snapshot(pane', session')
      /\ saved' \in [Pane -> {NoSession, Absent} \cup Session]
  BY <1>3, <1>4, SnapshotTyped DEF NewPane
<1>6. HolderInv' /\ Started' = Started
  BY <1>1, <1>2, <1>3, <1>4, <1>5, LoopTypes DEF NewPane, HolderInv, TypeOK
<1>7. ASSUME NEW q \in Pane PROVE Phase(q)' /\ Command(q)'
  <2>1. CASE q = p
    <3>1. term'[p] = NoSession /\ exited' = exited
      BY <1>1 DEF Phase, NewPane
    <3>2. Phase(p)'
      BY <1>3, <3>1 DEF Phase
    <3>3. cmd'[p].at = "start" /\ cmd'[p].got = NoSession
      BY <1>2, StartCommands
    <3>4. Command(p)'
      BY <3>3 DEF Command
    <3> QED BY <2>1, <3>2, <3>4
  <2>2. CASE q # p
    BY <1>2, <1>3, <1>4, <1>6, <2>2 DEF Phase, Command, NewPane, holderVars, Sought
  <2> QED BY <2>1, <2>2
<1>8. NoSession \notin Sought
  BY Numbers DEF Sought, HolderInv, TypeOK
<1>9. ASSUME SameHolder, NEW q \in Pane
      PROVE  /\ Refs(q)' = Refs(q)
             /\ \/ cmd'[q].at = "list" \/ cmd'[q].got = cmd'[q].want
                \/ cmd'[q].want \notin Sought
             /\ pane'[q] # "shown" =>
                  session'[q] = cmd'[q].want \/ session'[q] \notin Sought
  <2>1. CASE q = p
    BY <1>1, <1>2, <1>4, <1>8, <2>1, StartCommands, ZenonT(30) DEF Refs
  <2>2. CASE q # p
    BY <1>2, <1>3, <1>4, <1>9, <2>2 DEF SameInv, Own, Refs
  <2> QED BY <2>1, <2>2
<1> QED BY <1>1, <1>5, <1>6, <1>7, <1>9, LoopKeeps DEF NewPane

LEMMA PaneStartedKeeps ==
  ASSUME LifecycleInv, NEW p \in Pane, PaneStarted(p)
  PROVE  LifecycleInv'
<1> USE DEF LifecycleInv
<1> DEFINE g == cmd[p].got
<1>1. /\ tui = "up" /\ cmd[p].at = "built" /\ pane[p] # "absent" /\ SetCmd(p, NoCmd)
      /\ g \in Started /\ cwd[g] = Dir[p] /\ g \in Session /\ cmd[p] # NoCmd
      /\ pane[p] # "shown"
  <2>1. /\ tui = "up" /\ cmd[p].at = "built" /\ pane[p] # "absent" /\ SetCmd(p, NoCmd)
    BY DEF PaneStarted
  <2>2. cmd[p] # NoCmd
    BY <2>1, StartCommands
  <2>3. g \in Started /\ cwd[g] = Dir[p] /\ pane[p] # "shown"
    BY <2>1, <2>2 DEF Phase, Command
  <2>4. g \in Session
    BY <2>3, Fields, Numbers DEF Commands
  <2> QED BY <2>1, <2>2, <2>3, <2>4
<1>2. /\ cmd' \in [Pane -> Commands] /\ cmd'[p] = NoCmd
      /\ \A q \in Pane \ {p} : cmd'[q] = cmd[q]
  BY <1>1, OneCommand, StartCommands
<1>3. /\ pane' \in [Pane -> {"absent", "starting", "shown", "failed"}] /\ pane'[p] = "shown"
      /\ \A q \in Pane \ {p} : pane'[q] = pane[q]
  BY DEF PaneStarted, HolderInv, TypeOK
<1>4. /\ session' \in [Pane -> {NoSession} \cup Session] /\ session'[p] = g
      /\ term' \in [Pane -> {NoSession} \cup Session] /\ term'[p] = g
      /\ \A q \in Pane \ {p} : session'[q] = session[q] /\ term'[q] = term[q]
  BY <1>1 DEF PaneStarted, HolderInv, TypeOK
<1>5. /\ exited' \in [Pane -> BOOLEAN] /\ (exited'[p] <=> ~cmd[p].runs)
      /\ \A q \in Pane \ {p} : exited'[q] = exited[q]
  <2> DEFINE dead == ~cmd[p].runs
  <2>1. dead \in BOOLEAN
    OBVIOUS
  <2>2. exited' = [exited EXCEPT ![p] = dead] /\ exited \in [Pane -> BOOLEAN]
    BY DEF PaneStarted, HolderInv, TypeOK
  <2> HIDE DEF dead
  <2>3. /\ exited' \in [Pane -> BOOLEAN] /\ (exited'[p] <=> dead)
        /\ \A q \in Pane \ {p} : exited'[q] = exited[q]
    BY <2>1, <2>2
  <2> QED BY <2>3 DEF dead
<1>6. saved' = Snapshot(pane', session')
      /\ saved' \in [Pane -> {NoSession, Absent} \cup Session]
  <2>1. CASE session' = session
    <3>1. \A q \in Pane : pane'[q] # "absent" <=> pane[q] # "absent"
      BY <1>1, <1>3
    <3>2. saved' = Snapshot(pane, session)
      BY <1>1, <2>1 DEF PaneStarted, SavedInv
    <3>3. Snapshot(pane, session) = Snapshot(pane', session')
      BY <2>1, <3>1 DEF Snapshot
    <3> QED BY <1>3, <1>4, <3>2, <3>3, SnapshotTyped
  <2>2. CASE session' # session
    BY <1>3, <1>4, <2>2, SnapshotTyped DEF PaneStarted
  <2> QED BY <2>1, <2>2
<1>7. HolderInv' /\ Started' = Started
  BY <1>1, <1>2, <1>3, <1>4, <1>5, <1>6, LoopTypes DEF PaneStarted, HolderInv, TypeOK
<1>8. ASSUME NEW q \in Pane PROVE Phase(q)' /\ Command(q)'
  <2>1. CASE q = p
    <3>1. ~cmd[p].runs => g \notin running
      BY <1>1 DEF Command
    <3>2. Phase(p)'
      BY <1>1, <1>2, <1>3, <1>4, <1>5, <1>7, <3>1 DEF Phase, PaneStarted, holderVars
    <3>3. Command(p)'
      BY <1>2, StartCommands DEF Command
    <3> QED BY <2>1, <3>2, <3>3
  <2>2. CASE q # p
    BY <1>2, <1>3, <1>4, <1>5, <1>7, <2>2 DEF Phase, Command, PaneStarted, holderVars, Sought
  <2> QED BY <2>1, <2>2
<1>9. ASSUME SameHolder, NEW q \in Pane
      PROVE  /\ Refs(q)' \subseteq Refs(q)
             /\ \A s \in Refs(q) : s \notin Sought \/ s \in Refs(q)'
             /\ \/ cmd'[q].at = "list" \/ cmd'[q].got = cmd'[q].want
                \/ cmd'[q].want \notin Sought
             /\ pane'[q] # "shown" =>
                  session'[q] = cmd'[q].want \/ session'[q] \notin Sought
  <2>1. CASE q = p
    <3>1. cmd[p].want \notin Sought \/ cmd[p].want = g
      BY <1>1, <1>9 DEF SameInv, Own
    <3>2. session[p] = cmd[p].want \/ session[p] \notin Sought
      BY <1>1, <1>9 DEF SameInv, Own
    <3>3. Refs(p)' = {g} \ {NoSession}
      BY <1>2, <1>4, StartCommands DEF Refs
    <3>4. Refs(p) = {session[p], cmd[p].want, g} \ {NoSession}
      BY DEF Refs
    <3>5. cmd'[p].got = cmd'[p].want
      BY <1>2, StartCommands
    <3> QED BY <1>3, <2>1, <3>1, <3>2, <3>3, <3>4, <3>5
  <2>2. CASE q # p
    BY <1>2, <1>3, <1>4, <1>9, <2>2 DEF SameInv, Own, Refs
  <2> QED BY <2>1, <2>2
<1> QED BY <1>1, <1>6, <1>7, <1>8, <1>9, LoopKeeps DEF PaneStarted

LEMMA PaneFailedKeeps ==
  ASSUME LifecycleInv, NEW p \in Pane, PaneFailed(p)
  PROVE  LifecycleInv'
<1> USE DEF LifecycleInv
<1>1. /\ tui = "up" /\ cmd[p].at = "failed" /\ SetCmd(p, NoCmd)
      /\ cmd[p] # NoCmd /\ pane[p] # "shown" /\ cmd[p].got \notin Sought
  <2>1. cmd[p].at = "failed" /\ cmd[p] # NoCmd
    BY StartCommands DEF PaneFailed
  <2> QED BY <2>1 DEF PaneFailed, Phase, Command
<1>2. /\ cmd' \in [Pane -> Commands] /\ cmd'[p] = NoCmd
      /\ \A q \in Pane \ {p} : cmd'[q] = cmd[q]
  BY <1>1, OneCommand, StartCommands
<1>3. /\ pane' \in [Pane -> {"absent", "starting", "shown", "failed"}]
      /\ pane'[p] = (IF pane[p] = "absent" THEN "absent" ELSE "failed")
      /\ \A q \in Pane \ {p} : pane'[q] = pane[q]
  BY DEF PaneFailed, HolderInv, TypeOK
<1>4. saved' = Snapshot(pane', session')
      /\ saved' \in [Pane -> {NoSession, Absent} \cup Session]
  <2>1. \A q \in Pane : pane'[q] # "absent" <=> pane[q] # "absent"
    BY <1>3
  <2>2. saved' = Snapshot(pane, session) /\ session' = session
    BY <1>1 DEF PaneFailed, SavedInv
  <2>3. Snapshot(pane, session) = Snapshot(pane', session')
    BY <2>1, <2>2 DEF Snapshot
  <2> QED BY <2>2, <2>3 DEF PaneFailed, HolderInv, TypeOK
<1>5. HolderInv' /\ Started' = Started
  BY <1>1, <1>2, <1>3, <1>4, LoopTypes DEF PaneFailed, HolderInv, TypeOK
<1>6. ASSUME NEW q \in Pane PROVE Phase(q)' /\ Command(q)'
  <2>1. CASE q = p
    <3>1. term'[p] = NoSession /\ (pane[p] = "absent" => session'[p] = NoSession)
      BY <1>1 DEF Phase, PaneFailed
    <3>2. Phase(p)'
      BY <1>2, <1>3, <3>1 DEF Phase
    <3>3. Command(p)'
      BY <1>2, StartCommands DEF Command
    <3> QED BY <2>1, <3>2, <3>3
  <2>2. CASE q # p
    BY <1>2, <1>3, <1>5, <2>2 DEF Phase, Command, PaneFailed, holderVars, Sought
  <2> QED BY <2>1, <2>2
<1>7. ASSUME SameHolder, NEW q \in Pane
      PROVE  /\ Refs(q)' \subseteq Refs(q)
             /\ \A s \in Refs(q) : s \notin Sought \/ s \in Refs(q)'
             /\ \/ cmd'[q].at = "list" \/ cmd'[q].got = cmd'[q].want
                \/ cmd'[q].want \notin Sought
             /\ pane'[q] # "shown" =>
                  session'[q] = cmd'[q].want \/ session'[q] \notin Sought
  <2>1. CASE q = p
    <3>1. cmd[p].want \notin Sought /\ session[p] \notin Sought
      BY <1>1, <1>7 DEF SameInv, Own
    <3>2. Refs(p)' = {session[p]} \ {NoSession} /\ session'[p] = session[p]
      BY <1>2, StartCommands, ZenonT(30) DEF Refs, PaneFailed
    <3>3. Refs(p) = {session[p], cmd[p].want, cmd[p].got} \ {NoSession}
      BY DEF Refs
    <3>4. cmd'[p].got = cmd'[p].want
      BY <1>2, StartCommands
    <3> QED BY <1>1, <2>1, <3>1, <3>2, <3>3, <3>4
  <2>2. CASE q # p
    BY <1>2, <1>3, <1>7, <2>2 DEF SameInv, Own, Refs, PaneFailed
  <2> QED BY <2>1, <2>2
<1> QED BY <1>1, <1>4, <1>5, <1>6, <1>7, LoopKeeps DEF PaneFailed

LEMMA StartedTooLateKeeps ==
  ASSUME LifecycleInv, NEW p \in Pane, StartedTooLate(p)
  PROVE  LifecycleInv'
<1> USE DEF LifecycleInv
<1> DEFINE g == cmd[p].got
<1>1. /\ tui = "up" /\ cmd[p].at = "built" /\ pane[p] = "absent" /\ SetCmd(p, NoCmd)
      /\ g \in Started /\ session[p] = NoSession /\ (~cmd[p].runs => g \notin running)
  BY DEF StartedTooLate, Phase, Command
<1>2. /\ cmd' \in [Pane -> Commands] /\ cmd'[p] = NoCmd
      /\ \A q \in Pane \ {p} : cmd'[q] = cmd[q]
  BY <1>1, OneCommand, StartCommands
<1>3. saved' = Snapshot(pane', session')
  BY <1>1 DEF StartedTooLate, SavedInv, Snapshot, paneVars
<1>4. /\ kills \subseteq kills' /\ kills' \subseteq kills \cup {g}
      /\ kills' \subseteq Started /\ (g \in kills' \/ g \notin Sought)
  BY <1>1 DEF StartedTooLate, HolderInv, Sought
<1>5. HolderInv' /\ Started' = Started
  BY <1>1, <1>2, <1>4, LoopTypes DEF StartedTooLate, paneVars, HolderInv, TypeOK
<1>6. ASSUME NEW q \in Pane PROVE Phase(q)' /\ Command(q)'
  <2>1. CASE q = p
    BY <1>1, <1>2, <2>1, StartCommands DEF Phase, Command, StartedTooLate, paneVars
  <2>2. CASE q # p
    BY <1>2, <1>5, <2>2 DEF Phase, Command, StartedTooLate, holderVars, paneVars, Sought
  <2> QED BY <2>1, <2>2
<1>7. Refs(p)' = {}
  <2>1. cmd'[p].want = NoSession /\ cmd'[p].got = NoSession /\ session'[p] = NoSession
    BY <1>1, <1>2, StartCommands DEF StartedTooLate, paneVars
  <2> QED BY <2>1 DEF Refs
<1>8. g \in Refs(p)
  BY <1>1, Numbers DEF Refs
<1>9. ASSUME SameHolder, NEW q \in Pane
      PROVE  /\ Refs(q)' \subseteq Refs(q)
             /\ \A s \in Refs(q) : s \notin Sought \/ s \in Refs(q)' \/ s \in kills'
             /\ \/ cmd'[q].at = "list" \/ cmd'[q].got = cmd'[q].want
                \/ cmd'[q].want \notin Sought
             /\ pane'[q] # "shown" =>
                  session'[q] = cmd'[q].want \/ session'[q] \notin Sought
  <2>1. CASE q = p
    <3>1. cmd[p].want \notin Sought \/ cmd[p].want = g
      BY <1>1, <1>9 DEF SameInv, Own
    <3>2. Refs(p) = {cmd[p].want, g} \ {NoSession}
      BY <1>1 DEF Refs
    <3>3. cmd'[p].got = cmd'[p].want /\ session'[p] = cmd'[p].want
      BY <1>1, <1>2, StartCommands DEF StartedTooLate, paneVars
    <3> QED BY <1>4, <1>7, <2>1, <3>1, <3>2, <3>3
  <2>2. CASE q # p
    BY <1>2, <1>9, <2>2 DEF SameInv, Own, Refs, StartedTooLate, paneVars
  <2> QED BY <2>1, <2>2
<1> QED BY <1>1, <1>3, <1>4, <1>5, <1>6, <1>7, <1>8, <1>9, LoopKeeps DEF StartedTooLate

(* Panes are closed: what runs in them is killed, what a command under way *)
(* will have started is killed when it reports.                            *)
LEMMA RemovesKeeps ==
  ASSUME LifecycleInv, NEW P \in SUBSET Pane, tui = "up", \A p \in P : pane[p] # "absent",
         Removes(P),
         UNCHANGED <<tui, holder, launches, restarts, abandoned, holderVars, cmd, exits>>
  PROVE  LifecycleInv'
<1> USE DEF LifecycleInv
<1>1. ASSUME NEW p \in P
      PROVE  /\ pane'[p] = "absent" /\ term'[p] = NoSession /\ session'[p] = NoSession
             /\ exited'[p] = FALSE
  BY DEF Removes
<1>2. ASSUME NEW p \in Pane \ P
      PROVE  /\ pane'[p] = pane[p] /\ term'[p] = term[p] /\ session'[p] = session[p]
             /\ exited'[p] <=> exited[p]
  BY DEF Removes
<1>3. /\ pane' \in [Pane -> {"absent", "starting", "shown", "failed"}]
      /\ session' \in [Pane -> {NoSession} \cup Session]
      /\ term' \in [Pane -> {NoSession} \cup Session] /\ exited' \in [Pane -> BOOLEAN]
  BY DEF Removes, HolderInv, TypeOK
<1>4. saved' = Snapshot(pane', session')
      /\ saved' \in [Pane -> {NoSession, Absent} \cup Session]
  BY <1>3, SnapshotTyped DEF Removes
<1>5. ASSUME NEW s \in kills', s \notin kills
      PROVE  \E p \in P : /\ s = term[p] /\ s = session[p] /\ s \in Started
                          /\ pane[p] = "shown" /\ cmd[p] = NoCmd
  <2>1. PICK p \in P : s = term[p] /\ term[p] # NoSession
    BY <1>5 DEF Removes
  <2> QED BY <2>1 DEF Phase
<1>6. kills \subseteq kills' /\ kills' \subseteq Started
  BY <1>5 DEF Removes, HolderInv
<1>7. HolderInv' /\ Started' = Started
  BY <1>3, <1>4, <1>6, LoopTypes DEF HolderInv, TypeOK
<1>8. ASSUME NEW q \in Pane PROVE Phase(q)' /\ Command(q)'
  <2>1. Command(q)'
    BY <1>7 DEF Command, holderVars, Sought
  <2>2. CASE q \in P
    BY <1>1, <2>1, <2>2 DEF Phase
  <2>3. CASE q \notin P
    BY <1>2, <1>7, <2>1, <2>3 DEF Phase, holderVars
  <2> QED BY <2>2, <2>3
<1>9. NoSession \notin Sought
  BY Numbers DEF Sought, HolderInv, TypeOK
<1>10. ASSUME NEW q \in P
       PROVE  Refs(q)' = {cmd[q].want, cmd[q].got} \ {NoSession}
  BY <1>1 DEF Refs
<1>11. ASSUME SameHolder, NEW q \in Pane
      PROVE  /\ Refs(q)' \subseteq Refs(q)
             /\ \A s \in Refs(q) : s \notin Sought \/ s \in Refs(q)' \/ s \in kills'
             /\ \/ cmd'[q].at = "list" \/ cmd'[q].got = cmd'[q].want
                \/ cmd'[q].want \notin Sought
             /\ pane'[q] # "shown" =>
                  session'[q] = cmd'[q].want \/ session'[q] \notin Sought
  <2>1. Own(q)
    BY <1>11 DEF SameInv
  <2>2. CASE q \in P
    <3>1. session[q] \notin Sought \/ session[q] \in kills' \/ session[q] = cmd[q].want
      <4>1. CASE pane[q] = "shown" /\ ~exited[q]
        <5>1. term[q] = session[q] /\ term[q] # NoSession
          BY <4>1, Numbers DEF Phase
        <5> QED BY <2>2, <4>1, <5>1 DEF Removes
      <4>2. CASE pane[q] = "shown" /\ exited[q]
        BY <4>2 DEF Phase, Sought
      <4>3. CASE pane[q] # "shown"
        BY <2>1, <4>3 DEF Own
      <4> QED BY <4>1, <4>2, <4>3
    <3>2. Refs(q) = {session[q], cmd[q].want, cmd[q].got} \ {NoSession}
      BY DEF Refs
    <3> QED BY <1>1, <1>9, <1>10, <2>1, <2>2, <3>1, <3>2 DEF Own
  <2>3. CASE q \notin P
    BY <1>2, <2>1, <2>3 DEF Own, Refs
  <2> QED BY <2>2, <2>3
<1>12. ASSUME SameHolder, NEW s \in kills', s \notin kills
       PROVE  \E q \in Pane : s \in Refs(q) /\ s \notin Refs(q)'
  <2>1. PICK q \in P : s = session[q] /\ s \in Started /\ cmd[q] = NoCmd
    BY <1>5, <1>12
  <2>2. s \in Refs(q) /\ s \notin Refs(q)'
    <3>1. cmd[q].want = NoSession /\ cmd[q].got = NoSession
      BY <2>1, StartCommands
    <3> QED BY <1>10, <2>1, <3>1, Numbers DEF Refs
  <2> QED BY <2>2
<1> QED BY <1>4, <1>6, <1>7, <1>8, <1>11, <1>12, LoopKeeps

-----------------------------------------------------------------------------
LEMMA NextLifecycleInv == LifecycleInv /\ [Next]_vars => LifecycleInv'
<1> SUFFICES ASSUME LifecycleInv, [Next]_vars PROVE LifecycleInv'
  OBVIOUS
<1>1. ASSUME NEW s \in Session, SessionExits(s) \/ KillArrives(s) \/ HolderExit(s)
      PROVE  LifecycleInv'
  BY <1>1, SessionExitsKeeps, KillArrivesKeeps, HolderExitKeeps
<1>2. ASSUME NEW p \in Pane, CmdStep(p) \/ NewPane(p) PROVE LifecycleInv'
  BY <1>2, CmdListsKeeps, CmdStartsKeeps, CmdAttachesKeeps, NewPaneKeeps DEF CmdStep
<1>3. ASSUME NEW p \in Pane, PaneEnds(p) PROVE LifecycleInv'
  BY <1>3, RemovesKeeps DEF PaneEnds
<1>4. ASSUME NEW p \in Pane, Message(p) PROVE LifecycleInv'
  BY <1>3, <1>4, PaneStartedKeeps, PaneFailedKeeps, StartedTooLateKeeps DEF Message
<1>5. ASSUME NEW P \in SUBSET Pane, ClosePanes(P) PROVE LifecycleInv'
  BY <1>5, RemovesKeeps DEF ClosePanes
<1> QED BY <1>1, <1>2, <1>4, <1>5, HolderRestartsKeeps, LaunchKeeps, QuitKeeps, DiesKeeps,
           StutterLifecycleInv DEF Next

LEMMA LifecycleInvariant == Spec => []LifecycleInv
  BY InitLifecycleInv, NextLifecycleInv, PTL DEF Spec

(* No pane ever shows the program of another directory: what startHolder-  *)
(* Pane looks up still holds when the pane is shown, whoever closed,       *)
(* restarted or crashed meanwhile.                                         *)
THEOREM PanesStayInTheirWorkspace == Spec => []NeverWrongWorkspace
<1>1. LifecycleInv => NeverWrongWorkspace
  BY DEF LifecycleInv, Phase, NeverWrongWorkspace, Shown
<1> QED BY <1>1, LifecycleInvariant, PTL

(* A crash at any moment finds every shown pane in the state file, with    *)
(* the session it shows.                                                   *)
THEOREM StateFileNamesThePanes == Spec => []ShownPaneSaved
<1>1. LifecycleInv => ShownPaneSaved
  <2> SUFFICES ASSUME LifecycleInv, NEW p \in Shown \ Floating PROVE saved[p] = term[p]
    BY DEF ShownPaneSaved
  <2>1. p \in Pane /\ pane[p] = "shown" /\ term[p] = session[p]
    BY DEF LifecycleInv, Shown, Phase
  <2>2. tui = "up"
    BY <2>1 DEF LifecycleInv, HolderInv, TypeOK, Cleared
  <2> QED BY <2>1, <2>2 DEF LifecycleInv, SavedInv, Snapshot
<1> QED BY <1>1, LifecycleInvariant, PTL

(* Nothing runs that no pane wants, but for what calls without an answer   *)
(* left since the launch, and nothing a pane shows is about to be killed,  *)
(* while the holder is the one the sessions were saved for.                *)
THEOREM SessionsFollowPanes == Spec => []SessionsMatchPanes
<1>1. LifecycleInv => NoLostSession
  <2> SUFFICES ASSUME LifecycleInv, tui = "up", SameHolder, NEW s \in running
               PROVE  s \in Referenced \cup abandoned
    BY DEF NoLostSession
  <2>1. s \in abandoned \/ s \in kills \/ \E p \in Pane : s \in Refs(p)
    BY DEF Sought, LifecycleInv, SameInv
  <2>2. ASSUME NEW p \in Pane, s \in Refs(p) PROVE s \in Referenced
    BY <2>2 DEF Refs, Referenced
  <2> QED BY <2>1, <2>2 DEF Referenced
<1>2. LifecycleInv => ShownNotKilled
  <2> SUFFICES ASSUME LifecycleInv, SameHolder, NEW p \in Pane, pane[p] = "shown"
               PROVE  term[p] \notin kills
    BY DEF ShownNotKilled, Shown
  <2>1. term[p] \in Refs(p)
    BY Numbers DEF LifecycleInv, Phase, Refs
  <2> QED BY <2>1 DEF LifecycleInv, SameInv, Own
<1>3. LifecycleInv => SessionsMatchPanes
  BY <1>1, <1>2 DEF SessionsMatchPanes
<1> QED BY <1>3, LifecycleInvariant, PTL

(* Two panes can only come to share a program after the holder was         *)
(* replaced (NoSharedSession): an id names one session of one holder, and  *)
(* ids start over with the next.                                           *)
THEOREM SharedOnlyByAnotherHolder == Spec => [](SameHolder => NoSharedSession)
<1>1. LifecycleInv => (SameHolder => NoSharedSession)
  <2> SUFFICES ASSUME LifecycleInv, SameHolder, NEW p \in Pane, NEW q \in Pane,
                      pane[p] = "shown", pane[q] = "shown", term[p] = term[q]
               PROVE  p = q
    BY DEF NoSharedSession, Shown
  <2>1. term[p] \in Refs(p) /\ term[q] \in Refs(q)
    BY Numbers DEF LifecycleInv, Phase, Refs
  <2> QED BY <2>1 DEF LifecycleInv, SameInv, Apart
<1> QED BY <1>1, LifecycleInvariant, PTL

-----------------------------------------------------------------------------
(* Workspaces, tabs and trees.  Lists first: what FlattenSeq, Without and  *)
(* RemoveAt make of one.                                                   *)

(* FlattenSeq, by the least length for which a claim about it would fail.  *)
LEMMA LeastNatural == ASSUME NEW S \in SUBSET Nat, S # {} PROVE \E n \in S : \A m \in S : n <= m
<1> DEFINE Less == {ij \in Nat \X Nat : ij[1] < ij[2]}
<1>1. IsWellFoundedOn(Less, Nat)
  BY NatLessThanWellFounded DEF OpToRel
<1>2. \E n \in S : \A m \in S : <<m, n>> \notin Less
  <2> HIDE DEF Less
  <2> QED BY <1>1, WFMin
<1>3. PICK n \in S : \A m \in S : <<m, n>> \notin Less
  BY <1>2
<1>4. ASSUME NEW m \in S PROVE n <= m
  <2> SUFFICES ASSUME m < n PROVE FALSE
    OBVIOUS
  <2>1. <<m, n>> \in Nat \X Nat /\ <<m, n>>[1] < <<m, n>>[2]
    OBVIOUS
  <2> QED BY <1>3, <2>1
<1> QED BY <1>4

(* u is what FlattenSeq computes of q, step by step.                       *)
Joins(u, q) == \A i \in 1..Len(q) : u[i] = IF i = 1 THEN q[i] ELSE u[i - 1] \o q[i]

LEMMA JoinsOnce ==
  ASSUME NEW q, Len(q) \in Nat, NEW u, NEW v, Joins(u, q), Joins(v, q)
  PROVE  \A i \in 1..Len(q) : u[i] = v[i]
<1> DEFINE S == {i \in 1..Len(q) : u[i] # v[i]}
<1>1. SUFFICES ASSUME S # {} PROVE FALSE
  OBVIOUS
<1>2. S \in SUBSET Nat
  OBVIOUS
<1>3. PICK n \in S : \A m \in S : n <= m
  BY <1>1, <1>2, LeastNatural
<1>4. n \in 1..Len(q) /\ u[n] # v[n] /\ \A m \in 1..Len(q) : u[m] = v[m] \/ n <= m
  BY <1>3
<1> HIDE DEF S
<1>5. CASE n = 1
  BY <1>4, <1>5 DEF Joins
<1>6. CASE n # 1
  <2>1. n - 1 \in 1..Len(q) /\ ~(n <= n - 1)
    BY <1>4, <1>6
  <2>2. u[n - 1] = v[n - 1]
    BY <1>4, <2>1
  <2>3. u[n] = u[n - 1] \o q[n] /\ v[n] = v[n - 1] \o q[n]
    BY <1>4, <1>6 DEF Joins
  <2> QED BY <1>4, <2>2, <2>3
<1> QED BY <1>5, <1>6

LEMMA LastJoined ==
  ASSUME NEW q, Len(q) \in Nat, Len(q) # 0, NEW u, NEW v, Joins(u, q), Joins(v, q)
  PROVE  u[Len(q)] = v[Len(q)]
<1>1. Len(q) \in 1..Len(q)
  OBVIOUS
<1>2. \A i \in 1..Len(q) : u[i] = v[i]
  BY JoinsOnce
<1> QED BY <1>1, <1>2

LEMMA FlattenJoins ==
  ASSUME NEW T, NEW q \in Seq(Seq(T)), q # <<>>, NEW u \in [1..Len(q) -> Seq(T)], Joins(u, q)
  PROVE  FlattenSeq(q) = u[Len(q)]
<1> DEFINE F(v) == [i \in 1..Len(q) |-> IF i = 1 THEN q[i] ELSE v[i - 1] \o q[i]]
           w == CHOOSE v : v = F(v)
<1>1. Len(q) \in 1..Len(q) /\ Len(q) # 0 /\ Len(q) \in Nat
  OBVIOUS
<1>2. FlattenSeq(q) = w[Len(q)]
  BY <1>1 DEF FlattenSeq
<1>3. u = F(u)
  BY DEF Joins
<1>4. w = F(w)
  BY <1>3
<1> HIDE DEF w
<1>5. Joins(w, q)
  BY <1>4, Zenon DEF Joins
<1>6. u[Len(q)] = w[Len(q)]
  BY <1>1, <1>5, LastJoined
<1> QED BY <1>2, <1>6

(* There is such a function, whatever the sequences.                       *)
LEMMA SomethingJoins ==
  ASSUME NEW T, NEW q \in Seq(Seq(T))
  PROVE  \E u \in [1..Len(q) -> Seq(T)] : Joins(u, q)
<1> DEFINE Upto(u, n) == \A i \in 1..n : u[i] = IF i = 1 THEN q[i] ELSE u[i - 1] \o q[i]
           S == {n \in Nat : n <= Len(q) /\ ~\E u \in [1..n -> Seq(T)] : Upto(u, n)}
<1>1. Len(q) \in Nat /\ \A i \in 1..Len(q) : q[i] \in Seq(T)
  OBVIOUS
<1>2. S = {}
  <2> SUFFICES ASSUME S # {} PROVE FALSE
    OBVIOUS
  <2>1. S \in SUBSET Nat
    OBVIOUS
  <2>2. PICK n \in S : \A m \in S : n <= m
    BY <2>1, LeastNatural
  <2>3. CASE n = 0
    <3>1. [i \in 1..0 |-> <<>>] \in [1..0 -> Seq(T)] /\ Upto([i \in 1..0 |-> <<>>], 0)
      OBVIOUS
    <3> QED BY <2>2, <2>3, <3>1
  <2>4. CASE n # 0
    <3>a. n \in Nat /\ n <= Len(q)
      BY <2>2
    <3>b. n - 1 \notin S
      <4> HIDE DEF S
      <4>1. ~(n <= n - 1)
        BY <3>a
      <4> QED BY <2>2, <4>1
    <3>1. n - 1 \in Nat /\ n \in Nat /\ n <= Len(q) /\ n - 1 <= Len(q)
      BY <3>a, <2>4, <1>1
    <3>2. PICK u \in [1..(n - 1) -> Seq(T)] : Upto(u, n - 1)
      <4> HIDE DEF Upto
      <4> QED BY <3>b, <3>1
    <3> DEFINE w == [i \in 1..n |-> IF i < n THEN u[i] ELSE IF n = 1 THEN q[n] ELSE u[n - 1] \o q[n]]
    <3>3. \A i \in 1..n : w[i] \in Seq(T)
      <4> SUFFICES ASSUME NEW i \in 1..n PROVE w[i] \in Seq(T)
        OBVIOUS
      <4>1. CASE i < n
        BY <3>1, <4>1
      <4>2. CASE i = n /\ n = 1
        BY <3>1, <4>2, <1>1
      <4>3. CASE i = n /\ n # 1
        <5>1. u[n - 1] \in Seq(T) /\ q[n] \in Seq(T)
          BY <3>1, <4>3, <1>1
        <5>2. u[n - 1] \o q[n] \in Seq(T)
          BY <5>1
        <5> QED BY <4>3, <5>2, <3>1
      <4> QED BY <4>1, <4>2, <4>3, <3>1
    <3>4. Upto(w, n)
      <4> SUFFICES ASSUME NEW i \in 1..n PROVE w[i] = IF i = 1 THEN q[i] ELSE w[i - 1] \o q[i]
        OBVIOUS
      <4>1. CASE i < n
        <5>1. i \in 1..(n - 1) /\ w[i] = u[i] /\ (i # 1 => w[i - 1] = u[i - 1])
          BY <3>1, <4>1
        <5> QED BY <3>2, <5>1
      <4>2. CASE i = n
        BY <3>1, <4>2
      <4> QED BY <4>1, <4>2, <3>1
    <3>5. w \in [1..n -> Seq(T)]
      <4> HIDE DEF w
      <4>1. w = [i \in 1..n |-> w[i]]
        BY DEF w
      <4> QED BY <3>3, <4>1
    <3> HIDE DEF w
    <3> QED BY <2>2, <3>4, <3>5
  <2> QED BY <2>3, <2>4
<1>3. Len(q) \notin S
  BY <1>2
<1> QED BY <1>1, <1>3 DEF Joins

LEMMA FlattenEmpty == FlattenSeq(<<>>) = <<>>
  BY DEF FlattenSeq

(* r consists of the elements of the first n sequences of q, which have one *)
(* element or none: h says where each of them was.                         *)
Picks(h, r, q, n) ==
    /\ h \in [1 .. Len(r) -> 1 .. n]
    /\ \A a, b \in 1 .. Len(r) : a < b => h[a] < h[b]
    /\ \A a \in 1 .. Len(r) : q[h[a]] = <<r[a]>>
    /\ \A i \in 1 .. n : q[i] # <<>> => \E a \in 1 .. Len(r) : h[a] = i

LEMMA PicksNone ==
  ASSUME NEW T, NEW r \in Seq(T), NEW q, NEW n \in Nat, NEW h, Picks(h, r, q, n), q[n + 1] = <<>>
  PROVE  Picks(h, r, q, n + 1)
<1>1. h \in [1 .. Len(r) -> 1 .. n + 1]
  <2>1. 1 .. n \subseteq 1 .. n + 1
    OBVIOUS
  <2> QED
    BY <2>1 DEF Picks
<1>2. ASSUME NEW i \in 1 .. n + 1, q[i] # <<>> PROVE \E a \in 1 .. Len(r) : h[a] = i
  <2>1. i \in 1 .. n
    BY <1>2
  <2> QED
    BY <1>2, <2>1 DEF Picks
<1> QED
  BY <1>1, <1>2 DEF Picks

LEMMA PicksOne ==
  ASSUME NEW T, NEW r \in Seq(T), NEW x \in T, NEW q, NEW n \in Nat, NEW h, Picks(h, r, q, n), q[n + 1] = <<x>>
  PROVE  \E g : Picks(g, r \o <<x>>, q, n + 1)
<1> DEFINE m == Len(r)
           s == r \o <<x>>
           g == [a \in 1 .. m + 1 |-> IF a <= m THEN h[a] ELSE n + 1]
<1>1. m \in Nat /\ Len(s) = m + 1 /\ s[m + 1] = x /\ \A a \in 1 .. m : s[a] = r[a]
  OBVIOUS
<1>2. \A a \in 1 .. m : h[a] \in 1 .. n
  BY DEF Picks
<1> HIDE DEF m, s
<1>3. /\ g[m + 1] = n + 1 /\ \A a \in 1 .. m : g[a] = h[a]
      /\ \A a \in 1 .. m + 1 : a \in 1 .. m \/ a = m + 1
  BY <1>1
<1>4. g \in [1 .. m + 1 -> 1 .. n + 1]
  <2>1. \A a \in 1 .. m + 1 : g[a] \in 1 .. n + 1
    BY <1>2, <1>3
  <2> QED
    BY <2>1
<1> HIDE DEF g
<1>5. ASSUME NEW a \in 1 .. m + 1, NEW b \in 1 .. m + 1, a < b
      PROVE  g[a] < g[b]
  <2>1. a \in 1 .. m /\ h[a] \in 1 .. n
    BY <1>1, <1>2, <1>5
  <2>2. CASE b \in 1 .. m
    <3>1. h[a] < h[b]
      BY <1>5, <2>1, <2>2 DEF Picks, m
    <3> QED
      BY <1>3, <2>1, <2>2, <3>1
  <2>3. CASE b = m + 1
    BY <1>3, <2>1, <2>3
  <2> QED
    BY <1>3, <2>2, <2>3
<1>6. ASSUME NEW a \in 1 .. m + 1
      PROVE  q[g[a]] = <<s[a]>>
  <2>1. CASE a \in 1 .. m
    <3>1. q[h[a]] = <<r[a]>>
      BY <2>1 DEF Picks, m
    <3> QED
      BY <1>1, <1>3, <2>1, <3>1
  <2>2. CASE a = m + 1
    BY <1>1, <1>3, <2>2
  <2> QED
    BY <1>3, <2>1, <2>2
<1>7. ASSUME NEW i \in 1 .. n + 1, q[i] # <<>>
      PROVE  \E a \in 1 .. m + 1 : g[a] = i
  <2>1. CASE i = n + 1
    <3>1. m + 1 \in 1 .. m + 1
      BY <1>1
    <3> QED
      BY <1>3, <2>1, <3>1
  <2>2. CASE i # n + 1
    <3>1. i \in 1 .. n
      BY <2>2
    <3>2. PICK a \in 1 .. m : h[a] = i
      BY <1>7, <3>1 DEF Picks, m
    <3>3. a \in 1 .. m + 1
      BY <1>1
    <3> QED
      BY <1>3, <3>2, <3>3
  <2> QED
    BY <2>1, <2>2
<1>8. Len(s) = m + 1
  BY <1>1
<1>9. Picks(g, s, q, n + 1)
  BY <1>4, <1>5, <1>6, <1>7, <1>8, Zenon DEF Picks
<1> QED
  BY <1>9 DEF s
LEMMA FlattenPicks ==
  ASSUME NEW T, NEW q \in Seq(Seq(T)), \A i \in 1 .. Len(q) : q[i] = <<>> \/ \E x \in T : q[i] = <<x>>
  PROVE  FlattenSeq(q) \in Seq(T) /\ \E h : Picks(h, FlattenSeq(q), q, Len(q))
<1>1. CASE q = <<>>
  <2> DEFINE h == [a \in 1 .. 0 |-> a]
  <2>1. <<>> \in Seq(T) /\ Len(<<>>) = 0 /\ Len(q) = 0
    BY <1>1
  <2>2. Picks(h, <<>>, q, 0)
    BY <2>1 DEF Picks
  <2> HIDE DEF h
  <2> QED
    BY <1>1, <2>1, <2>2, FlattenEmpty
<1>2. CASE q # <<>>
  <2>1. PICK u \in [1 .. Len(q) -> Seq(T)] : Joins(u, q)
    BY SomethingJoins
  <2>2. FlattenSeq(q) = u[Len(q)]
    BY <1>2, <2>1, FlattenJoins
  <2>3. Len(q) \in 1 .. Len(q) /\ Len(q) \in Nat
    BY <1>2
  <2> DEFINE S == {n \in 1 .. Len(q) : ~\E h : Picks(h, u[n], q, n)}
  <2>4. SUFFICES ASSUME S # {} PROVE FALSE
    BY <2>2, <2>3
  <2>5. S \in SUBSET Nat
    OBVIOUS
  <2>6. PICK n \in S : \A m \in S : n <= m
    BY <2>4, <2>5, LeastNatural
  <2>7. n \in 1 .. Len(q) /\ ~\E h : Picks(h, u[n], q, n)
    BY <2>6
  <2>8. \A m \in 1 .. Len(q) : m < n => \E h : Picks(h, u[m], q, m)
    <3> SUFFICES ASSUME NEW m \in 1 .. Len(q), m < n, m \in S PROVE FALSE
      OBVIOUS
    <3> HIDE DEF S
    <3> QED
      BY <2>6, <2>7
  <2> HIDE DEF S
  <2>9. CASE n = 1
    <3> DEFINE e == [a \in 1 .. 0 |-> a]
    <3>1. u[1] = q[1] /\ <<>> \in Seq(T)
      <4>1. 1 \in 1 .. Len(q) /\ <<>> \in Seq(T)
        BY <2>7, <2>9
      <4> QED
        BY <2>1, <4>1 DEF Joins
    <3>2. Picks(e, <<>>, q, 0)
      BY DEF Picks
    <3> HIDE DEF e
    <3>3. CASE q[1] = <<>>
      <4>1. q[0 + 1] = <<>> /\ 0 \in Nat
        BY <3>3
      <4>2. Picks(e, <<>>, q, 0 + 1)
        BY <3>1, <3>2, <4>1, PicksNone
      <4> QED
        BY <2>7, <2>9, <3>1, <3>3, <4>2
    <3>4. CASE q[1] # <<>>
      <4>1. PICK x \in T : q[1] = <<x>>
        BY <2>7, <2>9, <3>4
      <4>2. q[0 + 1] = <<x>> /\ 0 \in Nat
        BY <4>1
      <4>3. \E g : Picks(g, <<>> \o <<x>>, q, 0 + 1)
        BY <3>1, <3>2, <4>2, PicksOne
      <4>4. <<>> \o <<x>> = u[1]
        BY <3>1, <4>1
      <4>5. 0 + 1 = 1
        OBVIOUS
      <4>6. \E g : Picks(g, u[n], q, n)
        BY <2>9, <4>3, <4>4, <4>5, Zenon
      <4> QED
        BY <2>7, <4>6
    <3> QED
      BY <3>3, <3>4
  <2>10. CASE n # 1
    <3> DEFINE m == n - 1
    <3>1. m \in 1 .. Len(q) /\ m < n /\ n = m + 1 /\ m \in Nat
      BY <2>7, <2>10
    <3>2. u[n] = u[m] \o q[n]
      BY <2>1, <2>7, <2>10 DEF Joins
    <3> HIDE DEF m
    <3>3. PICK h : Picks(h, u[m], q, m)
      BY <2>8, <3>1
    <3>4. u[m] \in Seq(T)
      BY <2>1, <3>1
    <3>5. CASE q[n] = <<>>
      <4>1. Picks(h, u[m], q, m + 1)
        BY <3>1, <3>3, <3>4, <3>5, PicksNone
      <4>2. u[n] = u[m]
        BY <3>2, <3>4, <3>5
      <4> QED
        BY <2>7, <3>1, <4>1, <4>2
    <3>6. CASE q[n] # <<>>
      <4>1. PICK x \in T : q[n] = <<x>>
        BY <2>7, <3>6
      <4>2. q[m + 1] = <<x>>
        BY <3>1, <4>1
      <4>3. \E g : Picks(g, u[m] \o <<x>>, q, m + 1)
        BY <3>1, <3>3, <3>4, <4>2, PicksOne
      <4> QED
        BY <2>7, <3>1, <3>2, <4>1, <4>3
    <3> QED
      BY <3>5, <3>6
  <2> QED
    BY <2>9, <2>10
<1> QED
  BY <1>1, <1>2

(* r consists of the elements of a list at the places in kept, in order.   *)
Selects(h, r, list, kept) ==
    /\ h \in [1 .. Len(r) -> kept]
    /\ \A a, b \in 1 .. Len(r) : a < b => h[a] < h[b]
    /\ \A a \in 1 .. Len(r) : r[a] = list[h[a]]
    /\ \A i \in kept : \E a \in 1 .. Len(r) : h[a] = i

LEMMA FlattenSelects ==
  ASSUME NEW T, NEW list \in Seq(T), NEW kept \in SUBSET (1 .. Len(list))
  PROVE  LET r == FlattenSeq([i \in 1 .. Len(list) |-> IF i \in kept THEN <<list[i]>> ELSE <<>>])
         IN  r \in Seq(T) /\ \E h : Selects(h, r, list, kept)
<1> DEFINE q == [i \in 1 .. Len(list) |-> IF i \in kept THEN <<list[i]>> ELSE <<>>]
           r == FlattenSeq(q)
<1>1. \A i \in 1 .. Len(list) : q[i] \in Seq(T) /\ (q[i] = <<>> \/ \E x \in T : q[i] = <<x>>)
  OBVIOUS
<1>2. q \in Seq(Seq(T)) /\ Len(q) = Len(list) /\ \A i \in 1 .. Len(list) : q[i] = IF i \in kept THEN <<list[i]>> ELSE <<>>
  BY <1>1
<1> HIDE DEF q
<1>3. r \in Seq(T) /\ \E h : Picks(h, r, q, Len(q))
  <2>1. \A i \in 1 .. Len(q) : q[i] = <<>> \/ \E x \in T : q[i] = <<x>>
    BY <1>1, <1>2
  <2> QED
    BY <1>2, <2>1, FlattenPicks
<1> HIDE DEF r
<1>4. PICK h : Picks(h, r, q, Len(q))
  BY <1>3
<1>5. \A a \in 1 .. Len(r) : h[a] \in 1 .. Len(list) /\ q[h[a]] = <<r[a]>>
  BY <1>2, <1>4 DEF Picks
<1>6. \A a \in 1 .. Len(r) : h[a] \in kept /\ r[a] = list[h[a]]
  <2> SUFFICES ASSUME NEW a \in 1 .. Len(r) PROVE h[a] \in kept /\ r[a] = list[h[a]]
    OBVIOUS
  <2>1. h[a] \in 1 .. Len(list) /\ q[h[a]] = <<r[a]>>
    BY <1>5
  <2>2. <<r[a]>> # <<>>
    OBVIOUS
  <2>3. h[a] \in kept
    BY <1>2, <2>1, <2>2
  <2>4. <<r[a]>> = <<list[h[a]]>>
    BY <1>2, <2>1, <2>3
  <2> QED
    BY <2>3, <2>4
<1>7. h \in [1 .. Len(r) -> kept]
  <2>1. h = [a \in 1 .. Len(r) |-> h[a]]
    BY <1>4 DEF Picks
  <2> QED
    BY <1>6, <2>1
<1>8. ASSUME NEW i \in kept
      PROVE  \E a \in 1 .. Len(r) : h[a] = i
  <2>1. i \in 1 .. Len(q) /\ q[i] = <<list[i]>>
    BY <1>2
  <2>2. q[i] # <<>>
    BY <2>1
  <2> QED
    BY <1>4, <2>1, <2>2 DEF Picks
<1>9. \A a, b \in 1 .. Len(r) : a < b => h[a] < h[b]
  BY <1>4 DEF Picks
<1>10. Selects(h, r, list, kept)
  BY <1>6, <1>7, <1>8, <1>9 DEF Selects
<1> QED
  BY <1>3, <1>10 DEF r, q
-----------------------------------------------------------------------------
(* Lists.                                                                  *)

LEMMA WithoutSelects ==
  ASSUME NEW T, NEW list \in Seq(T), NEW gone
  PROVE  /\ Without(list, gone) \in Seq(T)
         /\ \E h : Selects(h, Without(list, gone), list, {i \in 1 .. Len(list) : list[i] \notin gone})
<1> DEFINE kept == {i \in 1 .. Len(list) : list[i] \notin gone}
           q == [i \in 1 .. Len(list) |-> IF i \in kept THEN <<list[i]>> ELSE <<>>]
           p == [i \in DOMAIN list |-> IF list[i] \in gone THEN <<>> ELSE <<list[i]>>]
<1>1. DOMAIN list = 1 .. Len(list)
  OBVIOUS
<1>2. \A i \in 1 .. Len(list) : (i \in kept <=> list[i] \notin gone)
  OBVIOUS
<1>3. p = q
  BY <1>1, <1>2
<1>4. Without(list, gone) = FlattenSeq(q)
  BY <1>3 DEF Without
<1>5. kept \in SUBSET (1 .. Len(list))
  OBVIOUS
<1> HIDE DEF kept
<1>6. LET r == FlattenSeq(q) IN r \in Seq(T) /\ \E h : Selects(h, r, list, kept)
  BY <1>5, FlattenSelects
<1> HIDE DEF q
<1> QED
  BY <1>4, <1>6 DEF kept

(* Selecting keeps what it keeps, and keeps it apart.                      *)
At(list, kept) == {list[i] : i \in kept}
Distinct(h, r) == \A a, b \in 1 .. Len(r) : h[a] = h[b] => a = b

LEMMA SelectsSet ==
  ASSUME NEW T, NEW list \in Seq(T), NEW r \in Seq(T), NEW kept \in SUBSET (1 .. Len(list)), NEW h,
         Selects(h, r, list, kept)
  PROVE  /\ ToSet(r) = At(list, kept)
         /\ Distinct(h, r)
<1>1. \A a \in 1 .. Len(r) : h[a] \in kept /\ r[a] = list[h[a]]
  BY DEF Selects
<1>2. ASSUME NEW a \in 1 .. Len(r), NEW b \in 1 .. Len(r), a # b
      PROVE  h[a] # h[b]
  <2>1. h[a] \in Nat /\ h[b] \in Nat
    <3>1. \A i \in kept : i \in Nat
      OBVIOUS
    <3> QED
      BY <1>1, <3>1
  <2>2. a < b \/ b < a
    BY <1>2
  <2>3. h[a] < h[b] \/ h[b] < h[a]
    BY <2>2 DEF Selects
  <2> QED
    BY <2>1, <2>3
<1>3. DOMAIN r = 1 .. Len(r)
  OBVIOUS
<1>4. ToSet(r) \subseteq {list[i] : i \in kept}
  <2> SUFFICES ASSUME NEW a \in 1 .. Len(r) PROVE r[a] \in {list[i] : i \in kept}
    BY <1>3 DEF ToSet
  <2> QED
    BY <1>1
<1>5. {list[i] : i \in kept} \subseteq ToSet(r)
  <2> SUFFICES ASSUME NEW i \in kept PROVE list[i] \in ToSet(r)
    OBVIOUS
  <2>1. PICK a \in 1 .. Len(r) : h[a] = i
    BY DEF Selects
  <2> QED
    BY <1>1, <1>3, <2>1 DEF ToSet
<1> QED
  BY <1>2, <1>4, <1>5 DEF At, Distinct

LEMMA WithoutSet ==
  ASSUME NEW T, NEW list \in Seq(T), NEW gone
  PROVE  /\ Without(list, gone) \in Seq(T)
         /\ ToSet(Without(list, gone)) = ToSet(list) \ gone
         /\ IsInjective(list) => IsInjective(Without(list, gone))
<1> DEFINE r == Without(list, gone)
           kept == {i \in 1 .. Len(list) : list[i] \notin gone}
<1>1. r \in Seq(T)
  BY WithoutSelects
<1>2. PICK h : Selects(h, r, list, kept)
  BY WithoutSelects
<1>3. kept \in SUBSET (1 .. Len(list)) /\ DOMAIN list = 1 .. Len(list)
  OBVIOUS
<1>4. At(list, kept) = ToSet(list) \ gone
  BY <1>3 DEF ToSet, At
<1> HIDE DEF r, kept
<1>5. /\ ToSet(r) = At(list, kept)
      /\ \A a, b \in 1 .. Len(r) : h[a] = h[b] => a = b
  <2>1. kept \in SUBSET (1 .. Len(list))
    BY <1>3
  <2>2. ToSet(r) = At(list, kept)
    BY <1>1, <1>2, <2>1, SelectsSet
  <2>3. Distinct(h, r)
    BY <1>1, <1>2, <2>1, SelectsSet
  <2> QED
    BY <2>2, <2>3 DEF Distinct
<1>6. ASSUME IsInjective(list), NEW a \in 1 .. Len(r), NEW b \in 1 .. Len(r), r[a] = r[b]
      PROVE  a = b
  <2>1. h[a] \in kept /\ h[b] \in kept /\ r[a] = list[h[a]] /\ r[b] = list[h[b]]
    BY <1>2 DEF Selects
  <2>2. h[a] = h[b]
    BY <1>3, <1>6, <2>1 DEF IsInjective
  <2> QED
    BY <1>5, <2>2
<1>7. DOMAIN r = 1 .. Len(r)
  BY <1>1
<1>8. IsInjective(list) => IsInjective(r)
  BY <1>6, <1>7 DEF IsInjective
<1> QED
  BY <1>1, <1>4, <1>5, <1>8 DEF r

LEMMA RemovedAt ==
  ASSUME NEW T, NEW list \in Seq(T), NEW k \in 1 .. Len(list)
  PROVE  /\ RemoveAt(list, k) \in Seq(T) /\ Len(RemoveAt(list, k)) = Len(list) - 1
         /\ \A i \in 1 .. Len(list) - 1 : RemoveAt(list, k)[i] = IF i < k THEN list[i] ELSE list[i + 1]
<1> DEFINE a == SubSeq(list, 1, k - 1)
           b == SubSeq(list, k + 1, Len(list))
<1>1. /\ a \in Seq(T) /\ Len(a) = k - 1 /\ \A i \in 1 .. k - 1 : a[i] = list[i]
  OBVIOUS
<1>2. /\ b \in Seq(T) /\ Len(b) = Len(list) - k /\ \A i \in 1 .. Len(list) - k : b[i] = list[i + k]
  OBVIOUS
<1>3. RemoveAt(list, k) = a \o b
  BY DEF RemoveAt
<1> HIDE DEF a, b
<1>4. /\ a \o b \in Seq(T) /\ Len(a \o b) = Len(list) - 1
      /\ \A i \in 1 .. Len(list) - 1 : (a \o b)[i] = IF i <= k - 1 THEN a[i] ELSE b[i - (k - 1)]
  <2>1. k - 1 = Len(a) /\ Len(list) - 1 = Len(a) + Len(b)
    BY <1>1, <1>2
  <2>a. a \in Seq(T) /\ b \in Seq(T)
    BY <1>1, <1>2
  <2>2. a \o b \in Seq(T) /\ Len(a \o b) = Len(a) + Len(b)
    BY <2>a, SMT
  <2>3. \A i \in 1 .. Len(a) + Len(b) : (a \o b)[i] = IF i <= Len(a) THEN a[i] ELSE b[i - Len(a)]
    BY <1>1, <1>2
  <2>4. \A i \in 1 .. Len(list) - 1 : (a \o b)[i] = IF i <= Len(a) THEN a[i] ELSE b[i - Len(a)]
    BY <2>1, <2>3
  <2> QED
    BY <2>1, <2>2, <2>4
<1>5. \A i \in 1 .. Len(list) - 1 : (a \o b)[i] = IF i < k THEN list[i] ELSE list[i + 1]
  <2> SUFFICES ASSUME NEW i \in 1 .. Len(list) - 1
               PROVE  (a \o b)[i] = IF i < k THEN list[i] ELSE list[i + 1]
    OBVIOUS
  <2>1. CASE i < k
    <3>1. i <= k - 1 /\ i \in 1 .. k - 1
      BY <2>1
    <3> QED
      BY <1>1, <1>4, <2>1, <3>1
  <2>2. CASE ~(i < k)
    <3>1. ~(i <= k - 1) /\ i - (k - 1) \in 1 .. Len(list) - k /\ i - (k - 1) + k = i + 1
      BY <2>2
    <3> QED
      BY <1>2, <1>4, <2>2, <3>1
  <2> QED
    BY <2>1, <2>2
<1> QED
  BY <1>3, <1>4, <1>5

LEMMA RemovedSet ==
  ASSUME NEW T, NEW list \in Seq(T), NEW k \in 1 .. Len(list)
  PROVE  /\ ToSet(RemoveAt(list, k)) = {list[i] : i \in 1 .. Len(list) \ {k}}
         /\ IsInjective(list) => /\ IsInjective(RemoveAt(list, k))
                                 /\ ToSet(RemoveAt(list, k)) = ToSet(list) \ {list[k]}
<1> DEFINE r == RemoveAt(list, k)
<1>1. r \in Seq(T) /\ Len(r) = Len(list) - 1 /\ \A i \in 1 .. Len(list) - 1 : r[i] = IF i < k THEN list[i] ELSE list[i + 1]
  BY RemovedAt
<1> HIDE DEF r
<1>2. DOMAIN r = 1 .. Len(list) - 1 /\ DOMAIN list = 1 .. Len(list)
  BY <1>1
<1>3. ToSet(r) \subseteq {list[i] : i \in 1 .. Len(list) \ {k}}
  <2> SUFFICES ASSUME NEW i \in 1 .. Len(list) - 1 PROVE \E j \in 1 .. Len(list) \ {k} : r[i] = list[j]
    BY <1>2 DEF ToSet
  <2>1. CASE i < k
    <3>1. i \in 1 .. Len(list) \ {k}
      BY <2>1
    <3> QED
      BY <1>1, <2>1, <3>1
  <2>2. CASE ~(i < k)
    <3>1. i + 1 \in 1 .. Len(list) \ {k}
      BY <2>2
    <3> QED
      BY <1>1, <2>2, <3>1
  <2> QED
    BY <2>1, <2>2
<1>4. ASSUME NEW j \in 1 .. Len(list) \ {k}
      PROVE  list[j] \in ToSet(r)
  <2>1. CASE j < k
    <3>1. j \in 1 .. Len(list) - 1 /\ r[j] = list[j]
      BY <1>1, <2>1
    <3> QED
      BY <1>2, <3>1 DEF ToSet
  <2>2. CASE ~(j < k)
    <3>1. j - 1 \in 1 .. Len(list) - 1 /\ ~(j - 1 < k) /\ (j - 1) + 1 = j
      BY <2>2
    <3>2. r[j - 1] = list[j]
      BY <1>1, <3>1
    <3> QED
      BY <1>2, <3>1, <3>2 DEF ToSet
  <2> QED
    BY <2>1, <2>2
<1>5. ASSUME IsInjective(list)
      PROVE  IsInjective(r) /\ ToSet(r) = ToSet(list) \ {list[k]}
  <2>1. ASSUME NEW i \in 1 .. Len(list) - 1, NEW j \in 1 .. Len(list) - 1, r[i] = r[j]
        PROVE  i = j
    <3> DEFINE a == IF i < k THEN i ELSE i + 1
               b == IF j < k THEN j ELSE j + 1
    <3>1. a \in 1 .. Len(list) /\ b \in 1 .. Len(list) /\ (a = b => i = j)
      OBVIOUS
    <3>2. r[i] = list[a] /\ r[j] = list[b]
      BY <1>1
    <3> HIDE DEF a, b
    <3> QED
      BY <1>2, <1>5, <2>1, <3>1, <3>2 DEF IsInjective
  <2>2. IsInjective(r)
    BY <1>2, <2>1 DEF IsInjective
  <2>3. {list[i] : i \in 1 .. Len(list) \ {k}} = ToSet(list) \ {list[k]}
    BY <1>2, <1>5 DEF ToSet, IsInjective
  <2> QED
    BY <1>3, <1>4, <2>2, <2>3
<1> QED
  BY <1>3, <1>4, <1>5 DEF r

LEMMA PlaceOf ==
  ASSUME NEW T, NEW list \in Seq(T), NEW p
  PROVE  /\ p \in ToSet(list) => Place(list, p) \in 1 .. Len(list) /\ list[Place(list, p)] = p
         /\ p \notin ToSet(list) => Place(list, p) = 0
<1> DEFINE I == {i \in 1 .. Len(list) : list[i] = p}
<1>1. Place(list, p) = IF I # {} THEN Min(I) ELSE 0
  BY DEF Place, SelectInSeq
<1>2. p \in ToSet(list) <=> I # {}
  BY DEF ToSet
<1>3. ASSUME I # {} PROVE Min(I) \in I
  <2>1. I \in SUBSET Nat
    OBVIOUS
  <2> HIDE DEF I
  <2>2. \E i \in I : \A j \in I : i <= j
    BY <1>3, <2>1, LeastNatural
  <2> QED
    BY <2>2 DEF Min
<1> QED
  BY <1>1, <1>2, <1>3

-----------------------------------------------------------------------------
(* Lists of nodes that are trees: what a balance says of one, and what a   *)
(* handler that splits or removes a leaf leaves of it.                     *)

(* One tree: leaves less splits, node by node.                             *)
LEMMA LeavesCounted ==
  ASSUME NEW n, NEW e \in Nat
  PROVE  IsFiniteSet({i \in 1 .. e : IsLeaf(n[i])}) /\ Cardinality({i \in 1 .. e : IsLeaf(n[i])}) \in Nat
<1>1. IsFiniteSet(1 .. e)
  BY FS_Interval
<1>2. {i \in 1 .. e : IsLeaf(n[i])} \in SUBSET (1 .. e)
  OBVIOUS
<1>3. IsFiniteSet({i \in 1 .. e : IsLeaf(n[i])})
  BY <1>1, <1>2, FS_Subset
<1> QED
  BY <1>3, FS_CardinalityType

Weight(n, k) == IF IsLeaf(n[k]) THEN 1 ELSE -1

LEMMA BalanceStep ==
  ASSUME NEW n
  PROVE  /\ Balance(n, 0) = 0
         /\ \A e \in Nat : Balance(n, e) \in Int /\ Balance(n, e + 1) = Balance(n, e) + Weight(n, e + 1)
<1> DEFINE L(e) == {i \in 1 .. e : IsLeaf(n[i])}
<1>1. L(0) = {}
  OBVIOUS
<1>2. Balance(n, 0) = 0
  BY <1>1, FS_EmptySet DEF Balance
<1>3. ASSUME NEW e \in Nat
      PROVE  Balance(n, e) \in Int /\ Balance(n, e + 1) = Balance(n, e) + Weight(n, e + 1)
  <2>1. IsFiniteSet(L(e)) /\ Cardinality(L(e)) \in Nat
    BY LeavesCounted
  <2>2. Balance(n, e) = 2 * Cardinality(L(e)) - e /\ Balance(n, e + 1) = 2 * Cardinality(L(e + 1)) - (e + 1)
    BY DEF Balance
  <2>3. CASE IsLeaf(n[e + 1])
    <3>1. L(e + 1) = L(e) \cup {e + 1} /\ e + 1 \notin L(e)
      BY <2>3
    <3>2. Cardinality(L(e + 1)) = Cardinality(L(e)) + 1
      <4> HIDE DEF L
      <4> QED BY <2>1, <3>1, FS_AddElement
    <3> HIDE DEF L
    <3> QED
      BY <2>1, <2>2, <2>3, <3>2 DEF Weight
  <2>4. CASE ~IsLeaf(n[e + 1])
    <3>1. L(e + 1) = L(e)
      BY <2>4
    <3> HIDE DEF L
    <3> QED
      BY <2>1, <2>2, <2>4, <3>1 DEF Weight
  <2> QED
    BY <2>3, <2>4
<1> QED
  BY <1>2, <1>3

LEMMA BalanceInt == ASSUME NEW n, NEW e \in Nat PROVE Balance(n, e) \in Int
  BY BalanceStep

(* Where two lists have leaves at the same places, the one from a on and    *)
(* the other from b on, they gain the same.                                *)
SameLeaves(m, a, n, b, len) == \A i \in 1 .. len : IsLeaf(m[a + i]) <=> IsLeaf(n[b + i])
Gains(m, a, n, b, i) == Balance(m, a + i) - Balance(m, a) = Balance(n, b + i) - Balance(n, b)

LEMMA SameGain ==
  ASSUME NEW m, NEW n, NEW a \in Nat, NEW b \in Nat, NEW len \in Nat, SameLeaves(m, a, n, b, len),
         NEW i \in 0 .. len
  PROVE  Gains(m, a, n, b, i)
<1> DEFINE S == {e \in 0 .. len : ~Gains(m, a, n, b, e)}
<1> SUFFICES ASSUME S # {} PROVE FALSE
  OBVIOUS
<1>1. S \in SUBSET Nat
  OBVIOUS
<1>2. PICK e \in S : \A d \in S : e <= d
  BY <1>1, LeastNatural
<1>3. e \in 0 .. len /\ ~Gains(m, a, n, b, e) /\ \A d \in 0 .. len : Gains(m, a, n, b, d) \/ e <= d
  BY <1>2
<1> HIDE DEF S
<1>4. CASE e = 0
  <2>1. a + 0 = a /\ b + 0 = b
    OBVIOUS
  <2>2. Balance(m, a) \in Int /\ Balance(n, b) \in Int
    BY BalanceInt
  <2> QED
    BY <1>3, <1>4, <2>1, <2>2 DEF Gains
<1>5. CASE e # 0
  <2>1. e - 1 \in 0 .. len /\ e \in 1 .. len /\ a + (e - 1) \in Nat /\ b + (e - 1) \in Nat
    BY <1>3, <1>5
  <2>2. Gains(m, a, n, b, e - 1)
    BY <1>3, <2>1
  <2>3. Weight(m, a + e) = Weight(n, b + e)
    BY <2>1 DEF SameLeaves, Weight
  <2>4. Balance(m, a + (e - 1)) \in Int /\ Balance(m, (a + (e - 1)) + 1) = Balance(m, a + (e - 1)) + Weight(m, (a + (e - 1)) + 1)
    BY <2>1, BalanceStep
  <2>5. Balance(n, b + (e - 1)) \in Int /\ Balance(n, (b + (e - 1)) + 1) = Balance(n, b + (e - 1)) + Weight(n, (b + (e - 1)) + 1)
    BY <2>1, BalanceStep
  <2>6. (a + (e - 1)) + 1 = a + e /\ (b + (e - 1)) + 1 = b + e
    BY <2>1
  <2>7. Balance(m, a) \in Int /\ Balance(n, b) \in Int
    BY BalanceStep
  <2>8. Balance(m, a + e) = Balance(m, a + (e - 1)) + Weight(m, a + e)
    BY <2>4, <2>6
  <2>9. Balance(n, b + e) = Balance(n, b + (e - 1)) + Weight(n, b + e)
    BY <2>5, <2>6
  <2>10. Weight(m, a + e) \in Int
    BY DEF Weight
  <2> QED
    BY <1>3, <2>2, <2>3, <2>4, <2>5, <2>7, <2>8, <2>9, <2>10 DEF Gains
<1> QED
  BY <1>4, <1>5

LEMMA SameBalance ==
  ASSUME NEW m, NEW n, NEW len \in Nat, \A i \in 1 .. len : IsLeaf(m[i]) <=> IsLeaf(n[i]), NEW e \in 0 .. len
  PROVE  Balance(m, e) = Balance(n, e)
<1>1. SameLeaves(m, 0, n, 0, len)
  BY DEF SameLeaves
<1>2. Gains(m, 0, n, 0, e)
  BY <1>1, SameGain
<1>3. 0 + e = e /\ e \in Nat
  OBVIOUS
<1>4. Balance(m, e) \in Int /\ Balance(n, e) \in Int
  BY <1>3, BalanceInt
<1>5. Balance(m, 0) = 0 /\ Balance(n, 0) = 0
  BY BalanceStep
<1> QED
  BY <1>2, <1>3, <1>4, <1>5 DEF Gains

(* What makes the leaves of one tree leaves makes a tree of it.            *)
LEMMA SameTree ==
  ASSUME NEW T, NEW U, NEW n \in Seq(T), NEW m \in Seq(U), Len(m) = Len(n),
         \A i \in 1 .. Len(n) : IsLeaf(m[i]) <=> IsLeaf(n[i]), IsTree(n)
  PROVE  IsTree(m)
<1>1. \A e \in 0 .. Len(n) : Balance(m, e) = Balance(n, e)
  BY SameBalance
<1>2. m # Nil => n # Nil /\ Len(n) \in 0 .. Len(n)
  BY DEF Nil
<1>3. \A e \in 1 .. Len(n) - 1 : e \in 0 .. Len(n)
  OBVIOUS
<1> QED
  BY <1>1, <1>2, <1>3 DEF IsTree

(* Where the tree ends that begins with a node of a tree.                  *)
IsEnd(n, k, e) ==
  /\ e \in k .. Len(n) /\ Balance(n, e) > Balance(n, k - 1)
  /\ \A d \in k .. e - 1 : Balance(n, d) <= Balance(n, k - 1)

LEMMA TreeBalance ==
  ASSUME NEW T, NEW n \in Seq(T), IsTree(n), NEW k \in 1 .. Len(n)
  PROVE  Balance(n, Len(n)) = 1 /\ Balance(n, k - 1) \in Int /\ Balance(n, k - 1) <= 0
<1>1. n # Nil
  BY DEF Nil
<1>2. Balance(n, Len(n)) = 1 /\ \A e \in 1 .. Len(n) - 1 : Balance(n, e) <= 0
  BY <1>1 DEF IsTree
<1>3. k - 1 \in Nat /\ (k - 1 = 0 \/ k - 1 \in 1 .. Len(n) - 1)
  OBVIOUS
<1>4. Balance(n, k - 1) \in Int
  BY <1>3, BalanceInt
<1>5. Balance(n, 0) = 0
  BY BalanceStep
<1> QED
  BY <1>2, <1>3, <1>4, <1>5

LEMMA EndExists ==
  ASSUME NEW T, NEW n \in Seq(T), IsTree(n), NEW k \in 1 .. Len(n)
  PROVE  IsEnd(n, k, End(n, k))
<1> DEFINE S == {e \in k .. Len(n) : Balance(n, e) > Balance(n, k - 1)}
<1>1. Len(n) \in S
  <2>1. Balance(n, Len(n)) = 1 /\ Balance(n, k - 1) \in Int /\ Balance(n, k - 1) <= 0
    BY TreeBalance
  <2>2. Len(n) \in k .. Len(n)
    OBVIOUS
  <2> QED
    BY <2>1, <2>2
<1>2. S \in SUBSET Nat /\ S # {}
  BY <1>1
<1>3. PICK f \in S : \A d \in S : f <= d
  BY <1>2, LeastNatural
<1>4. End(n, k) = Min(S)
  BY DEF End
<1>5. Min(S) \in S /\ \A d \in S : Min(S) <= d
  <2> HIDE DEF S
  <2> QED BY <1>3 DEF Min
<1>6. End(n, k) \in S /\ \A d \in S : End(n, k) <= d
  BY <1>4, <1>5
<1>7. End(n, k) \in k .. Len(n) /\ Balance(n, End(n, k)) > Balance(n, k - 1)
  BY <1>6
<1>8. ASSUME NEW d \in k .. End(n, k) - 1 PROVE Balance(n, d) <= Balance(n, k - 1)
  <2>1. d \in k .. Len(n) /\ ~(End(n, k) <= d)
    BY <1>7
  <2>2. d \notin S
    BY <1>6, <2>1
  <2>3. d \in Nat /\ k - 1 \in Nat
    BY <1>7
  <2>4. Balance(n, d) \in Int /\ Balance(n, k - 1) \in Int
    BY <2>3, BalanceInt
  <2> QED
    BY <2>1, <2>2, <2>4
<1> QED
  BY <1>7, <1>8 DEF IsEnd

(* It ends where its first node, or the two trees below it, balance.       *)
LEMMA EndOf ==
  ASSUME NEW T, NEW n \in Seq(T), IsTree(n), NEW k \in 1 .. Len(n)
  PROVE  /\ End(n, k) \in k .. Len(n)
         /\ Balance(n, End(n, k)) = Balance(n, k - 1) + 1
         /\ \A d \in k .. End(n, k) - 1 : Balance(n, d) <= Balance(n, k - 1)
         /\ IsLeaf(n[End(n, k)])
         /\ Balance(n, End(n, k) - 1) = Balance(n, k - 1)
<1> DEFINE e == End(n, k)
<1>1. IsEnd(n, k, e)
  BY EndExists
<1> HIDE DEF e
<1>2. e \in k .. Len(n) /\ Balance(n, e) > Balance(n, k - 1) /\ \A d \in k .. e - 1 : Balance(n, d) <= Balance(n, k - 1)
  BY <1>1 DEF IsEnd
<1>3. e - 1 \in Nat /\ e \in Nat /\ k - 1 \in Nat /\ (e - 1) + 1 = e
  BY <1>2
<1>4. Balance(n, e) \in Int /\ Balance(n, e - 1) \in Int /\ Balance(n, k - 1) \in Int
  BY <1>3, BalanceInt
<1>5. Balance(n, (e - 1) + 1) = Balance(n, e - 1) + Weight(n, (e - 1) + 1)
  BY <1>3, BalanceStep
<1>6. Balance(n, e - 1) <= Balance(n, k - 1)
  <2>1. CASE e = k
    BY <1>4, <2>1
  <2>2. CASE e # k
    BY <1>2, <2>2
  <2> QED
    BY <2>1, <2>2
<1>7. Weight(n, e) = 1 /\ Balance(n, e) = Balance(n, k - 1) + 1 /\ Balance(n, e - 1) = Balance(n, k - 1)
  BY <1>2, <1>3, <1>4, <1>5, <1>6 DEF Weight
<1>8. IsLeaf(n[e])
  BY <1>7 DEF Weight
<1> QED
  BY <1>2, <1>7, <1>8 DEF e

LEMMA EndIs ==
  ASSUME NEW T, NEW n \in Seq(T), IsTree(n), NEW k \in 1 .. Len(n), NEW e, IsEnd(n, k, e)
  PROVE  End(n, k) = e
<1>1. IsEnd(n, k, End(n, k))
  BY EndExists
<1> DEFINE f == End(n, k)
<1>2. IsEnd(n, k, f)
  BY <1>1
<1> HIDE DEF f
<1>3. e \in k .. Len(n) /\ Balance(n, e) > Balance(n, k - 1) /\ \A d \in k .. e - 1 : Balance(n, d) <= Balance(n, k - 1)
  BY DEF IsEnd
<1>4. f \in k .. Len(n) /\ Balance(n, f) > Balance(n, k - 1) /\ \A d \in k .. f - 1 : Balance(n, d) <= Balance(n, k - 1)
  BY <1>2 DEF IsEnd
<1>5. e \in Nat /\ f \in Nat /\ k - 1 \in Nat
  BY <1>3, <1>4
<1>6. Balance(n, e) \in Int /\ Balance(n, f) \in Int /\ Balance(n, k - 1) \in Int
  BY <1>5, BalanceInt
<1>7. ~(e < f)
  <2> SUFFICES ASSUME e < f PROVE FALSE
    OBVIOUS
  <2>1. e \in k .. f - 1
    BY <1>3, <1>4
  <2> QED
    BY <1>3, <1>4, <1>6, <2>1
<1>8. ~(f < e)
  <2> SUFFICES ASSUME f < e PROVE FALSE
    OBVIOUS
  <2>1. f \in k .. e - 1
    BY <1>3, <1>4
  <2> QED
    BY <1>3, <1>4, <1>6, <2>1
<1> QED
  BY <1>5, <1>7, <1>8 DEF f

LEMMA EndOfLeaf ==
  ASSUME NEW T, NEW n \in Seq(T), IsTree(n), NEW k \in 1 .. Len(n), IsLeaf(n[k])
  PROVE  End(n, k) = k
<1>1. k - 1 \in Nat /\ (k - 1) + 1 = k
  OBVIOUS
<1>2. Balance(n, (k - 1) + 1) = Balance(n, k - 1) + Weight(n, (k - 1) + 1) /\ Balance(n, k - 1) \in Int
  BY <1>1, BalanceStep
<1>3. Balance(n, k) = Balance(n, k - 1) + 1
  BY <1>1, <1>2 DEF Weight
<1>4. IsEnd(n, k, k)
  BY <1>2, <1>3 DEF IsEnd
<1> QED
  BY <1>4, EndIs

(* A tree within a tree ends within it.                                    *)
LEMMA EndWithin ==
  ASSUME NEW T, NEW n \in Seq(T), IsTree(n), NEW k \in 1 .. Len(n), NEW j \in k .. End(n, k)
  PROVE  j \in 1 .. Len(n) /\ End(n, j) <= End(n, k)
<1> DEFINE e == End(n, k)
           f == End(n, j)
<1>1. e \in k .. Len(n) /\ Balance(n, e) = Balance(n, k - 1) + 1 /\ \A d \in k .. e - 1 : Balance(n, d) <= Balance(n, k - 1)
  BY EndOf
<1>2. j \in 1 .. Len(n)
  BY <1>1
<1>3. f \in j .. Len(n) /\ \A d \in j .. f - 1 : Balance(n, d) <= Balance(n, j - 1)
  BY <1>2, EndOf
<1> HIDE DEF e, f
<1>4. j \in k .. e
  BY DEF e
<1>5. j - 1 \in Nat /\ k - 1 \in Nat /\ e \in Nat
  BY <1>1, <1>2
<1>6. Balance(n, j - 1) \in Int /\ Balance(n, k - 1) \in Int /\ Balance(n, e) \in Int
  BY <1>5, BalanceInt
<1>7. Balance(n, j - 1) <= Balance(n, k - 1)
  <2>1. CASE j = k
    BY <1>6, <2>1
  <2>2. CASE j # k
    <3>1. j - 1 \in k .. e - 1
      BY <1>1, <1>4, <2>2
    <3> QED
      BY <1>1, <3>1
  <2> QED
    BY <2>1, <2>2
<1>8. ~(e < f)
  <2> SUFFICES ASSUME e < f PROVE FALSE
    OBVIOUS
  <2>1. e \in j .. f - 1
    BY <1>1, <1>3, <1>4
  <2>2. Balance(n, e) <= Balance(n, j - 1)
    BY <1>3, <2>1
  <2> QED
    BY <1>1, <1>6, <1>7, <2>2
<1>9. f <= e
  BY <1>1, <1>3, <1>8
<1> QED
  BY <1>2, <1>9 DEF e, f

(* The tree of a split has two trees below it.                             *)
LEMMA SplitHasTwo ==
  ASSUME NEW T, NEW n \in Seq(T), IsTree(n), NEW j \in 1 .. Len(n), ~IsLeaf(n[j])
  PROVE  /\ j + 1 \in 1 .. Len(n)
         /\ End(n, j + 1) \in j + 1 .. Len(n) - 1
         /\ End(n, j + 1) < End(n, j)
         /\ Balance(n, j) = Balance(n, j - 1) - 1
<1>1. j - 1 \in Nat /\ (j - 1) + 1 = j /\ j \in Nat
  OBVIOUS
<1>2. Balance(n, (j - 1) + 1) = Balance(n, j - 1) + Weight(n, (j - 1) + 1) /\ Balance(n, j - 1) \in Int
  BY <1>1, BalanceStep
<1>3. Balance(n, j) = Balance(n, j - 1) - 1
  BY <1>1, <1>2 DEF Weight
<1>4. Balance(n, Len(n)) = 1 /\ Balance(n, j - 1) <= 0
  BY TreeBalance
<1>5. j # Len(n)
  BY <1>2, <1>3, <1>4
<1>6. j + 1 \in 1 .. Len(n) /\ (j + 1) - 1 = j
  BY <1>1, <1>5
<1> DEFINE e == End(n, j + 1)
           f == End(n, j)
<1>7. e \in j + 1 .. Len(n) /\ Balance(n, e) = Balance(n, j) + 1 /\ \A d \in j + 1 .. e - 1 : Balance(n, d) <= Balance(n, j)
  <2>1. /\ e \in j + 1 .. Len(n) /\ Balance(n, e) = Balance(n, (j + 1) - 1) + 1
        /\ \A d \in j + 1 .. e - 1 : Balance(n, d) <= Balance(n, (j + 1) - 1)
    BY <1>6, EndOf
  <2> HIDE DEF e
  <2> QED
    BY <1>6, <2>1
<1>8. f \in j .. Len(n) /\ Balance(n, f) = Balance(n, j - 1) + 1
  BY EndOf
<1> HIDE DEF e, f
<1>9. f > e
  <2> SUFFICES ASSUME f <= e PROVE FALSE
    BY <1>7, <1>8
  <2>1. f = j \/ f = e \/ f \in j + 1 .. e - 1
    BY <1>7, <1>8
  <2> QED
    BY <1>2, <1>3, <1>7, <1>8, <2>1
<1>10. e \in j + 1 .. Len(n) - 1 /\ e < f
  BY <1>7, <1>8, <1>9
<1> QED
  BY <1>3, <1>6, <1>10 DEF e, f

(* Every node but the first has one parent.                                *)
Above(n, k, j) == j \in 1 .. k - 1 /\ ~IsLeaf(n[j]) /\ (k = j + 1 \/ k = End(n, j + 1) + 1)

LEMMA BehindLeaf ==
  ASSUME NEW T, NEW n \in Seq(T), IsTree(n), NEW k \in 2 .. Len(n), IsLeaf(n[k - 1])
  PROVE  \E j \in 1 .. k - 2 : /\ ~IsLeaf(n[j]) /\ End(n, j + 1) = k - 1
                               /\ Balance(n, j - 1) = Balance(n, k - 1)
                               /\ \A d \in j .. k - 2 : Balance(n, d) < Balance(n, k - 1)
<1> DEFINE b == Balance(n, k - 1)
           S == {m \in 0 .. k - 2 : Balance(n, (k - 2) - m) >= b}
<1>1. k - 1 \in Nat /\ k - 2 \in Nat /\ k \in 1 .. Len(n) /\ (k - 2) + 1 = k - 1
  OBVIOUS
<1>2. b \in Int /\ b <= 0
  BY <1>1, TreeBalance
<1>3. Balance(n, (k - 2) + 1) = Balance(n, k - 2) + Weight(n, (k - 2) + 1) /\ Balance(n, k - 2) \in Int
  BY <1>1, BalanceStep
<1>4. Balance(n, k - 2) = b - 1
  BY <1>1, <1>2, <1>3 DEF Weight
<1>5. k - 2 \in S
  <2>1. (k - 2) - (k - 2) = 0 /\ Balance(n, 0) = 0
    BY <1>1, BalanceStep
  <2> HIDE DEF b
  <2> QED
    BY <1>1, <1>2, <2>1
<1> HIDE DEF b
<1>a. S \in SUBSET Nat
  <2> SUFFICES ASSUME NEW m \in S PROVE m \in Nat
    OBVIOUS
  <2>1. m \in 0 .. k - 2
    OBVIOUS
  <2> QED
    BY <1>1, <2>1
<1>6. S \in SUBSET Nat /\ S # {}
  <2> HIDE DEF S
  <2> QED BY <1>a, <1>5
<1>7. PICK m \in S : \A d \in S : m <= d
  BY <1>6, LeastNatural
<1>8. m \in 0 .. k - 2 /\ Balance(n, (k - 2) - m) >= b
  OBVIOUS
<1>9. ASSUME NEW d \in 0 .. k - 2, d < m PROVE Balance(n, (k - 2) - d) < b
  <2>1. d \notin S
    BY <1>7, <1>8, <1>9
  <2>2. (k - 2) - d \in Nat
    BY <1>1
  <2>3. Balance(n, (k - 2) - d) \in Int
    BY <2>2, BalanceInt
  <2> QED
    BY <1>2, <2>1, <2>3
<1> HIDE DEF S
<1>10. m # 0
  BY <1>1, <1>2, <1>4, <1>8
<1> DEFINE j == (k - 1) - m
<1>11. j \in 1 .. k - 2 /\ j - 1 = (k - 2) - m /\ j = (k - 2) - (m - 1) /\ m - 1 \in 0 .. k - 2 /\ m - 1 < m /\ j - 1 \in Nat
  BY <1>1, <1>8, <1>10
<1>12. ASSUME NEW d \in j .. k - 2 PROVE Balance(n, d) < b
  <2>1. (k - 2) - d \in 0 .. k - 2 /\ (k - 2) - d < m /\ (k - 2) - ((k - 2) - d) = d
    BY <1>1, <1>8, <1>11
  <2>2. Balance(n, (k - 2) - ((k - 2) - d)) < b
    BY <1>9, <2>1
  <2> QED
    BY <2>1, <2>2
<1>13. Balance(n, j - 1) >= b
  BY <1>8, <1>11
<1> HIDE DEF j
<1>14. j \in j .. k - 2 /\ (j - 1) + 1 = j /\ j \in Nat /\ j \in 1 .. Len(n)
  BY <1>1, <1>11
<1>15. Balance(n, (j - 1) + 1) = Balance(n, j - 1) + Weight(n, (j - 1) + 1) /\ Balance(n, j - 1) \in Int
  BY <1>11, BalanceStep
<1>16. Balance(n, j) < b /\ Balance(n, j) \in Int
  BY <1>12, <1>14, BalanceInt
<1>17. Weight(n, j) = -1 /\ Balance(n, j) = b - 1 /\ Balance(n, j - 1) = b
  BY <1>2, <1>13, <1>14, <1>15, <1>16 DEF Weight
<1>18. ~IsLeaf(n[j])
  BY <1>17 DEF Weight
<1>19. IsEnd(n, j + 1, k - 1)
  <2>1. (j + 1) - 1 = j /\ k - 1 \in j + 1 .. Len(n) /\ (k - 1) - 1 = k - 2
    BY <1>1, <1>11
  <2>2. \A d \in j + 1 .. k - 2 : Balance(n, d) <= Balance(n, j)
    <3> SUFFICES ASSUME NEW d \in j + 1 .. k - 2 PROVE Balance(n, d) <= Balance(n, j)
      OBVIOUS
    <3>1. d \in j .. k - 2 /\ d \in Nat
      BY <1>11
    <3>2. Balance(n, d) \in Int /\ Balance(n, d) < b
      BY <1>12, <3>1, BalanceInt
    <3> QED
      BY <1>2, <1>17, <3>2
  <2>3. Balance(n, k - 1) > Balance(n, j)
    <3>1. Balance(n, k - 1) = b
      BY DEF b
    <3> QED
      BY <1>2, <1>17, <3>1
  <2> QED
    BY <2>1, <2>2, <2>3 DEF IsEnd
<1>20. End(n, j + 1) = k - 1
  <2>1. j + 1 \in 1 .. Len(n)
    BY <1>1, <1>11
  <2> QED
    BY <1>19, <2>1, EndIs
<1> QED
  BY <1>11, <1>12, <1>17, <1>18, <1>20 DEF b

LEMMA OneParent ==
  ASSUME NEW T, NEW n \in Seq(T), IsTree(n), NEW k \in 2 .. Len(n)
  PROVE  \E j \in 1 .. k - 1 : Parents(n, k) = {j} /\ Above(n, k, j)
<1>1. \A j : j \in Parents(n, k) <=> Above(n, k, j)
  BY DEF Parents, Above
<1>2. k - 1 \in 1 .. Len(n) /\ (k - 1) + 1 = k /\ k \in 1 .. Len(n)
  OBVIOUS
<1>3. ASSUME NEW j, Above(n, k, j), k # j + 1 PROVE j \in 1 .. k - 2 /\ End(n, j + 1) = k - 1 /\ IsLeaf(n[k - 1])
  <2>1. j \in 1 .. k - 1 /\ k = End(n, j + 1) + 1
    BY <1>3 DEF Above
  <2>2. j \in 1 .. k - 2 /\ j + 1 \in 1 .. Len(n)
    BY <1>3, <2>1
  <2>3. End(n, j + 1) \in j + 1 .. Len(n) /\ IsLeaf(n[End(n, j + 1)])
    BY <2>2, EndOf
  <2>4. End(n, j + 1) = k - 1
    BY <2>1, <2>3
  <2> QED
    BY <2>2, <2>3, <2>4
<1>4. CASE ~IsLeaf(n[k - 1])
  <2>1. Above(n, k, k - 1)
    BY <1>2, <1>4 DEF Above
  <2>2. \A j : Above(n, k, j) => j = k - 1
    <3> SUFFICES ASSUME NEW j, Above(n, k, j) PROVE j = k - 1
      OBVIOUS
    <3>1. k = j + 1 /\ j \in 1 .. k - 1
      BY <1>3, <1>4 DEF Above
    <3> QED
      BY <3>1
  <2> QED
    BY <1>1, <1>2, <2>1, <2>2
<1>5. CASE IsLeaf(n[k - 1])
  <2>1. PICK j \in 1 .. k - 2 : /\ ~IsLeaf(n[j]) /\ End(n, j + 1) = k - 1
                                /\ Balance(n, j - 1) = Balance(n, k - 1)
                                /\ \A d \in j .. k - 2 : Balance(n, d) < Balance(n, k - 1)
    BY <1>5, BehindLeaf
  <2>2. Above(n, k, j) /\ j \in 1 .. k - 1
    BY <1>2, <2>1 DEF Above
  <2>3. ASSUME NEW i, Above(n, k, i) PROVE i = j
    <3>1. k # i + 1
      <4>1. i \in 1 .. k - 1 /\ ~IsLeaf(n[i])
        BY <2>3 DEF Above
      <4> QED
        BY <1>5, <4>1
    <3>2. i \in 1 .. k - 2 /\ End(n, i + 1) = k - 1 /\ ~IsLeaf(n[i])
      BY <1>3, <2>3, <3>1 DEF Above
    <3>3. i \in 1 .. Len(n) /\ i + 1 \in 1 .. Len(n) /\ (i + 1) - 1 = i /\ i - 1 \in Nat /\ i \in Nat
      BY <3>2
    <3>4. /\ Balance(n, i) = Balance(n, i - 1) - 1
      BY <3>2, <3>3, SplitHasTwo
    <3>5. /\ Balance(n, k - 1) = Balance(n, (i + 1) - 1) + 1
          /\ \A d \in i + 1 .. (k - 1) - 1 : Balance(n, d) <= Balance(n, (i + 1) - 1)
      BY <3>2, <3>3, EndOf
    <3>6. (k - 1) - 1 = k - 2 /\ Balance(n, i) \in Int /\ Balance(n, i - 1) \in Int /\ Balance(n, k - 1) \in Int
      BY <1>2, <3>3, BalanceInt
    <3>7. Balance(n, k - 1) = Balance(n, i) + 1 /\ \A d \in i + 1 .. k - 2 : Balance(n, d) <= Balance(n, i)
      BY <3>3, <3>5, <3>6
    <3>8. Balance(n, i - 1) = Balance(n, k - 1)
      BY <3>4, <3>6, <3>7
    <3>9. ~(i < j)
      <4> SUFFICES ASSUME i < j PROVE FALSE
        OBVIOUS
      <4>1. j - 1 = i \/ j - 1 \in i + 1 .. k - 2
        BY <3>2
      <4>2. Balance(n, j - 1) <= Balance(n, i)
        BY <3>6, <3>7, <4>1
      <4> QED
        BY <2>1, <3>6, <3>7, <4>2
    <3>10. ~(j < i)
      <4> SUFFICES ASSUME j < i PROVE FALSE
        OBVIOUS
      <4>1. i - 1 \in j .. k - 2
        BY <3>2
      <4> QED
        BY <2>1, <3>6, <3>8, <4>1
    <3> QED
      BY <3>2, <3>9, <3>10
  <2> QED
    BY <1>1, <2>2, <2>3
<1> QED
  BY <1>4, <1>5

(* A selection of the same places in order is the same selection.          *)
LEMMA NoneBetween ==
  ASSUME NEW T, NEW U, NEW r \in Seq(T), NEW q \in Seq(U), NEW list, NEW list2, NEW kept \in SUBSET Nat, NEW h, NEW g,
         Selects(h, r, list, kept), Selects(g, q, list2, kept), NEW n \in 1 .. Len(r), n <= Len(q),
         \A m \in 1 .. Len(r) : m < n => h[m] = g[m]
  PROVE  g[n] <= h[n]
<1>a. n \in 1 .. Len(q)
  OBVIOUS
<1>b. h[n] \in kept /\ g[n] \in kept
  BY <1>a DEF Selects
<1>1. /\ h[n] \in kept /\ g[n] \in kept /\ h[n] \in Nat /\ g[n] \in Nat /\ n \in 1 .. Len(q)
  BY <1>a, <1>b
<1>2. PICK b \in 1 .. Len(q) : g[b] = h[n]
  BY <1>1 DEF Selects
<1>3. CASE b < n
  <2>1. b \in 1 .. Len(r) /\ h[b] = g[b]
    BY <1>3
  <2>2. h[b] < h[n]
    BY <1>3, <2>1 DEF Selects
  <2> QED
    BY <1>1, <1>2, <2>1, <2>2
<1>4. CASE b = n
  BY <1>1, <1>2, <1>4
<1>5. CASE n < b
  <2>1. g[n] < g[b]
    BY <1>1, <1>5 DEF Selects
  <2> QED
    BY <1>1, <1>2, <2>1
<1> QED
  BY <1>3, <1>4, <1>5

LEMMA SamePlace ==
  ASSUME NEW T, NEW U, NEW r \in Seq(T), NEW q \in Seq(U), NEW list, NEW list2, NEW kept \in SUBSET Nat, NEW h, NEW g,
         Selects(h, r, list, kept), Selects(g, q, list2, kept), Len(r) <= Len(q)
  PROVE  \A a \in 1 .. Len(r) : h[a] = g[a]
<1> DEFINE S == {a \in 1 .. Len(r) : h[a] # g[a]}
<1>1. SUFFICES ASSUME S # {} PROVE FALSE
  OBVIOUS
<1>2. S \in SUBSET Nat
  OBVIOUS
<1>3. PICK n \in S : \A m \in S : n <= m
  BY <1>1, <1>2, LeastNatural
<1>4. n \in 1 .. Len(r) /\ h[n] # g[n] /\ n \in 1 .. Len(q)
  BY <1>3
<1>5. \A m \in 1 .. Len(r) : m < n => h[m] = g[m]
  <2> SUFFICES ASSUME NEW m \in 1 .. Len(r), m < n, m \in S PROVE FALSE
    OBVIOUS
  <2> HIDE DEF S
  <2> QED
    BY <1>3, <1>4
<1> HIDE DEF S
<1>6. \A m \in 1 .. Len(q) : m < n => g[m] = h[m]
  <2> SUFFICES ASSUME NEW m \in 1 .. Len(q), m < n PROVE g[m] = h[m]
    OBVIOUS
  <2>1. m \in 1 .. Len(r)
    BY <1>4
  <2> QED
    BY <1>5, <2>1
<1>7. g[n] <= h[n]
  BY <1>4, <1>5, NoneBetween
<1>8. h[n] <= g[n]
  BY <1>4, <1>6, NoneBetween
<1>9. h[n] \in Nat /\ g[n] \in Nat
  BY <1>4 DEF Selects
<1> QED
  BY <1>4, <1>7, <1>8, <1>9

LEMMA NotShorter ==
  ASSUME NEW T, NEW U, NEW r \in Seq(T), NEW q \in Seq(U), NEW list, NEW list2, NEW kept \in SUBSET Nat, NEW h, NEW g,
         Selects(h, r, list, kept), Selects(g, q, list2, kept), Len(r) <= Len(q)
  PROVE  Len(q) <= Len(r)
<1>1. SUFFICES ASSUME Len(r) < Len(q) PROVE FALSE
  OBVIOUS
<1> DEFINE b == Len(r) + 1
<1>2. b \in 1 .. Len(q)
  BY <1>1
<1> HIDE DEF b
<1>3. g[b] \in kept
  BY <1>2 DEF Selects
<1>4. PICK a \in 1 .. Len(r) : h[a] = g[b]
  BY <1>3 DEF Selects
<1>5. h[a] = g[a]
  BY SamePlace
<1>6. a < b /\ a \in 1 .. Len(q)
  BY <1>1 DEF b
<1>7. g[a] < g[b]
  BY <1>2, <1>6 DEF Selects
<1>8. g[b] \in Nat
  BY <1>3
<1> QED
  BY <1>4, <1>5, <1>7, <1>8

Matched(h, r, q, list, list2, kept) ==
    Len(r) = Len(q) /\ \A a \in 1 .. Len(r) : h[a] \in kept /\ r[a] = list[h[a]] /\ q[a] = list2[h[a]]

LEMMA SameSelection ==
  ASSUME NEW T, NEW U, NEW r \in Seq(T), NEW q \in Seq(U), NEW list, NEW list2, NEW kept \in SUBSET Nat, NEW h, NEW g,
         Selects(h, r, list, kept), Selects(g, q, list2, kept)
  PROVE  Matched(h, r, q, list, list2, kept)
<1>1. Len(r) \in Nat /\ Len(q) \in Nat
  OBVIOUS
<1>2. Len(r) = Len(q)
  <2>1. CASE Len(r) <= Len(q)
    <3>1. Len(q) <= Len(r)
      BY <2>1, NotShorter
    <3> QED
      BY <1>1, <2>1, <3>1
  <2>2. CASE Len(q) <= Len(r)
    <3>1. Len(r) <= Len(q)
      BY <2>2, NotShorter
    <3> QED
      BY <1>1, <2>2, <3>1
  <2> QED
    BY <1>1, <2>1, <2>2
<1>3. \A a \in 1 .. Len(r) : h[a] = g[a]
  BY <1>1, <1>2, SamePlace
<1> QED
  BY <1>2, <1>3 DEF Selects, Matched

(* A leaf and its split go: what was between them moves up and gains one.  *)
Skipped(j, k, e) == IF e < j THEN e ELSE IF e < k - 1 THEN e + 1 ELSE e + 2
IsWithout(r, n, j, k) == Len(r) = Len(n) - 2 /\ \A e \in 1 .. Len(r) : r[e] = n[Skipped(j, k, e)]

LEMMA BalanceWithout ==
  ASSUME NEW T, NEW n \in Seq(T), IsTree(n), NEW k \in 2 .. Len(n), IsLeaf(n[k]), NEW j, Above(n, k, j),
         NEW r \in Seq(T), IsWithout(r, n, j, k), NEW e \in 0 .. Len(r)
  PROVE  Balance(r, e) = IF e < j THEN Balance(n, e) ELSE IF e < k - 1 THEN Balance(n, e + 1) + 1 ELSE Balance(n, e + 2)
<1>1. j \in 1 .. k - 1 /\ ~IsLeaf(n[j]) /\ j \in 1 .. Len(n) /\ j - 1 \in Nat /\ j \in Nat /\ k - 2 \in Nat /\ k \in Nat /\ k - 1 \in Nat
  BY DEF Above
<1>2. Len(r) = Len(n) - 2 /\ Len(r) \in Nat /\ \A d \in 1 .. Len(r) : r[d] = n[Skipped(j, k, d)]
  BY DEF IsWithout
<1>3. Balance(n, j) = Balance(n, j - 1) - 1 /\ Balance(n, j) \in Int /\ Balance(n, j - 1) \in Int
  BY <1>1, SplitHasTwo, BalanceInt
<1>4. Balance(n, k) = Balance(n, k - 1) + 1 /\ Balance(n, k) \in Int /\ Balance(n, k - 1) \in Int
  <2>1. (k - 1) + 1 = k
    OBVIOUS
  <2>2. Balance(n, (k - 1) + 1) = Balance(n, k - 1) + Weight(n, (k - 1) + 1) /\ Balance(n, k - 1) \in Int
    BY <1>1, BalanceStep
  <2> QED
    BY <2>1, <2>2 DEF Weight
<1>5. ASSUME NEW d \in 0 .. j - 1 PROVE Balance(r, d) = Balance(n, d)
  <2>1. ASSUME NEW i \in 1 .. j - 1 PROVE r[i] = n[i]
    <3>1. i \in 1 .. Len(r) /\ i < j
      BY <1>1, <1>2
    <3>2. Skipped(j, k, i) = i
      BY <3>1 DEF Skipped
    <3> QED
      BY <1>2, <3>1, <3>2
  <2>2. j - 1 \in Nat /\ \A i \in 1 .. j - 1 : IsLeaf(r[i]) <=> IsLeaf(n[i])
    BY <1>1, <2>1
  <2> QED
    BY <2>2, SameBalance
<1>6. ASSUME NEW i \in 0 .. k - 1 - j PROVE Balance(r, (j - 1) + i) = Balance(n, j + i) + 1
  <2>1. k - 1 - j \in Nat
    BY <1>1
  <2>2. SameLeaves(r, j - 1, n, j, k - 1 - j)
    <3> SUFFICES ASSUME NEW d \in 1 .. k - 1 - j PROVE r[(j - 1) + d] = n[j + d]
      BY DEF SameLeaves
    <3>1. (j - 1) + d \in 1 .. Len(r) /\ Skipped(j, k, (j - 1) + d) = j + d
      BY <1>1, <1>2 DEF Skipped
    <3> QED
      BY <1>2, <3>1
  <2>3. Gains(r, j - 1, n, j, i)
    BY <1>1, <2>1, <2>2, SameGain
  <2>4. Balance(r, j - 1) = Balance(n, j - 1)
    BY <1>1, <1>5
  <2>5. (j - 1) + i \in Nat /\ j + i \in Nat
    BY <1>1
  <2>6. Balance(r, (j - 1) + i) \in Int /\ Balance(n, j + i) \in Int
    BY <2>5, BalanceInt
  <2> QED
    BY <1>3, <2>3, <2>4, <2>6 DEF Gains
<1>7. ASSUME NEW i \in 0 .. Len(n) - k PROVE Balance(r, (k - 2) + i) = Balance(n, k + i)
  <2>1. Len(n) - k \in Nat
    OBVIOUS
  <2>2. SameLeaves(r, k - 2, n, k, Len(n) - k)
    <3> SUFFICES ASSUME NEW d \in 1 .. Len(n) - k PROVE r[(k - 2) + d] = n[k + d]
      BY DEF SameLeaves
    <3>1. (k - 2) + d \in 1 .. Len(r) /\ Skipped(j, k, (k - 2) + d) = k + d
      BY <1>1, <1>2 DEF Skipped
    <3> QED
      BY <1>2, <3>1
  <2>3. Gains(r, k - 2, n, k, i)
    BY <1>1, <2>1, <2>2, SameGain
  <2>4. Balance(r, k - 2) = Balance(n, k)
    <3>1. k - 1 - j \in 0 .. k - 1 - j /\ (j - 1) + (k - 1 - j) = k - 2 /\ j + (k - 1 - j) = k - 1
      BY <1>1
    <3>2. Balance(r, (j - 1) + (k - 1 - j)) = Balance(n, j + (k - 1 - j)) + 1
      BY <1>6, <3>1
    <3> QED
      BY <1>4, <3>1, <3>2
  <2>5. (k - 2) + i \in Nat /\ k + i \in Nat
    BY <1>1
  <2>6. Balance(r, (k - 2) + i) \in Int /\ Balance(n, k + i) \in Int
    BY <2>5, BalanceInt
  <2>7. Balance(r, (k - 2) + i) - Balance(r, k - 2) = Balance(n, k + i) - Balance(n, k)
    BY <2>3 DEF Gains
  <2>8. Balance(r, (k - 2) + i) - Balance(n, k) = Balance(n, k + i) - Balance(n, k)
    BY <2>4, <2>7, Zenon
  <2> QED
    BY <1>4, <2>6, <2>8
<1>8. CASE e < j
  BY <1>1, <1>5, <1>8
<1>9. CASE ~(e < j) /\ e < k - 1
  <2>1. e - (j - 1) \in 0 .. k - 1 - j /\ (j - 1) + (e - (j - 1)) = e /\ j + (e - (j - 1)) = e + 1
    BY <1>1, <1>9
  <2>2. Balance(r, (j - 1) + (e - (j - 1))) = Balance(n, j + (e - (j - 1))) + 1
    BY <1>6, <2>1
  <2> QED
    BY <1>9, <2>1, <2>2
<1>10. CASE ~(e < j) /\ ~(e < k - 1)
  <2>1. e - (k - 2) \in 0 .. Len(n) - k /\ (k - 2) + (e - (k - 2)) = e /\ k + (e - (k - 2)) = e + 2
    BY <1>1, <1>2, <1>10
  <2>2. Balance(r, (k - 2) + (e - (k - 2))) = Balance(n, k + (e - (k - 2)))
    BY <1>7, <2>1
  <2> QED
    BY <1>10, <2>1, <2>2
<1> QED
  BY <1>8, <1>9, <1>10

LEMMA WithoutTree ==
  ASSUME NEW T, NEW n \in Seq(T), IsTree(n), NEW k \in 2 .. Len(n), IsLeaf(n[k]), NEW j, Above(n, k, j),
         NEW r \in Seq(T), IsWithout(r, n, j, k)
  PROVE  IsTree(r)
<1>1. /\ j \in 1 .. k - 1 /\ ~IsLeaf(n[j]) /\ j \in 1 .. Len(n) /\ j \in Nat /\ j + 1 \in Nat /\ j - 1 \in Nat
      /\ k \in 1 .. Len(n) /\ k \in Nat /\ k - 1 \in Nat /\ (k = j + 1 \/ k = End(n, j + 1) + 1)
  BY DEF Above
<1>2. Len(r) = Len(n) - 2 /\ Len(r) \in Nat
  BY DEF IsWithout
<1>3. /\ j + 1 \in 1 .. Len(n) /\ End(n, j + 1) \in j + 1 .. Len(n) - 1 /\ (j + 1) - 1 = j
      /\ Balance(n, j) = Balance(n, j - 1) - 1
  BY <1>1, SplitHasTwo
<1>4. Balance(n, Len(n)) = 1 /\ \A d \in 0 .. Len(n) - 1 : Balance(n, d) <= 0
  <2>1. Balance(n, Len(n)) = 1
    BY <1>1, TreeBalance
  <2>2. ASSUME NEW d \in 0 .. Len(n) - 1 PROVE Balance(n, d) <= 0
    <3>1. d + 1 \in 1 .. Len(n) /\ (d + 1) - 1 = d
      OBVIOUS
    <3>2. Balance(n, (d + 1) - 1) <= 0
      BY <3>1, TreeBalance
    <3> QED
      BY <3>1, <3>2
  <2> QED
    BY <2>1, <2>2
<1>5. /\ Balance(n, (k - 1) + 1) = Balance(n, k - 1) + Weight(n, (k - 1) + 1)
      /\ Balance(n, k - 1) \in Int /\ Balance(n, j) \in Int /\ Balance(n, j - 1) \in Int
  BY <1>1, BalanceStep, BalanceInt
<1>6. Balance(n, k) = Balance(n, k - 1) + 1
  <2>1. (k - 1) + 1 = k
    BY <1>1
  <2> QED
    BY <1>5, <2>1 DEF Weight
<1>7. \A e \in 0 .. Len(r) :
         Balance(r, e) = IF e < j THEN Balance(n, e) ELSE IF e < k - 1 THEN Balance(n, e + 1) + 1 ELSE Balance(n, e + 2)
  BY BalanceWithout
<1>8. SUFFICES ASSUME r # Nil PROVE Balance(r, Len(r)) = 1 /\ \A e \in 1 .. Len(r) - 1 : Balance(r, e) <= 0
  BY DEF IsTree
<1>9. Balance(r, Len(r)) = 1
  <2>1. Len(r) + 2 = Len(n) /\ Len(r) + 1 = Len(n) - 1 /\ Len(r) \in 0 .. Len(r)
    BY <1>2
  <2>2. CASE Len(r) < j
    <3>1. Len(n) = j + 1
      BY <1>1, <1>2, <1>3, <2>2
    <3> QED
      BY <1>3, <3>1
  <2>3. CASE ~(Len(r) < j) /\ Len(r) < k - 1
    <3>1. Len(n) = k
      BY <1>1, <1>2, <2>3
    <3>2. Balance(r, Len(r)) = Balance(n, Len(r) + 1) + 1
      BY <1>7, <2>1, <2>3
    <3> QED
      BY <1>4, <1>6, <2>1, <3>1, <3>2
  <2>4. CASE ~(Len(r) < j) /\ ~(Len(r) < k - 1)
    <3>1. Balance(r, Len(r)) = Balance(n, Len(r) + 2)
      BY <1>7, <2>1, <2>4
    <3> QED
      BY <1>4, <2>1, <3>1
  <2> QED
    BY <2>2, <2>3, <2>4
<1>10. ASSUME NEW e \in 1 .. Len(r) - 1 PROVE Balance(r, e) <= 0
  <2>0. e \in 0 .. Len(r) /\ e + 1 \in Nat
    BY <1>2
  <2>1. CASE e < j
    <3>1. Balance(r, e) = Balance(n, e) /\ e \in 0 .. Len(n) - 1
      BY <1>2, <1>7, <2>0, <2>1
    <3> QED
      BY <1>4, <3>1
  <2>2. CASE ~(e < j) /\ e < k - 1
    <3>1. Balance(r, e) = Balance(n, e + 1) + 1
      BY <1>7, <2>0, <2>2
    <3>2. k = End(n, j + 1) + 1
      BY <1>1, <2>2
    <3>3. CASE e + 1 = k - 1
      <4>1. k \in 0 .. Len(n) - 1
        BY <1>1, <1>2, <3>3
      <4>2. Balance(n, k) <= 0
        BY <1>4, <4>1
      <4> QED
        BY <1>6, <3>1, <3>3, <4>2
    <3>4. CASE e + 1 # k - 1
      <4>1. e + 1 \in j + 1 .. End(n, j + 1) - 1
        <5>1. End(n, j + 1) \in Int /\ e \in Int /\ j \in Int /\ k \in Int
          BY <1>1, <1>3
        <5>2. e >= j /\ e < k - 1 /\ e + 1 # k - 1
          BY <2>2, <3>4, <5>1
        <5> QED
          BY <3>2, <5>1, <5>2
      <4>2. Balance(n, e + 1) <= Balance(n, (j + 1) - 1)
        BY <1>3, <4>1, EndOf
      <4>3. Balance(n, j - 1) <= 0
        BY <1>1, TreeBalance
      <4>4. Balance(n, e + 1) \in Int
        BY <2>0, BalanceInt
      <4>5. Balance(n, e + 1) <= Balance(n, j)
        <5>1. (j + 1) - 1 = j
          BY <1>1
        <5> QED
          BY <4>2, <5>1, Zenon
      <4>6. Balance(n, j) = Balance(n, j - 1) - 1 /\ Balance(n, j - 1) \in Int /\ Balance(n, j) \in Int
        BY <1>3, <1>5
      <4>7. Balance(n, e + 1) + 1 <= 0
        BY <4>3, <4>4, <4>5, <4>6
      <4> QED
        BY <3>1, <4>7
    <3> QED
      BY <3>3, <3>4
  <2>3. CASE ~(e < j) /\ ~(e < k - 1)
    <3>1. Balance(r, e) = Balance(n, e + 2) /\ e + 2 \in 0 .. Len(n) - 1
      BY <1>2, <1>7, <2>0, <2>3
    <3> QED
      BY <1>4, <3>1
  <2> QED
    BY <2>1, <2>2, <2>3
<1> QED
  BY <1>9, <1>10

(* A tree whose first node is a leaf has no other.                         *)
LEMMA LoneLeaf ==
  ASSUME NEW T, NEW n \in Seq(T), IsTree(n), n # <<>>, IsLeaf(n[1])
  PROVE  Len(n) = 1
<1>1. 1 \in 1 .. Len(n) /\ Len(n) \in 1 .. Len(n) /\ 1 - 1 = 0
  OBVIOUS
<1>2. Balance(n, Len(n)) = 1 /\ \A e \in 1 .. Len(n) - 1 : Balance(n, e) <= 0
  BY DEF IsTree, Nil
<1>3. Balance(n, 0) = 0
  BY BalanceStep
<1>4. IsEnd(n, 1, Len(n))
  BY <1>1, <1>2, <1>3 DEF IsEnd
<1>5. End(n, 1) = Len(n) /\ End(n, 1) = 1
  BY <1>1, <1>4, EndIs, EndOfLeaf
<1> QED
  BY <1>5

(* What removeAt keeps of a tree, which is all but the leaf and its split.  *)
LEMMA SelectedTree ==
  ASSUME NEW T, NEW n \in Seq(T), IsTree(n), NEW k \in 2 .. Len(n), IsLeaf(n[k]), NEW kept,
         kept = 1 .. Len(n) \ (Parents(n, k) \cup {k}),
         NEW r \in Seq(T), NEW h, Selects(h, r, n, kept)
  PROVE  IsTree(r)
<1>1. PICK j \in 1 .. k - 1 : Parents(n, k) = {j} /\ Above(n, k, j)
  BY OneParent
<1>2. kept = 1 .. Len(n) \ {j, k} /\ kept \in SUBSET Nat
  BY <1>1
<1>3. ~IsLeaf(n[j]) /\ j \in 1 .. Len(n) /\ j \in Nat /\ k \in Nat
  BY <1>1 DEF Above
<1>4. Len(n) - 2 \in Nat
  OBVIOUS
<1> DEFINE g == [e \in 1 .. Len(n) - 2 |-> Skipped(j, k, e)]
           q == [e \in 1 .. Len(n) - 2 |-> n[Skipped(j, k, e)]]
<1>5. \A e \in 1 .. Len(n) - 2 : Skipped(j, k, e) \in kept
  BY <1>2, <1>3, <1>1 DEF Skipped
<1>6. \A e \in 1 .. Len(n) - 2 : Skipped(j, k, e) \in 1 .. Len(n) /\ n[Skipped(j, k, e)] \in T
  BY <1>2, <1>5
<1>7. q \in Seq(T) /\ Len(q) = Len(n) - 2 /\ \A e \in 1 .. Len(q) : q[e] = n[Skipped(j, k, e)]
  BY <1>4, <1>6
<1>8. Selects(g, q, n, kept)
  <2>1. g \in [1 .. Len(q) -> kept]
    BY <1>5, <1>7
  <2>2. \A a, b \in 1 .. Len(q) : a < b => g[a] < g[b]
    BY <1>3, <1>7 DEF Skipped
  <2>3. \A a \in 1 .. Len(q) : q[a] = n[g[a]]
    BY <1>7
  <2>4. ASSUME NEW i \in kept PROVE \E a \in 1 .. Len(q) : g[a] = i
    <3>1. i \in 1 .. Len(n) /\ i # j /\ i # k
      BY <1>2
    <3>2. CASE i < j
      <4>1. i \in 1 .. Len(n) - 2 /\ Skipped(j, k, i) = i
        BY <1>1, <3>1, <3>2 DEF Skipped
      <4> QED
        BY <1>7, <4>1
    <3>3. CASE j < i /\ i < k
      <4>1. i - 1 \in 1 .. Len(n) - 2 /\ Skipped(j, k, i - 1) = i
        BY <1>1, <3>1, <3>3 DEF Skipped
      <4> QED
        BY <1>7, <4>1
    <3>4. CASE k < i
      <4>1. i - 2 \in 1 .. Len(n) - 2 /\ Skipped(j, k, i - 2) = i
        BY <1>1, <3>1, <3>4 DEF Skipped
      <4> QED
        BY <1>7, <4>1
    <3>5. i < j \/ (j < i /\ i < k) \/ k < i
      BY <1>3, <3>1
    <3> QED
      BY <3>2, <3>3, <3>4, <3>5
  <2> HIDE DEF g, q
  <2> QED
    BY <2>1, <2>2, <2>3, <2>4 DEF Selects
<1> HIDE DEF g, q
<1>9. Matched(h, r, q, n, n, kept)
  BY <1>2, <1>7, <1>8, SameSelection
<1>a. Len(r) = Len(q) /\ \A a \in 1 .. Len(r) : r[a] = q[a]
  BY <1>9 DEF Matched
<1>10. IsWithout(r, n, j, k)
  BY <1>7, <1>a DEF IsWithout
<1> QED
  BY <1>1, <1>10, WithoutTree

LEMMA SelectedAll ==
  ASSUME NEW T, NEW n \in Seq(T), NEW r \in Seq(T), NEW h, Selects(h, r, n, 1 .. Len(n))
  PROVE  Len(r) = Len(n) /\ \A a \in 1 .. Len(n) : r[a] = n[a]
<1> DEFINE g == [e \in 1 .. Len(n) |-> e]
           kept == 1 .. Len(n)
<1>1. Selects(g, n, n, kept)
  BY DEF Selects
<1> HIDE DEF g
<1>2. kept \in SUBSET Nat /\ Selects(h, r, n, kept)
  OBVIOUS
<1> HIDE DEF kept
<1>3. Matched(h, r, n, n, n, kept)
  BY <1>1, <1>2, SameSelection
<1> QED
  BY <1>3 DEF Matched

LEMMA RemovedTree ==
  ASSUME NEW T, NEW n \in Seq(T), IsTree(n), NEW k \in 0 .. Len(n), k # 0 => IsLeaf(n[k]), NEW kept,
         kept = 1 .. Len(n) \ (Parents(n, k) \cup {k}),
         NEW r \in Seq(T), NEW h, Selects(h, r, n, kept)
  PROVE  IsTree(r)
<1>1. CASE k = 0
  <2>1. Parents(n, k) = {}
    BY <1>1 DEF Parents
  <2>2. kept = 1 .. Len(n)
    BY <1>1, <2>1
  <2>a. Selects(h, r, n, 1 .. Len(n))
    BY <2>2
  <2>3. Len(r) = Len(n) /\ \A a \in 1 .. Len(n) : r[a] = n[a]
    BY <2>a, SelectedAll
  <2> QED
    BY <2>3, SameTree
<1>2. CASE k = 1
  <2>1. Len(n) = 1
    BY <1>2, LoneLeaf
  <2>2. kept = {}
    BY <1>2, <2>1
  <2>3. h \in [1 .. Len(r) -> {}]
    BY <2>2 DEF Selects
  <2>4. r = Nil
    <3>1. Len(r) \in Nat /\ ~(1 \in 1 .. Len(r))
      BY <2>3
    <3>2. Len(r) = 0
      BY <3>1
    <3> QED
      BY <3>2, EmptySeq DEF Nil
  <2> QED
    BY <2>4 DEF IsTree
<1>3. CASE k \in 2 .. Len(n)
  BY <1>3, SelectedTree
<1> QED
  BY <1>1, <1>2, <1>3

(* One leaf becomes a split and two leaves.                                *)
SplitOff(m, n, k) ==
    /\ Len(m) = Len(n) + 2 /\ ~IsLeaf(m[k]) /\ IsLeaf(m[k + 1]) /\ IsLeaf(m[k + 2])
    /\ \A i \in 1 .. k - 1 : m[i] = n[i]
    /\ \A i \in 1 .. Len(n) - k : m[(k + 2) + i] = n[k + i]

LEMMA SplitOffTree ==
  ASSUME NEW T, NEW n \in Seq(T), IsTree(n), NEW k \in 1 .. Len(n), IsLeaf(n[k]), NEW m \in Seq(T), SplitOff(m, n, k)
  PROVE  IsTree(m)
<1>1. /\ Len(m) = Len(n) + 2 /\ ~IsLeaf(m[k]) /\ IsLeaf(m[k + 1]) /\ IsLeaf(m[k + 2])
      /\ \A i \in 1 .. k - 1 : m[i] = n[i]
      /\ \A i \in 1 .. Len(n) - k : m[(k + 2) + i] = n[k + i]
  BY DEF SplitOff
<1>2. /\ k - 1 \in Nat /\ k \in Nat /\ k + 1 \in Nat /\ k + 2 \in Nat /\ (k - 1) + 1 = k /\ (k + 1) + 1 = k + 2
      /\ Len(n) - k \in Nat /\ Len(n) \in 1 .. Len(n)
  OBVIOUS
<1>3. /\ Balance(m, (k - 1) + 1) = Balance(m, k - 1) + Weight(m, (k - 1) + 1)
      /\ Balance(m, k + 1) = Balance(m, k) + Weight(m, k + 1)
      /\ Balance(m, (k + 1) + 1) = Balance(m, k + 1) + Weight(m, (k + 1) + 1)
      /\ Balance(n, (k - 1) + 1) = Balance(n, k - 1) + Weight(n, (k - 1) + 1)
      /\ Balance(m, k - 1) \in Int /\ Balance(n, k - 1) \in Int
  BY <1>2, BalanceStep
<1>4. ASSUME NEW e \in 0 .. k - 1 PROVE Balance(m, e) = Balance(n, e)
  <2>1. k - 1 \in Nat /\ \A i \in 1 .. k - 1 : IsLeaf(m[i]) <=> IsLeaf(n[i])
    BY <1>1, <1>2
  <2> QED
    BY <2>1, SameBalance
<1>5. Balance(m, k - 1) = Balance(n, k - 1)
  <2>1. k - 1 \in 0 .. k - 1
    BY <1>2
  <2> QED
    BY <1>4, <2>1
<1>6. /\ Balance(m, k) = Balance(n, k - 1) - 1
      /\ Balance(m, k + 1) = Balance(n, k - 1)
      /\ Balance(m, k + 2) = Balance(n, k)
  BY <1>1, <1>2, <1>3, <1>5 DEF Weight
<1>7. SameLeaves(m, k + 2, n, k, Len(n) - k)
  BY <1>1 DEF SameLeaves
<1>8. ASSUME NEW i \in 0 .. Len(n) - k PROVE Balance(m, (k + 2) + i) = Balance(n, k + i)
  <2>1. Gains(m, k + 2, n, k, i)
    BY <1>2, <1>7, SameGain
  <2>2. (k + 2) + i \in Nat /\ k + i \in Nat
    BY <1>2
  <2>3. Balance(m, (k + 2) + i) \in Int /\ Balance(n, k + i) \in Int /\ Balance(n, k) \in Int
    BY <1>2, <2>2, BalanceInt
  <2> QED
    BY <1>6, <2>1, <2>3 DEF Gains
<1>9. Balance(n, Len(n)) = 1 /\ \A d \in 0 .. Len(n) - 1 : Balance(n, d) <= 0
  <2>1. Balance(n, Len(n)) = 1
    BY TreeBalance
  <2>2. ASSUME NEW d \in 0 .. Len(n) - 1 PROVE Balance(n, d) <= 0
    <3>1. d + 1 \in 1 .. Len(n) /\ (d + 1) - 1 = d
      OBVIOUS
    <3>2. Balance(n, (d + 1) - 1) <= 0
      BY <3>1, TreeBalance
    <3> QED
      BY <3>1, <3>2
  <2> QED
    BY <2>1, <2>2
<1>10. Balance(m, Len(m)) = 1
  <2>1. Len(n) - k \in 0 .. Len(n) - k /\ (k + 2) + (Len(n) - k) = Len(m) /\ k + (Len(n) - k) = Len(n)
    BY <1>1, <1>2
  <2>2. Balance(m, (k + 2) + (Len(n) - k)) = Balance(n, k + (Len(n) - k))
    BY <1>8, <2>1
  <2> QED
    BY <1>9, <2>1, <2>2
<1>11. ASSUME NEW e \in 1 .. Len(m) - 1 PROVE Balance(m, e) <= 0
  <2>1. CASE e < k
    <3>1. e \in 0 .. k - 1 /\ e \in 0 .. Len(n) - 1
      BY <2>1
    <3> QED
      BY <1>4, <1>9, <3>1
  <2>2. CASE e = k \/ e = k + 1
    <3>1. k - 1 \in 0 .. Len(n) - 1
      OBVIOUS
    <3>2. Balance(n, k - 1) <= 0
      BY <1>9, <3>1
    <3> QED
      BY <1>3, <1>6, <2>2, <3>2
  <2>3. CASE e >= k + 2
    <3>1. e - (k + 2) \in 0 .. Len(n) - k /\ (k + 2) + (e - (k + 2)) = e /\ k + (e - (k + 2)) \in 0 .. Len(n) - 1
      BY <1>1, <2>3
    <3>2. Balance(m, (k + 2) + (e - (k + 2))) = Balance(n, k + (e - (k + 2)))
      BY <1>8, <3>1
    <3> QED
      BY <1>9, <3>1, <3>2
  <2> QED
    BY <2>1, <2>2, <2>3
<1> QED
  BY <1>10, <1>11 DEF IsTree

(* As many splits as it takes, and then the leaves.                        *)
Run(c, e) == IF e < c THEN -e ELSE e - 2 * c + 2

LEMMA RunTree ==
  ASSUME NEW T, NEW m \in Seq(T), NEW c \in Nat, c # 0 => Len(m) = 2 * c - 1, c = 0 => Len(m) = 0,
         \A i \in 1 .. Len(m) : IsLeaf(m[i]) <=> i >= c
  PROVE  IsTree(m)
<1> SUFFICES ASSUME m # Nil PROVE Balance(m, Len(m)) = 1 /\ \A e \in 1 .. Len(m) - 1 : Balance(m, e) <= 0
  BY DEF IsTree
<1>1. Len(m) # 0
  BY EmptySeq DEF Nil
<1>2. c # 0 /\ Len(m) = 2 * c - 1
  BY <1>1
<1> DEFINE S == {e \in 0 .. Len(m) : Balance(m, e) # Run(c, e)}
<1>3. S = {}
  <2> SUFFICES ASSUME S # {} PROVE FALSE
    OBVIOUS
  <2>1. S \in SUBSET Nat
    OBVIOUS
  <2>2. PICK e \in S : \A d \in S : e <= d
    BY <2>1, LeastNatural
  <2>3. e \in 0 .. Len(m) /\ Balance(m, e) # Run(c, e) /\ \A d \in 0 .. Len(m) : Balance(m, d) = Run(c, d) \/ e <= d
    BY <2>2
  <2> HIDE DEF S
  <2>4. e # 0
    BY <1>2, <2>3, BalanceStep DEF Run
  <2>5. e - 1 \in 0 .. Len(m) /\ e - 1 \in Nat /\ e \in 1 .. Len(m) /\ (e - 1) + 1 = e
    BY <2>3, <2>4
  <2>6. Balance(m, e - 1) = Run(c, e - 1)
    BY <2>3, <2>5
  <2>7. Balance(m, (e - 1) + 1) = Balance(m, e - 1) + Weight(m, (e - 1) + 1)
    BY <2>5, BalanceStep
  <2>8. Weight(m, e) = IF e >= c THEN 1 ELSE -1
    BY <2>5 DEF Weight
  <2>9. Balance(m, e) = Run(c, e - 1) + (IF e >= c THEN 1 ELSE -1)
    BY <2>5, <2>6, <2>7, <2>8
  <2>10. Run(c, e) = Run(c, e - 1) + (IF e >= c THEN 1 ELSE -1)
    BY <1>2, <2>5 DEF Run
  <2> QED
    BY <2>3, <2>9, <2>10
<1>4. \A e \in 0 .. Len(m) : Balance(m, e) = Run(c, e)
  BY <1>3
<1>5. Len(m) \in 0 .. Len(m) /\ \A e \in 1 .. Len(m) - 1 : e \in 0 .. Len(m)
  OBVIOUS
<1>6. Run(c, Len(m)) = 1 /\ \A e \in 1 .. Len(m) - 1 : Run(c, e) <= 0
  BY <1>2 DEF Run
<1> QED
  BY <1>4, <1>5, <1>6

-----------------------------------------------------------------------------
(* The trees: what a tree shows.                                           *)
Node == [pane : {None}, vertical : BOOLEAN, ratio : 1 .. 9] \cup {LeafNode(p) : p \in Panes}
SavedNode == [pane : Nat \cup {None}, vertical : BOOLEAN, ratio : Int]

ShowsOnce(n) == \A i, k \in 1 .. Len(n) : n[i].pane # None /\ n[i].pane = n[k].pane => i = k

Shows(n, P) ==
    /\ n \in Seq(Node)
    /\ PanesIn(n) = P
    /\ ShowsOnce(n)
    /\ IsTree(n)

LEMMA NodeIs ==
  ASSUME NEW x \in Node
  PROVE  /\ x.pane \in Panes \cup {None}
         /\ x.pane # None => x.pane \in Panes /\ x = LeafNode(x.pane)
         /\ x.pane = None => x.vertical \in BOOLEAN /\ x.ratio \in 1 .. 9 /\ x = SplitNode(x.vertical, x.ratio)
  BY WorkspacesAssumption DEF Node, LeafNode, SplitNode

LEMMA LeavesOf == ASSUME NEW T, NEW n \in Seq(T) PROVE Leaves(n) = {k \in 1 .. Len(n) : n[k].pane # None}
  BY DEF Leaves, IsLeaf

LEMMA ShownOf ==
  ASSUME NEW T, NEW n \in Seq(T), NEW p
  PROVE  p \in PanesIn(n) <=> p # None /\ \E k \in 1 .. Len(n) : n[k].pane = p
  BY LeavesOf DEF PanesIn

(* Both follow from what the panes of the nodes are.                       *)
LEMMA ShowsComplete ==
  ASSUME NEW n, NEW list, Shows(n, ToSet(list)), IsInjective(list)
  PROVE  LayoutComplete(n, list)
<1>1. Leaves(n) = {k \in 1 .. Len(n) : n[k].pane # None}
  BY LeavesOf DEF Shows
<1> QED
  BY <1>1 DEF Shows, ShowsOnce, LayoutComplete

LEMMA CompleteShows ==
  ASSUME NEW n \in Seq(Node), NEW list, LayoutComplete(n, list), IsTree(n)
  PROVE  Shows(n, ToSet(list))
<1>1. Leaves(n) = {k \in 1 .. Len(n) : n[k].pane # None}
  BY LeavesOf
<1> QED
  BY <1>1 DEF Shows, ShowsOnce, LayoutComplete

LEMMA ShowsNil == Shows(Nil, {})
<1>1. Nil \in Seq(Node) /\ Len(Nil) = 0
  BY DEF Nil
<1>2. Leaves(Nil) = {}
  <2>1. Leaves(Nil) = {k \in 1 .. Len(Nil) : Nil[k].pane # None}
    BY <1>1, LeavesOf
  <2> QED
    BY <1>1, <2>1
<1> QED
  BY <1>1, <1>2 DEF Shows, ShowsOnce, PanesIn, IsTree

LEMMA Nodes ==
  /\ \A p \in Panes : LeafNode(p) \in Node /\ LeafNode(p).pane = p
  /\ \A k \in Nat : LeafNode(k) \in SavedNode /\ LeafNode(k).pane = k
  /\ \A v \in BOOLEAN, r \in 1 .. 9 : SplitNode(v, r) \in Node /\ SplitNode(v, r).pane = None
  /\ None \notin Panes /\ None \notin Nat
<1>1. \A p \in Panes : LeafNode(p) \in Node /\ LeafNode(p).pane = p
  BY DEF Node, LeafNode
<1>2. \A k \in Nat : LeafNode(k) \in SavedNode /\ LeafNode(k).pane = k
  BY DEF SavedNode, LeafNode
<1>3. ASSUME NEW v \in BOOLEAN, NEW r \in 1 .. 9 PROVE SplitNode(v, r) \in Node /\ SplitNode(v, r).pane = None
  <2>1. SplitNode(v, r) \in [pane : {None}, vertical : BOOLEAN, ratio : 1 .. 9]
    BY DEF SplitNode
  <2> QED
    BY <2>1 DEF Node, SplitNode
<1> QED
  BY <1>1, <1>2, <1>3, WorkspacesAssumption

LEMMA ShowsLeaf == ASSUME NEW p \in Panes PROVE Shows(Leaf(p), {p})
<1>1. LeafNode(p) \in Node /\ LeafNode(p).pane = p /\ p # None
  BY Nodes
<1>2. Leaf(p) \in Seq(Node) /\ Len(Leaf(p)) = 1 /\ Leaf(p)[1].pane = p
  BY <1>1 DEF Leaf
<1>3. \A q : q \in PanesIn(Leaf(p)) <=> q # None /\ \E k \in 1 .. Len(Leaf(p)) : Leaf(p)[k].pane = q
  BY <1>2, ShownOf
<1>4. PanesIn(Leaf(p)) = {p}
  BY <1>1, <1>2, <1>3
<1>5. ShowsOnce(Leaf(p))
  BY <1>2 DEF ShowsOnce
<1>6. IsTree(Leaf(p))
  <2>1. \A i \in 1 .. Len(Leaf(p)) : IsLeaf(Leaf(p)[i]) <=> i >= 1
    BY <1>1, <1>2 DEF IsLeaf
  <2>2. 1 \in Nat /\ Len(Leaf(p)) = 2 * 1 - 1
    BY <1>2
  <2> QED
    BY <1>2, <2>1, <2>2, RunTree
<1> QED
  BY <1>2, <1>4, <1>5, <1>6 DEF Shows

(* A tree whose nodes have the panes of another's, one by one.             *)
LEMMA SamePanes ==
  ASSUME NEW P, NEW n, Shows(n, P), NEW m \in Seq(Node), Len(m) = Len(n), \A k \in 1 .. Len(n) : m[k].pane = n[k].pane
  PROVE  Shows(m, P)
<1>1. n \in Seq(Node)
  BY DEF Shows
<1>2. \A p : p \in PanesIn(n) <=> p # None /\ \E k \in 1 .. Len(n) : n[k].pane = p
  BY <1>1, ShownOf
<1>3. \A p : p \in PanesIn(m) <=> p # None /\ \E k \in 1 .. Len(m) : m[k].pane = p
  BY ShownOf
<1>4. PanesIn(m) = PanesIn(n)
  <2>1. \A p : p \in PanesIn(m) <=> p \in PanesIn(n)
    BY <1>2, <1>3
  <2> QED
    BY <2>1, Zenon
<1>5. ShowsOnce(m)
  BY DEF Shows, ShowsOnce
<1>6. IsTree(m)
  <2>1. IsTree(n) /\ \A i \in 1 .. Len(n) : IsLeaf(m[i]) <=> IsLeaf(n[i])
    BY DEF Shows, IsLeaf
  <2> QED
    BY <1>1, <2>1, SameTree
<1> QED
  BY <1>4, <1>5, <1>6 DEF Shows

LEMMA EqualizedShows == ASSUME NEW P, NEW n, Shows(n, P) PROVE Shows(Equalized(n), P)
<1> DEFINE m == Equalized(n)
<1>1. n \in Seq(Node) /\ DOMAIN n = 1 .. Len(n) /\ \A k \in 1 .. Len(n) : n[k] \in Node
  BY DEF Shows
<1>2. m = [k \in 1 .. Len(n) |-> IF IsLeaf(n[k]) THEN n[k] ELSE [n[k] EXCEPT !.ratio = 5]]
  BY <1>1 DEF Equalized
<1>3. ASSUME NEW k \in 1 .. Len(n) PROVE m[k] \in Node /\ m[k].pane = n[k].pane
  <2>1. CASE n[k].pane # None
    BY <1>1, <1>2, <2>1 DEF IsLeaf
  <2>2. CASE n[k].pane = None
    <3>1. n[k].vertical \in BOOLEAN /\ n[k] = SplitNode(n[k].vertical, n[k].ratio)
      BY <1>1, <2>2, NodeIs
    <3>2. m[k] = [n[k] EXCEPT !.ratio = 5]
      BY <1>2, <2>2 DEF IsLeaf
    <3>3. m[k] = SplitNode(n[k].vertical, 5)
      BY <3>1, <3>2 DEF SplitNode
    <3> QED
      BY <2>2, <3>1, <3>3, Nodes
  <2> QED
    BY <2>1, <2>2
<1>4. m \in Seq(Node) /\ Len(m) = Len(n)
  BY <1>1, <1>2, <1>3
<1> HIDE DEF m
<1>5. Shows(m, P)
  BY <1>3, <1>4, SamePanes
<1> QED
  BY <1>5 DEF m

LEMMA DraggedShows ==
  ASSUME NEW P, NEW n, Shows(n, P), NEW r \in Ratios, NEW m \in Dragged(n, r)
  PROVE  Shows(m, P)
<1>1. n \in Seq(Node) /\ DOMAIN n = 1 .. Len(n) /\ \A k \in 1 .. Len(n) : n[k] \in Node
  BY DEF Shows
<1>2. PICK j \in 1 .. Len(n) : n[j].pane = None /\ m = [n EXCEPT ![j].ratio = r]
  <2>1. Leaves(n) = {k \in 1 .. Len(n) : n[k].pane # None}
    BY <1>1, LeavesOf
  <2> QED
    BY <1>1, <2>1 DEF Dragged
<1>3. r \in 1 .. 9
  BY WorkspacesAssumption
<1>4. ASSUME NEW k \in 1 .. Len(n) PROVE m[k] \in Node /\ m[k].pane = n[k].pane
  <2>1. CASE k # j
    BY <1>1, <1>2, <2>1
  <2>2. CASE k = j
    <3>1. n[j].vertical \in BOOLEAN /\ n[j] = SplitNode(n[j].vertical, n[j].ratio)
      BY <1>1, <1>2, NodeIs
    <3>2. m[j] = [n[j] EXCEPT !.ratio = r]
      BY <1>1, <1>2
    <3>3. m[j] = SplitNode(n[j].vertical, r)
      BY <3>1, <3>2 DEF SplitNode
    <3> QED
      BY <1>2, <1>3, <2>2, <3>1, <3>3, Nodes
  <2> QED
    BY <2>1, <2>2
<1>5. m \in Seq(Node) /\ Len(m) = Len(n)
  BY <1>1, <1>2, <1>4
<1> QED
  BY <1>4, <1>5, SamePanes
LEMMA NodeOfShown ==
  ASSUME NEW T, NEW n \in Seq(T), NEW p, p # None
  PROVE  /\ p \in PanesIn(n) => NodeOf(n, p) \in 1 .. Len(n) /\ n[NodeOf(n, p)].pane = p
         /\ p \notin PanesIn(n) => NodeOf(n, p) = 0
<1> DEFINE I == {i \in 1 .. Len(n) : n[i].pane = p}
<1>1. NodeOf(n, p) = IF I # {} THEN Min(I) ELSE 0
  BY DEF NodeOf, SelectInSeq
<1>2. p \in PanesIn(n) <=> I # {}
  BY ShownOf
<1>3. ASSUME I # {} PROVE Min(I) \in I
  <2>1. I \in SUBSET Nat
    OBVIOUS
  <2> HIDE DEF I
  <2>2. \E i \in I : \A j \in I : i <= j
    BY <1>3, <2>1, LeastNatural
  <2> QED
    BY <2>2 DEF Min
<1> QED
  BY <1>1, <1>2, <1>3

(* Some nodes of a tree, in order.                                         *)
LEMMA SelectedShows ==
  ASSUME NEW P, NEW n, Shows(n, P), NEW r \in Seq(Node), NEW kept \in SUBSET (1 .. Len(n)), NEW h,
         Selects(h, r, n, kept), NEW t,
         \A i \in 1 .. Len(n) : n[i].pane # None => (i \in kept <=> n[i].pane # t), IsTree(r)
  PROVE  Shows(r, P \ {t})
<1>1. n \in Seq(Node)
  BY DEF Shows
<1>2. \A p : p \in P <=> p # None /\ \E k \in 1 .. Len(n) : n[k].pane = p
  BY <1>1, ShownOf DEF Shows
<1>3. \A p : p \in PanesIn(r) <=> p # None /\ \E k \in 1 .. Len(r) : r[k].pane = p
  BY ShownOf
<1>4. \A a \in 1 .. Len(r) : h[a] \in kept /\ h[a] \in 1 .. Len(n) /\ r[a] = n[h[a]]
  BY DEF Selects
<1>5. ASSUME NEW p \in PanesIn(r) PROVE p \in P \ {t}
  <2>1. PICK a \in 1 .. Len(r) : p # None /\ r[a].pane = p
    BY <1>3
  <2> QED
    BY <1>2, <1>4, <2>1
<1>6. ASSUME NEW p \in P, p # t PROVE p \in PanesIn(r)
  <2>1. PICK k \in 1 .. Len(n) : p # None /\ n[k].pane = p
    BY <1>2
  <2>2. k \in kept
    BY <1>6, <2>1
  <2>3. PICK a \in 1 .. Len(r) : h[a] = k
    BY <2>2 DEF Selects
  <2>4. r[a].pane = p
    BY <1>4, <2>1, <2>3
  <2> QED
    BY <1>3, <2>1, <2>4
<1>7. Distinct(h, r)
  BY <1>1, SelectsSet
<1>8. ASSUME NEW a \in 1 .. Len(r), NEW b \in 1 .. Len(r), r[a].pane # None, r[a].pane = r[b].pane
      PROVE  a = b
  <2> DEFINE i == h[a]
             k == h[b]
  <2>2. i \in 1 .. Len(n) /\ k \in 1 .. Len(n) /\ n[i] = r[a] /\ n[k] = r[b]
    BY <1>4
  <2>3. ShowsOnce(n)
    BY DEF Shows
  <2> HIDE DEF i, k
  <2>4. n[i].pane # None /\ n[i].pane = n[k].pane
    BY <1>8, <2>2
  <2>1. i = k
    BY <2>2, <2>3, <2>4 DEF ShowsOnce
  <2> QED
    BY <1>7, <2>1 DEF Distinct, i, k
<1>9. PanesIn(r) = P \ {t}
  BY <1>5, <1>6
<1>10. ShowsOnce(r)
  BY <1>8 DEF ShowsOnce
<1> QED
  BY <1>9, <1>10 DEF Shows

LEMMA RemovedShows == ASSUME NEW P, NEW n, Shows(n, P), NEW t, t # None PROVE Shows(Removed(n, t), P \ {t})
<1> DEFINE k == NodeOf(n, t)
           gone == Parents(n, k) \cup {k}
           kept == 1 .. Len(n) \ gone
           q == [i \in 1 .. Len(n) |-> IF i \in kept THEN <<n[i]>> ELSE <<>>]
           r == FlattenSeq(q)
<1>1. n \in Seq(Node) /\ DOMAIN n = 1 .. Len(n)
  BY DEF Shows
<1>2. Removed(n, t) = r
  <2>1. [i \in DOMAIN n |-> IF i \in gone THEN <<>> ELSE <<n[i]>>] = q
    BY <1>1
  <2> QED
    BY <2>1 DEF Removed
<1>3. \A i \in 1 .. Len(n) : n[i].pane # None => i \notin Parents(n, k)
  BY DEF Parents, IsLeaf
<1>4. /\ t \in PanesIn(n) => k \in 1 .. Len(n) /\ n[k].pane = t
      /\ t \notin PanesIn(n) => k = 0
  BY <1>1, NodeOfShown
<1>5. ASSUME NEW i \in 1 .. Len(n), n[i].pane # None
      PROVE  i \in kept <=> n[i].pane # t
  <2>1. CASE t \in PanesIn(n)
    <3>1. n[i].pane = t => i = k
      BY <1>4, <1>5, <2>1 DEF Shows, ShowsOnce
    <3> QED
      BY <1>3, <1>4, <1>5, <2>1, <3>1
  <2>2. CASE t \notin PanesIn(n)
    <3>1. n[i].pane # t
      BY <1>1, <1>5, <2>2, ShownOf
    <3>2. i # k
      BY <1>4, <2>2
    <3> QED
      BY <1>3, <1>5, <3>1, <3>2
  <2> QED
    BY <2>1, <2>2
<1> HIDE DEF k
<1>a. k \in 0 .. Len(n) /\ (k # 0 => IsLeaf(n[k]))
  BY <1>1, <1>4 DEF IsLeaf
<1>b. kept = 1 .. Len(n) \ (Parents(n, k) \cup {k})
  OBVIOUS
<1>6. kept \in SUBSET (1 .. Len(n))
  OBVIOUS
<1> HIDE DEF gone, kept
<1>7. LET s == FlattenSeq([i \in 1 .. Len(n) |-> IF i \in kept THEN <<n[i]>> ELSE <<>>])
      IN  s \in Seq(Node) /\ \E h : Selects(h, s, n, kept)
  BY <1>1, <1>6, FlattenSelects
<1>8. r \in Seq(Node) /\ \E h : Selects(h, r, n, kept)
  BY <1>7
<1> HIDE DEF r, q
<1>9. PICK h : Selects(h, r, n, kept)
  BY <1>8
<1>c. IsTree(r)
  <2>1. IsTree(n)
    BY DEF Shows
  <2> QED
    BY <1>1, <1>8, <1>9, <1>a, <1>b, <2>1, RemovedTree
<1>10. Shows(r, P \ {t})
  BY <1>5, <1>6, <1>8, <1>9, <1>c, SelectedShows
<1> QED
  BY <1>2, <1>10

(* One node becomes three: a split, a leaf and another leaf.               *)
SplitAt(n, k, s, a, b) == SubSeq(n, 1, k - 1) \o <<s>> \o (<<a>> \o <<b>>) \o SubSeq(n, k + 1, Len(n))
IsSplitAt(m, n, k, s, a, b) ==
    \A i \in 1 .. Len(n) + 2 : m[i] = IF i < k THEN n[i] ELSE IF i = k THEN s ELSE IF i = k + 1 THEN a
                                      ELSE IF i = k + 2 THEN b ELSE n[i - 2]

LEMMA Three ==
  ASSUME NEW n \in Seq(Node), NEW k \in 1 .. Len(n), NEW s \in Node, NEW a \in Node, NEW b \in Node, NEW r,
         r = SplitAt(n, k, s, a, b)
  PROVE  r \in Seq(Node) /\ Len(r) = Len(n) + 2 /\ IsSplitAt(r, n, k, s, a, b)
<1> DEFINE x == SubSeq(n, 1, k - 1)
           y == SubSeq(n, k + 1, Len(n))
           u == x \o <<s>>
           v == <<a>> \o <<b>>
           w == u \o v
           m == w \o y
<1>1. x \in Seq(Node) /\ Len(x) = k - 1 /\ \A i \in 1 .. k - 1 : x[i] = n[i]
  OBVIOUS
<1>2. y \in Seq(Node) /\ Len(y) = Len(n) - k /\ \A i \in 1 .. Len(n) - k : y[i] = n[i + k]
  OBVIOUS
<1>3. v \in Seq(Node) /\ Len(v) = 2 /\ v[1] = a /\ v[2] = b
  OBVIOUS
<1> HIDE DEF x, y, v
<1>4. u \in Seq(Node) /\ Len(u) = k /\ u[k] = s /\ \A i \in 1 .. k - 1 : u[i] = x[i]
  BY <1>1
<1> HIDE DEF u
<1>a. u \in Seq(Node) /\ v \in Seq(Node) /\ Len(u) = k /\ Len(v) = 2
  BY <1>3, <1>4
<1>5. w \in Seq(Node) /\ Len(w) = k + 2
  <2>1. w \in Seq(Node) /\ Len(w) = Len(u) + Len(v)
    BY <1>a, ConcatProperties
  <2> QED
    BY <1>a, <2>1
<1>6. \A i \in 1 .. k + 2 : w[i] = IF i <= k THEN u[i] ELSE v[i - k]
  <2>1. \A i \in 1 .. Len(u) + Len(v) : w[i] = IF i <= Len(u) THEN u[i] ELSE v[i - Len(u)]
    BY <1>a, ConcatProperties
  <2> QED
    BY <1>a, <2>1
<1> HIDE DEF w
<1>7. m \in Seq(Node) /\ Len(m) = Len(n) + 2
  <2>1. m \in Seq(Node) /\ Len(m) = Len(w) + Len(y)
    BY <1>2, <1>5, ConcatProperties
  <2>2. (k + 2) + (Len(n) - k) = Len(n) + 2
    OBVIOUS
  <2> QED
    BY <1>2, <1>5, <2>1, <2>2
<1>8. \A i \in 1 .. Len(n) + 2 : m[i] = IF i <= k + 2 THEN w[i] ELSE y[i - (k + 2)]
  BY <1>2, <1>5
<1> HIDE DEF m
<1>9. ASSUME NEW i \in 1 .. Len(n) + 2
      PROVE  m[i] = IF i < k THEN n[i] ELSE IF i = k THEN s ELSE IF i = k + 1 THEN a
                    ELSE IF i = k + 2 THEN b ELSE n[i - 2]
  <2>1. CASE i < k
    <3>1. i \in 1 .. k - 1 /\ i <= k /\ i <= k + 2 /\ i \in 1 .. k + 2
      BY <2>1
    <3> QED
      BY <1>1, <1>4, <1>6, <1>8, <2>1, <3>1
  <2>2. CASE i = k
    <3>1. i <= k + 2 /\ i \in 1 .. k + 2 /\ i <= k /\ ~(i < k)
      BY <2>2
    <3> QED
      BY <1>4, <1>6, <1>8, <2>2, <3>1
  <2>3. CASE i = k + 1
    <3>1. i <= k + 2 /\ i \in 1 .. k + 2 /\ ~(i <= k) /\ ~(i < k) /\ i # k /\ i - k = 1
      BY <2>3
    <3> QED
      BY <1>3, <1>6, <1>8, <2>3, <3>1
  <2>4. CASE i = k + 2
    <3>1. i <= k + 2 /\ i \in 1 .. k + 2 /\ ~(i <= k) /\ ~(i < k) /\ i # k /\ i # k + 1 /\ i - k = 2
      BY <2>4
    <3> QED
      BY <1>3, <1>6, <1>8, <2>4, <3>1
  <2>5. CASE i > k + 2
    <3>1. ~(i <= k + 2) /\ ~(i < k) /\ i # k /\ i # k + 1 /\ i # k + 2 /\ i - (k + 2) \in 1 .. Len(n) - k
          /\ i - (k + 2) + k = i - 2
      BY <2>5
    <3> QED
      BY <1>2, <1>8, <2>5, <3>1
  <2> QED
    BY <2>1, <2>2, <2>3, <2>4, <2>5
<1> QED
  BY <1>7, <1>9 DEF SplitAt, IsSplitAt, m, w, u, v, x, y
LEMMA InsertedShows ==
  ASSUME NEW P, NEW n, Shows(n, P), NEW target \in P, NEW add \in Panes, add \notin P, NEW v \in BOOLEAN, NEW before \in BOOLEAN
  PROVE  Shows(Inserted(n, target, add, v, before), P \cup {add})
<1> DEFINE k == NodeOf(n, target)
           x == LeafNode(IF before THEN add ELSE target)
           y == LeafNode(IF before THEN target ELSE add)
           s == SplitNode(v, 5)
           m == SplitAt(n, k, s, x, y)
           c == IF before THEN k + 1 ELSE k + 2
           d == IF before THEN k + 2 ELSE k + 1
<1>1. n \in Seq(Node) /\ (\A i \in 1 .. Len(n) : n[i] \in Node) /\ ShowsOnce(n)
  BY DEF Shows
<1>2. \A p : p \in P <=> p # None /\ \E i \in 1 .. Len(n) : n[i].pane = p
  BY <1>1, ShownOf DEF Shows
<1>3. target # None /\ target \in Panes
  <2>1. target # None /\ \E i \in 1 .. Len(n) : n[i].pane = target
    BY <1>2
  <2> QED
    BY <1>1, <2>1, NodeIs
<1>4. k \in 1 .. Len(n) /\ n[k].pane = target
  BY <1>1, <1>3, NodeOfShown DEF Shows
<1>5. /\ s \in Node /\ s.pane = None /\ x \in Node /\ y \in Node
      /\ x.pane = IF before THEN add ELSE target
      /\ y.pane = IF before THEN target ELSE add
  BY <1>3, Nodes
<1>6. Inserted(n, target, add, v, before) = m
  <2>1. k # 0
    BY <1>4
  <2> QED
    BY <2>1 DEF Inserted, Leaf, SplitAt
<1> HIDE DEF k, x, y, s, m
<1>7. /\ m \in Seq(Node) /\ Len(m) = Len(n) + 2
      /\ \A i \in 1 .. Len(n) + 2 : m[i] = IF i < k THEN n[i] ELSE IF i = k THEN s ELSE IF i = k + 1 THEN x
                                           ELSE IF i = k + 2 THEN y ELSE n[i - 2]
  <2>1. m = SplitAt(n, k, s, x, y)
    BY DEF m
  <2>2. m \in Seq(Node) /\ Len(m) = Len(n) + 2 /\ IsSplitAt(m, n, k, s, x, y)
    BY <1>1, <1>4, <1>5, <2>1, Three
  <2> QED
    BY <2>2 DEF IsSplitAt
<1>8. /\ \A i \in 1 .. k - 1 : i \in 1 .. Len(m) /\ i \in 1 .. Len(n) /\ m[i] = n[i]
      /\ m[k].pane = None
      /\ c \in 1 .. Len(m) /\ m[c].pane = add
      /\ d \in 1 .. Len(m) /\ m[d].pane = target
      /\ c # d
      /\ \A i \in k + 3 .. Len(m) : i \in 1 .. Len(m) /\ i - 2 \in 1 .. Len(n) /\ m[i] = n[i - 2]
      /\ \A i \in 1 .. Len(m) : i \in 1 .. k - 1 \/ i \in {k, c, d} \/ i \in k + 3 .. Len(m)
  <2>0. k \in Int /\ 1 <= k /\ k <= Len(n) /\ Len(n) \in Int /\ Len(m) = Len(n) + 2
    BY <1>1, <1>4, <1>7
  <2>1. /\ \A i \in 1 .. k - 1 : i \in 1 .. Len(m) /\ i \in 1 .. Len(n) /\ m[i] = n[i]
        /\ \A i \in k + 3 .. Len(m) : i \in 1 .. Len(m) /\ i - 2 \in 1 .. Len(n) /\ m[i] = n[i - 2]
    <3>1. ASSUME NEW i \in 1 .. k - 1 PROVE i \in 1 .. Len(m) /\ i \in 1 .. Len(n) /\ m[i] = n[i]
      <4>1. i \in 1 .. Len(m) /\ i \in 1 .. Len(n) /\ i < k /\ i \in 1 .. Len(n) + 2
        BY <2>0
      <4> QED
        BY <1>7, <4>1
    <3>2. ASSUME NEW i \in k + 3 .. Len(m) PROVE i \in 1 .. Len(m) /\ i - 2 \in 1 .. Len(n) /\ m[i] = n[i - 2]
      <4>1. i \in 1 .. Len(m) /\ i - 2 \in 1 .. Len(n) /\ i \in 1 .. Len(n) + 2
        BY <2>0
      <4>2. ~(i < k) /\ i # k /\ i # k + 1 /\ i # k + 2
        BY <2>0
      <4> QED
        BY <1>7, <4>1, <4>2
    <3> QED
      BY <3>1, <3>2
  <2>2. k \in 1 .. Len(m) /\ k + 1 \in 1 .. Len(m) /\ k + 2 \in 1 .. Len(m) /\ m[k] = s /\ m[k + 1] = x /\ m[k + 2] = y
    BY <1>4, <1>7
  <2>3. c # d /\ \A i \in 1 .. Len(m) : i \in 1 .. k - 1 \/ i \in {k, c, d} \/ i \in k + 3 .. Len(m)
    BY <1>4, <1>7
  <2>4. c \in 1 .. Len(m) /\ m[c].pane = add /\ d \in 1 .. Len(m) /\ m[d].pane = target
    BY <1>5, <2>2
  <2> QED
    BY <1>5, <2>1, <2>2, <2>3, <2>4
<1>a. IsTree(m)
  <2>1. ~IsLeaf(m[k]) /\ IsLeaf(m[k + 1]) /\ IsLeaf(m[k + 2]) /\ IsLeaf(n[k])
    <3>1. k \in 1 .. Len(n) + 2 /\ k + 1 \in 1 .. Len(n) + 2 /\ k + 2 \in 1 .. Len(n) + 2
      BY <1>4
    <3>2. m[k] = s /\ m[k + 1] = x /\ m[k + 2] = y
      BY <1>4, <1>7, <3>1
    <3>3. add # None
      BY Nodes
    <3> QED
      BY <1>3, <1>4, <1>5, <3>2, <3>3 DEF IsLeaf
  <2>2. \A i \in 1 .. k - 1 : m[i] = n[i]
    BY <1>8
  <2>3. ASSUME NEW i \in 1 .. Len(n) - k PROVE m[(k + 2) + i] = n[k + i]
    <3>1. (k + 2) + i \in k + 3 .. Len(m) /\ ((k + 2) + i) - 2 = k + i
      <4>1. Len(m) = Len(n) + 2 /\ Len(n) \in Nat /\ k \in 1 .. Len(n)
        BY <1>4, <1>7
      <4> QED
        BY <4>1
    <3> QED
      BY <1>8, <3>1
  <2>4. SplitOff(m, n, k)
    BY <1>7, <2>1, <2>2, <2>3 DEF SplitOff
  <2>5. IsTree(n)
    BY DEF Shows
  <2> QED
    BY <1>1, <1>4, <1>7, <2>1, <2>4, <2>5, SplitOffTree
<1> HIDE DEF c, d
<1>9. \A p : p \in PanesIn(m) <=> p # None /\ \E i \in 1 .. Len(m) : m[i].pane = p
  BY <1>7, ShownOf
<1>10. ASSUME NEW p \in PanesIn(m) PROVE p \in P \cup {add}
  <2>1. PICK i \in 1 .. Len(m) : p # None /\ m[i].pane = p
    BY <1>9
  <2>2. CASE i \in 1 .. k - 1
    BY <1>2, <1>8, <2>1, <2>2
  <2>3. CASE i \in {k, c, d}
    BY <1>8, <2>1, <2>3
  <2>4. CASE i \in k + 3 .. Len(m)
    BY <1>2, <1>8, <2>1, <2>4
  <2> QED
    BY <1>8, <2>2, <2>3, <2>4
<1>11. add # None
  BY Nodes
<1>12. ASSUME NEW p \in P \cup {add} PROVE p \in PanesIn(m)
  <2>1. CASE p = add \/ p = target
    BY <1>3, <1>8, <1>9, <1>11, <2>1
  <2>2. CASE p # add /\ p # target
    <3>1. PICK j \in 1 .. Len(n) : p # None /\ n[j].pane = p
      BY <1>2, <2>2
    <3>2. j # k
      BY <1>4, <2>2, <3>1
    <3>3. CASE j < k
      <4>1. j \in 1 .. k - 1
        BY <1>4, <3>3
      <4> QED
        BY <1>8, <1>9, <3>1, <4>1
    <3>4. CASE j > k
      <4>1. j + 2 \in k + 3 .. Len(m) /\ (j + 2) - 2 = j
        BY <1>4, <1>7, <3>4
      <4>2. m[j + 2] = n[j] /\ j + 2 \in 1 .. Len(m)
        BY <1>8, <4>1
      <4> QED
        BY <1>9, <3>1, <4>2
    <3> QED
      BY <1>4, <3>2, <3>3, <3>4
  <2> QED
    BY <2>1, <2>2
<1>13. ASSUME NEW i \in 1 .. Len(m), m[i].pane # None, m[i].pane # add
       PROVE  \/ i \in 1 .. k - 1 /\ i \in 1 .. Len(n) /\ m[i] = n[i]
              \/ i = d
              \/ i \in k + 3 .. Len(m) /\ i - 2 \in 1 .. Len(n) /\ m[i] = n[i - 2]
  BY <1>8, <1>13
<1>14. ASSUME NEW i \in 1 .. Len(m), m[i].pane = add
       PROVE  i = c
  <2>1. \A j \in 1 .. Len(n) : n[j].pane # add
    BY <1>2, <1>11
  <2>2. add # target
    OBVIOUS
  <2> QED
    BY <1>8, <1>11, <1>14, <2>1, <2>2
<1>15. ASSUME NEW i \in 1 .. Len(m), NEW j \in 1 .. Len(m), m[i].pane # None, m[i].pane = m[j].pane
       PROVE  i = j
  <2>1. CASE m[i].pane = add
    BY <1>14, <1>15, <2>1
  <2>2. CASE m[i].pane # add
    <3> DEFINE G(a) == IF a \in 1 .. k - 1 THEN a ELSE IF a = d THEN k ELSE a - 2
    <3>1. ASSUME NEW a \in 1 .. Len(m), m[a].pane # None, m[a].pane # add
          PROVE  /\ G(a) \in 1 .. Len(n) /\ n[G(a)].pane = m[a].pane
                 /\ a = IF G(a) < k THEN G(a) ELSE IF G(a) = k THEN d ELSE G(a) + 2
      <4>1. d \notin 1 .. k - 1 /\ k \in Nat
        BY <1>4 DEF d
      <4>2. CASE a \in 1 .. k - 1
        BY <1>4, <1>8, <4>2
      <4>3. CASE a = d
        BY <1>4, <1>8, <4>1, <4>3
      <4>4. CASE a \in k + 3 .. Len(m)
        <5>1. a \notin 1 .. k - 1 /\ a # d
          BY <1>4, <4>4 DEF d
        <5>2. G(a) = a - 2 /\ ~(a - 2 < k) /\ a - 2 # k /\ a - 2 + 2 = a
          BY <1>4, <4>4, <5>1
        <5> HIDE DEF G
        <5> QED
          BY <1>8, <4>4, <5>2
      <4> QED
        BY <1>13, <3>1, <4>2, <4>3, <4>4
    <3> HIDE DEF G
    <3>2. G(i) = G(j)
      BY <1>1, <1>15, <2>2, <3>1 DEF ShowsOnce
    <3> QED
      BY <1>15, <2>2, <3>1, <3>2
  <2> QED
    BY <2>1, <2>2
<1>16. PanesIn(m) = P \cup {add}
  BY <1>10, <1>12
<1>17. ShowsOnce(m)
  BY <1>15 DEF ShowsOnce
<1>18. Shows(m, P \cup {add})
  BY <1>7, <1>16, <1>17, <1>a DEF Shows
<1> QED
  BY <1>6, <1>18

LEMMA FallbackShows ==
  ASSUME NEW list \in Seq(Panes), IsInjective(list)
  PROVE  Shows(FallbackLayout(list), ToSet(list))
<1> DEFINE n == Len(list)
           At2(k) == IF k = n THEN 1 ELSE 2 * n + 1 - k
           m == FallbackLayout(list)
<1>1. n \in Nat /\ DOMAIN list = 1 .. n /\ \A i \in 1 .. n : list[i] \in Panes
  OBVIOUS
<1>2. m = [k \in 1 .. 2 * n - 1 |-> IF k < n THEN SplitNode(TRUE, 5) ELSE LeafNode(list[At2(k)])]
  BY DEF FallbackLayout
<1> HIDE DEF n, m
<1>3. \A k \in 1 .. 2 * n - 1 : ~(k < n) => At2(k) \in 1 .. n
  BY <1>1
<1>4. \A j, k \in 1 .. 2 * n - 1 : ~(j < n) /\ ~(k < n) /\ At2(j) = At2(k) => j = k
  BY <1>1
<1>5. \A i \in 1 .. n : \E k \in 1 .. 2 * n - 1 : ~(k < n) /\ At2(k) = i
  <2> SUFFICES ASSUME NEW i \in 1 .. n PROVE \E k \in 1 .. 2 * n - 1 : ~(k < n) /\ At2(k) = i
    OBVIOUS
  <2>1. CASE i = 1
    <3>1. n \in 1 .. 2 * n - 1 /\ ~(n < n) /\ At2(n) = i
      BY <1>1, <2>1
    <3> QED
      BY <3>1
  <2>2. CASE i # 1
    <3> DEFINE k == 2 * n + 1 - i
    <3>1. k \in 1 .. 2 * n - 1 /\ ~(k < n) /\ At2(k) = i
      BY <1>1, <2>2
    <3> QED
      BY <3>1
  <2> QED
    BY <2>1, <2>2
<1> HIDE DEF At2
<1>6. \A k \in 1 .. 2 * n - 1 : /\ k < n => m[k] \in Node /\ m[k].pane = None
                                /\ ~(k < n) => m[k] \in Node /\ m[k].pane = list[At2(k)] /\ list[At2(k)] \in Panes
  <2> SUFFICES ASSUME NEW k \in 1 .. 2 * n - 1
               PROVE  /\ k < n => m[k] \in Node /\ m[k].pane = None
                      /\ ~(k < n) => m[k] \in Node /\ m[k].pane = list[At2(k)] /\ list[At2(k)] \in Panes
    OBVIOUS
  <2>1. CASE k < n
    <3>1. m[k] = SplitNode(TRUE, 5)
      BY <1>2, <2>1
    <3>2. TRUE \in BOOLEAN /\ 5 \in 1 .. 9
      OBVIOUS
    <3>3. SplitNode(TRUE, 5) \in Node /\ SplitNode(TRUE, 5).pane = None
      BY <3>2, Nodes, Zenon
    <3> QED
      BY <2>1, <3>1, <3>3
  <2>2. CASE ~(k < n)
    <3>1. m[k] = LeafNode(list[At2(k)]) /\ list[At2(k)] \in Panes
      BY <1>1, <1>2, <1>3, <2>2
    <3> QED
      BY <2>2, <3>1, Nodes
  <2> QED
    BY <2>1, <2>2
<1>7. m \in Seq(Node) /\ Len(m) = IF n = 0 THEN 0 ELSE 2 * n - 1
  <2> DEFINE l == IF n = 0 THEN 0 ELSE 2 * n - 1
  <2>1. l \in Nat /\ 1 .. l = 1 .. 2 * n - 1
    BY <1>1
  <2>2. m = [k \in 1 .. l |-> m[k]]
    BY <1>2, <2>1
  <2>3. \A k \in 1 .. l : m[k] \in Node
    BY <1>6, <2>1
  <2> HIDE DEF l
  <2>4. m \in Seq(Node) /\ Len(m) = l
    BY <2>1, <2>2, <2>3
  <2> QED
    BY <2>4 DEF l
<1>8. 1 .. Len(m) = 1 .. 2 * n - 1
  BY <1>1, <1>7
<1>9. \A p : p \in PanesIn(m) <=> p # None /\ \E i \in 1 .. 2 * n - 1 : m[i].pane = p
  BY <1>7, <1>8, ShownOf
<1>10. ASSUME NEW p \in PanesIn(m) PROVE p \in ToSet(list)
  <2>1. PICK k \in 1 .. 2 * n - 1 : p # None /\ m[k].pane = p
    BY <1>9
  <2>2. ~(k < n) /\ p = list[At2(k)] /\ At2(k) \in 1 .. n
    BY <1>3, <1>6, <2>1
  <2> QED
    BY <1>1, <2>2 DEF ToSet
<1>11. ASSUME NEW p \in ToSet(list) PROVE p \in PanesIn(m)
  <2>1. PICK i \in 1 .. n : p = list[i]
    BY <1>1 DEF ToSet
  <2>2. PICK k \in 1 .. 2 * n - 1 : ~(k < n) /\ At2(k) = i
    BY <1>5
  <2>3. m[k].pane = p /\ p \in Panes
    BY <1>6, <2>1, <2>2
  <2>4. p # None
    BY <2>3, Nodes
  <2> QED
    BY <1>9, <2>3, <2>4
<1>12. ASSUME NEW j \in 1 .. 2 * n - 1, NEW k \in 1 .. 2 * n - 1, m[j].pane # None, m[j].pane = m[k].pane
       PROVE  j = k
  <2>1. ~(j < n) /\ ~(k < n)
    BY <1>6, <1>12
  <2>2. list[At2(j)] = list[At2(k)] /\ At2(j) \in 1 .. n /\ At2(k) \in 1 .. n
    BY <1>3, <1>6, <1>12, <2>1
  <2>3. At2(j) = At2(k)
    BY <1>1, <2>2 DEF IsInjective
  <2> QED
    BY <1>4, <2>1, <2>3
<1>13. PanesIn(m) = ToSet(list)
  BY <1>10, <1>11
<1>14. ShowsOnce(m)
  BY <1>8, <1>12 DEF ShowsOnce
<1>a. IsTree(m)
  <2>1. ASSUME NEW i \in 1 .. Len(m) PROVE IsLeaf(m[i]) <=> i >= n
    <3>1. i \in 1 .. 2 * n - 1 /\ i \in Nat
      <4>1. i \in 1 .. 2 * n - 1
        BY <1>8
      <4>2. i \in Nat
        BY <1>7
      <4> QED
        BY <4>1, <4>2
    <3>2. \A p \in Panes : p # None
      BY Nodes
    <3>3. CASE i < n
      BY <1>1, <1>6, <3>1, <3>3 DEF IsLeaf
    <3>4. CASE ~(i < n)
      <4>1. IsLeaf(m[i])
        BY <1>6, <3>1, <3>2, <3>4 DEF IsLeaf
      <4> QED
        BY <1>1, <3>1, <3>4, <4>1
    <3> QED
      BY <3>3, <3>4
  <2>2. (n # 0 => Len(m) = 2 * n - 1) /\ (n = 0 => Len(m) = 0) /\ m \in Seq(Node)
    BY <1>7
  <2> QED
    BY <1>1, <2>1, <2>2, RunTree
<1>15. Shows(m, ToSet(list))
  BY <1>7, <1>13, <1>14, <1>a DEF Shows
<1> QED
  BY <1>15 DEF m
LEMMA RestoredNodes ==
  ASSUME NEW n \in Seq(SavedNode), NEW list \in Seq(Panes), IsTree(n)
  PROVE  RestoreNode(n, list) \in Seq(Node) /\ IsTree(RestoreNode(n, list))
<1>1. DOMAIN n = 1 .. Len(n) /\ DOMAIN list = 1 .. Len(list) /\ \A k \in 1 .. Len(n) : n[k] \in SavedNode
  OBVIOUS
<1>2. CASE PanesIn(n) \subseteq DOMAIN list
  <2> DEFINE m == RestoreNode(n, list)
  <2>1. m = [k \in 1 .. Len(n) |-> IF IsLeaf(n[k]) THEN LeafNode(list[n[k].pane])
                                   ELSE [n[k] EXCEPT !.ratio = IF @ \in 1 .. 9 THEN @ ELSE 5]]
    BY <1>1, <1>2 DEF RestoreNode
  <2>2. ASSUME NEW k \in 1 .. Len(n) PROVE m[k] \in Node
    <3>1. CASE n[k].pane # None
      <4>1. n[k].pane \in PanesIn(n)
        BY <3>1, ShownOf
      <4>2. list[n[k].pane] \in Panes
        BY <1>1, <1>2, <4>1
      <4>3. m[k] = LeafNode(list[n[k].pane])
        BY <2>1, <3>1 DEF IsLeaf
      <4> QED
        BY <4>2, <4>3, Nodes
    <3>2. CASE n[k].pane = None
      <4>1. m[k] = [n[k] EXCEPT !.ratio = IF @ \in 1 .. 9 THEN @ ELSE 5]
        BY <2>1, <3>2 DEF IsLeaf
      <4>2. n[k] \in SavedNode
        BY <1>1
      <4> DEFINE x == IF n[k].ratio \in 1 .. 9 THEN n[k].ratio ELSE 5
      <4>3. n[k] = [pane |-> None, vertical |-> n[k].vertical, ratio |-> n[k].ratio] /\ n[k].vertical \in BOOLEAN
        BY <3>2, <4>2 DEF SavedNode
      <4>4. m[k] = SplitNode(n[k].vertical, x)
        BY <4>1, <4>3 DEF SplitNode
      <4>5. x \in 1 .. 9
        OBVIOUS
      <4> HIDE DEF x
      <4> QED
        BY <4>3, <4>4, <4>5, Nodes
    <3> QED
      BY <3>1, <3>2
  <2>a. ASSUME NEW k \in 1 .. Len(n) PROVE IsLeaf(m[k]) <=> IsLeaf(n[k])
    <3>1. CASE n[k].pane # None
      <4>1. n[k].pane \in PanesIn(n)
        BY <3>1, ShownOf
      <4>2. list[n[k].pane] \in Panes
        BY <1>1, <1>2, <4>1
      <4>3. m[k] = LeafNode(list[n[k].pane])
        BY <2>1, <3>1 DEF IsLeaf
      <4>4. m[k].pane # None
        BY <4>2, <4>3, Nodes
      <4> QED
        BY <3>1, <4>4 DEF IsLeaf
    <3>2. CASE n[k].pane = None
      <4>1. m[k] = [n[k] EXCEPT !.ratio = IF @ \in 1 .. 9 THEN @ ELSE 5]
        BY <2>1, <3>2 DEF IsLeaf
      <4>2. n[k] = [pane |-> None, vertical |-> n[k].vertical, ratio |-> n[k].ratio]
        BY <1>1, <3>2 DEF SavedNode
      <4>3. m[k].pane = None
        BY <4>1, <4>2
      <4> QED
        BY <3>2, <4>3 DEF IsLeaf
    <3> QED
      BY <3>1, <3>2
  <2>3. m = [k \in 1 .. Len(n) |-> m[k]]
    BY <2>1
  <2> HIDE DEF m
  <2>4. m \in Seq(Node) /\ Len(m) = Len(n)
    BY <2>2, <2>3
  <2>5. IsTree(m)
    BY <2>4, <2>a, SameTree
  <2> QED
    BY <2>4, <2>5 DEF m
<1>3. CASE ~(PanesIn(n) \subseteq DOMAIN list)
  BY <1>3 DEF RestoreNode, Nil, IsTree
<1> QED
  BY <1>2, <1>3

LEMMA SnapshotNodes ==
  ASSUME NEW n \in Seq(Node), NEW list \in Seq(Panes), IsTree(n)
  PROVE  SnapshotNode(n, list) \in Seq(SavedNode) /\ IsTree(SnapshotNode(n, list))
<1> DEFINE m == SnapshotNode(n, list)
<1>1. DOMAIN n = 1 .. Len(n) /\ \A k \in 1 .. Len(n) : n[k] \in Node
  OBVIOUS
<1>2. m = [k \in 1 .. Len(n) |-> IF IsLeaf(n[k]) THEN LeafNode(Place(list, n[k].pane)) ELSE n[k]]
  BY <1>1 DEF SnapshotNode
<1>3. ASSUME NEW k \in 1 .. Len(n) PROVE m[k] \in SavedNode /\ (IsLeaf(m[k]) <=> IsLeaf(n[k]))
  <2>1. CASE IsLeaf(n[k])
    <3>1. Place(list, n[k].pane) \in Nat
      <4> DEFINE p == n[k].pane
      <4>1. Place(list, p) \in 1 .. Len(list) \/ Place(list, p) = 0
        <5> HIDE DEF p
        <5> QED
          BY PlaceOf
      <4> QED
        BY <4>1
    <3>2. m[k] = LeafNode(Place(list, n[k].pane))
      BY <1>2, <2>1
    <3>3. m[k] \in SavedNode /\ m[k].pane \in Nat
      BY <3>1, <3>2, Nodes
    <3> QED
      BY <2>1, <3>3, WorkspacesAssumption DEF IsLeaf
  <2>2. CASE ~IsLeaf(n[k])
    <3>1. m[k] = n[k] /\ n[k] \in Node /\ n[k].pane = None
      BY <1>1, <1>2, <2>2 DEF IsLeaf
    <3>2. n[k].vertical \in BOOLEAN /\ n[k].ratio \in 1 .. 9 /\ n[k] = SplitNode(n[k].vertical, n[k].ratio)
      BY <3>1, NodeIs
    <3> QED
      BY <3>1, <3>2 DEF SavedNode, SplitNode
  <2> QED
    BY <2>1, <2>2
<1>4. m = [k \in 1 .. Len(n) |-> m[k]]
  BY <1>2
<1> HIDE DEF m
<1>5. m \in Seq(SavedNode) /\ Len(m) = Len(n)
  BY <1>3, <1>4
<1>6. IsTree(m)
  BY <1>3, <1>5, SameTree
<1> QED
  BY <1>5, <1>6 DEF m

LEMMA LastLeaf ==
  ASSUME NEW P, NEW n, Shows(n, P), Leaves(n) # {}
  PROVE  n[Max(Leaves(n))].pane \in P
<1>1. n \in Seq(Node) /\ Leaves(n) = {k \in 1 .. Len(n) : n[k].pane # None}
  BY LeavesOf DEF Shows
<1> DEFINE L == Leaves(n)
           S == {j \in 0 .. Len(n) : Len(n) - j \in L}
<1>2. S # {}
  <2>1. PICK k \in L : TRUE
    OBVIOUS
  <2>2. Len(n) - k \in S
    BY <1>1, <2>1
  <2> QED
    BY <2>2
<1>3. S \in SUBSET Nat
  OBVIOUS
<1> HIDE DEF S
<1>4. PICK j \in S : \A i \in S : j <= i
  BY <1>2, <1>3, LeastNatural
<1>5. Len(n) - j \in L /\ \A k \in L : k <= Len(n) - j
  <2>1. j \in 0 .. Len(n) /\ Len(n) - j \in L
    BY DEF S
  <2>2. ASSUME NEW k \in L PROVE k <= Len(n) - j
    <3>1. k \in 1 .. Len(n)
      BY <1>1
    <3>2. Len(n) - k \in S
      BY <3>1 DEF S
    <3>3. j <= Len(n) - k
      BY <1>4, <3>2
    <3> QED
      BY <2>1, <3>1, <3>3
  <2> QED
    BY <2>1, <2>2
<1> HIDE DEF L
<1>6. Max(L) \in L
  BY <1>5 DEF Max
<1> QED
  BY <1>1, <1>6 DEF L, Shows, PanesIn

-----------------------------------------------------------------------------
(* Tabs.                                                                   *)
Tab == [panes : Seq(Panes), layout : Seq(Node), selected : Int]

TabSound(t, fl) ==
    /\ t \in Tab
    /\ IsInjective(t.panes)
    /\ Shows(t.layout, ToSet(t.panes) \ fl)
    /\ t.panes = <<>> \/ t.selected \in 1 .. Len(t.panes)

LEMMA TabFields ==
  ASSUME NEW t, NEW fl, TabSound(t, fl)
  PROVE  /\ t \in Tab
         /\ t.panes \in Seq(Panes) /\ IsInjective(t.panes) /\ t.selected \in Int
         /\ Shows(t.layout, ToSet(t.panes) \ fl)
         /\ t.panes = <<>> \/ t.selected \in 1 .. Len(t.panes)
  BY DEF TabSound, Tab

LEMMA SetOf == ASSUME NEW T, NEW list \in Seq(T), NEW p PROVE p \in ToSet(list) <=> \E i \in 1 .. Len(list) : list[i] = p
  BY DEF ToSet

LEMMA AppendSet ==
  ASSUME NEW T, NEW list \in Seq(T), NEW p \in T
  PROVE  /\ Append(list, p) \in Seq(T) /\ Len(Append(list, p)) = Len(list) + 1 /\ Append(list, p)[Len(list) + 1] = p
         /\ ToSet(Append(list, p)) = ToSet(list) \cup {p}
         /\ IsInjective(list) /\ p \notin ToSet(list) => IsInjective(Append(list, p))
<1> DEFINE r == Append(list, p)
           n == Len(list)
<1>1. n \in Nat /\ r \in Seq(T) /\ Len(r) = n + 1 /\ r[n + 1] = p /\ \A i \in 1 .. n : r[i] = list[i]
  OBVIOUS
<1>2. DOMAIN r = 1 .. n + 1 /\ DOMAIN list = 1 .. n
  OBVIOUS
<1> HIDE DEF r, n
<1>3. \A i \in 1 .. n + 1 : i \in 1 .. n \/ i = n + 1
  BY <1>1
<1>4. n + 1 \in 1 .. n + 1 /\ \A i \in 1 .. n : i \in 1 .. n + 1
  BY <1>1
<1>5. ToSet(r) = ToSet(list) \cup {p}
  BY <1>1, <1>2, <1>3, <1>4 DEF ToSet
<1>6. ASSUME IsInjective(list), p \notin ToSet(list) PROVE IsInjective(r)
  <2>1. ASSUME NEW i \in 1 .. n + 1, NEW j \in 1 .. n + 1, r[i] = r[j] PROVE i = j
    BY <1>1, <1>2, <1>3, <1>6, <2>1 DEF IsInjective, ToSet
  <2> QED
    BY <1>2, <2>1 DEF IsInjective
<1> QED
  BY <1>1, <1>5, <1>6 DEF r, n

LEMMA EmptySound == ASSUME NEW fl PROVE TabSound(EmptyTab, fl) /\ ToSet(EmptyTab.panes) = {}
<1>1. <<>> \in Seq(Panes) /\ ToSet(<<>>) = {} /\ IsInjective(<<>>)
  BY DEF ToSet, IsInjective
<1>2. Shows(Nil, ToSet(<<>>) \ fl) /\ Nil \in Seq(Node)
  <2>1. ToSet(<<>>) \ fl = {}
    BY <1>1
  <2> QED
    BY <2>1, ShowsNil DEF Shows
<1>3. EmptyTab \in Tab /\ EmptyTab.panes = <<>> /\ EmptyTab.layout = Nil
  BY <1>1, <1>2 DEF EmptyTab, Tab
<1> QED
  BY <1>1, <1>2, <1>3 DEF TabSound

LEMMA AppendedSound ==
  ASSUME NEW fl, NEW t, TabSound(t, fl), NEW p \in Panes, p \notin ToSet(t.panes)
  PROVE  TabSound(Appended(t, p), fl \cup {p}) /\ ToSet(Appended(t, p).panes) = ToSet(t.panes) \cup {p}
<1>1. /\ t \in Tab
      /\ t.panes \in Seq(Panes) /\ IsInjective(t.panes) /\ Shows(t.layout, ToSet(t.panes) \ fl)
  BY TabFields
<1> DEFINE r == Append(t.panes, p)
           n == Len(t.panes) + 1
<1>3. r \in Seq(Panes) /\ Len(r) = n /\ ToSet(r) = ToSet(t.panes) \cup {p} /\ IsInjective(r)
  BY <1>1, AppendSet
<1>4. n \in Int /\ n \in 1 .. n
  BY <1>1
<1> DEFINE u == Appended(t, p)
<1>2. u \in Tab /\ u.panes = r /\ u.layout = t.layout /\ u.selected = n
  BY <1>1, <1>3, <1>4 DEF Appended, Tab
<1> HIDE DEF r, n, u
<1>5. ToSet(r) \ (fl \cup {p}) = ToSet(t.panes) \ fl
  BY <1>3
<1>6. TabSound(u, fl \cup {p})
  BY <1>1, <1>2, <1>3, <1>4, <1>5 DEF TabSound
<1> QED
  BY <1>2, <1>3, <1>6 DEF u

LEMMA WithPaneSound ==
  ASSUME NEW t, TabSound(t, floating), NEW p \in Panes, p \notin ToSet(t.panes), p \notin floating,
         NEW v \in BOOLEAN, NEW b \in BOOLEAN
  PROVE  /\ TabSound(WithPane(t, p, v, b), floating)
         /\ ToSet(WithPane(t, p, v, b).panes) = ToSet(t.panes) \cup {p}
<1>1. /\ t \in Tab
      /\ t.panes \in Seq(Panes) /\ IsInjective(t.panes) /\ Shows(t.layout, ToSet(t.panes) \ floating)
      /\ t.panes = <<>> \/ t.selected \in 1 .. Len(t.panes)
  BY TabFields
<1> DEFINE r == Append(t.panes, p)
           n == Len(t.panes) + 1
           target == SplitTarget(t, floating)
           l == IF Leaves(t.layout) = {} THEN Leaf(p) ELSE Inserted(t.layout, target, p, v, b)
           u == WithPane(t, p, v, b)
<1>3. r \in Seq(Panes) /\ Len(r) = n /\ ToSet(r) = ToSet(t.panes) \cup {p} /\ IsInjective(r)
  BY <1>1, AppendSet
<1>4. n \in Int /\ n \in 1 .. n
  BY <1>1
<1> DEFINE x == Appended(t, p)
<1>2. /\ x \in Tab /\ x.panes = r /\ x.layout = t.layout /\ x.selected = n
      /\ u = [x EXCEPT !.layout = l]
  BY <1>1, <1>3, <1>4 DEF WithPane, Appended, Tab
<1> HIDE DEF r, n, u, x
<1> DEFINE P == ToSet(t.panes) \ floating
<1>5. ToSet(r) \ floating = P \cup {p} /\ p \notin P
  BY <1>3
<1>6. ASSUME Leaves(t.layout) = {} PROVE Shows(l, P \cup {p})
  <2>1. P = {}
    BY <1>1, <1>6 DEF Shows, PanesIn
  <2>2. Shows(Leaf(p), {p})
    BY ShowsLeaf
  <2> QED
    BY <1>6, <2>1, <2>2
<1>7. ASSUME Leaves(t.layout) # {} PROVE Shows(l, P \cup {p})
  <2>1. target \in P
    <3>1. t.layout[Max(Leaves(t.layout))].pane \in P
      BY <1>1, <1>7, LastLeaf
    <3>2. t.panes # <<>>
      <4>1. ToSet(t.panes) # {}
        BY <3>1
      <4> QED
        BY <4>1 DEF ToSet
    <3>3. t.panes[t.selected] \in ToSet(t.panes)
      BY <1>1, <3>2 DEF ToSet
    <3> QED
      BY <3>1, <3>3 DEF SplitTarget
  <2> HIDE DEF target
  <2>2. Shows(t.layout, P)
    BY <1>1
  <2> HIDE DEF P
  <2>3. Shows(Inserted(t.layout, target, p, v, b), P \cup {p})
    BY <1>5, <2>1, <2>2, InsertedShows
  <2> QED
    BY <1>7, <2>3
<1>8. Shows(l, ToSet(r) \ floating)
  <2> HIDE DEF l, P
  <2> QED
    BY <1>5, <1>6, <1>7
<1> HIDE DEF l
<1>9. u \in Tab /\ u.panes = r /\ u.layout = l /\ u.selected = n
  BY <1>2, <1>8 DEF Tab, Shows
<1>10. TabSound(u, floating)
  BY <1>3, <1>4, <1>8, <1>9 DEF TabSound
<1> QED
  BY <1>3, <1>9, <1>10 DEF u

LEMMA ClampIn == ASSUME NEW v \in Int, NEW n \in Nat PROVE Clamp(v, 1, n) \in Int /\ (n # 0 => Clamp(v, 1, n) \in 1 .. n)
  BY DEF Clamp

LEMMA ShortenedSound ==
  ASSUME NEW fl, NEW t, TabSound(t, fl), NEW p \in ToSet(t.panes)
  PROVE  TabSound(Shortened(t, p), fl \ {p}) /\ ToSet(Shortened(t, p).panes) = ToSet(t.panes) \ {p}
<1>1. /\ t \in Tab
      /\ t.panes \in Seq(Panes) /\ IsInjective(t.panes) /\ t.selected \in Int /\ Shows(t.layout, ToSet(t.panes) \ fl)
  BY TabFields
<1> DEFINE k == Place(t.panes, p)
           r == RemoveAt(t.panes, k)
           l == Removed(t.layout, p)
           n == Clamp(t.selected, 1, Len(t.panes) - 1)
<1>2. k \in 1 .. Len(t.panes) /\ t.panes[k] = p
  BY <1>1, PlaceOf
<1>3. p \in Panes /\ p # None
  <2>1. p \in Panes
    BY <1>1, <1>2
  <2> QED
    BY <2>1, Nodes
<1> HIDE DEF k
<1>5. r \in Seq(Panes) /\ Len(r) = Len(t.panes) - 1
  BY <1>1, <1>2, RemovedAt
<1>6. IsInjective(r) /\ ToSet(r) = ToSet(t.panes) \ {p}
  BY <1>1, <1>2, RemovedSet
<1> HIDE DEF r
<1>7. n \in Int /\ (r = <<>> \/ n \in 1 .. Len(r))
  <2>1. Len(r) \in Nat /\ (Len(r) = 0 => r = <<>>)
    <3>1. r \in Seq(Panes)
      BY <1>5
    <3>2. (r # <<>>) => (Len(r) \in Nat \ {0})
      BY <3>1, EmptySeq, Zenon
    <3>3. Len(<<>>) = 0
      OBVIOUS
    <3> QED
      BY <3>2, <3>3
  <2>2. n = Clamp(t.selected, 1, Len(r))
    BY <1>5
  <2> QED
    BY <1>1, <2>1, <2>2, ClampIn
<1>8. Shows(l, (ToSet(t.panes) \ fl) \ {p})
  BY <1>1, <1>3, RemovedShows
<1>9. (ToSet(t.panes) \ fl) \ {p} = ToSet(r) \ (fl \ {p})
  BY <1>6
<1> DEFINE u == Shortened(t, p)
<1>4. u \in Tab /\ u.panes = r /\ u.layout = l /\ u.selected = n
  <2>1. u = [t EXCEPT !.panes = r, !.layout = l, !.selected = n]
    BY DEF Shortened, r, k
  <2>2. l \in Seq(Node)
    BY <1>8 DEF Shows
  <2> HIDE DEF u, l, n
  <2> QED
    BY <1>1, <1>5, <1>7, <2>1, <2>2 DEF Tab
<1> HIDE DEF l, u, n
<1>10. TabSound(u, fl \ {p})
  BY <1>4, <1>5, <1>6, <1>7, <1>8, <1>9 DEF TabSound
<1> QED
  BY <1>4, <1>6, <1>10 DEF u
LEMMA RaisedSound ==
  ASSUME NEW t, TabSound(t, floating), NEW p \in ToSet(t.panes)
  PROVE  LET r == Append(RemoveAt(t.panes, Place(t.panes, p)), p)
             u == [t EXCEPT !.panes = r, !.selected = Len(r)]
         IN  TabSound(u, floating) /\ ToSet(u.panes) = ToSet(t.panes)
<1>1. /\ t \in Tab
      /\ t.panes \in Seq(Panes) /\ IsInjective(t.panes) /\ t.selected \in Int /\ Shows(t.layout, ToSet(t.panes) \ floating)
  BY TabFields
<1> DEFINE k == Place(t.panes, p)
           q == RemoveAt(t.panes, k)
           r == Append(q, p)
           n == Len(r)
           u == [t EXCEPT !.panes = r, !.selected = n]
<1>2. k \in 1 .. Len(t.panes) /\ t.panes[k] = p
  BY <1>1, PlaceOf
<1>3. p \in Panes
  BY <1>1, <1>2
<1> HIDE DEF k
<1>4. q \in Seq(Panes)
  BY <1>1, <1>2, RemovedAt
<1>5. IsInjective(q) /\ ToSet(q) = ToSet(t.panes) \ {p}
  BY <1>1, <1>2, RemovedSet
<1> HIDE DEF q
<1>6. r \in Seq(Panes) /\ n = Len(q) + 1 /\ Len(q) \in Nat
  BY <1>3, <1>4, AppendSet
<1>7. ToSet(r) = ToSet(q) \cup {p} /\ (IsInjective(q) /\ p \notin ToSet(q) => IsInjective(r))
  BY <1>3, <1>4, AppendSet
<1>8. ToSet(r) = ToSet(t.panes) /\ IsInjective(r)
  BY <1>5, <1>7
<1>9. n \in Int /\ n \in 1 .. Len(r)
  BY <1>6
<1> HIDE DEF r, n
<1>10. u \in Tab /\ u.panes = r /\ u.layout = t.layout /\ u.selected = n
  BY <1>1, <1>6, <1>9 DEF Tab
<1> HIDE DEF u
<1>11. TabSound(u, floating)
  BY <1>1, <1>8, <1>9, <1>10 DEF TabSound
<1> QED
  BY <1>8, <1>10, <1>11 DEF u, r, n, q, k

LEMMA SelectedSound ==
  ASSUME NEW fl, NEW t, TabSound(t, fl), NEW n \in 1 .. Len(t.panes)
  PROVE  TabSound([t EXCEPT !.selected = n], fl) /\ ToSet([t EXCEPT !.selected = n].panes) = ToSet(t.panes)
<1> DEFINE u == [t EXCEPT !.selected = n]
<1>1. u \in Tab /\ u.panes = t.panes /\ u.layout = t.layout /\ u.selected = n
  BY DEF TabSound, Tab
<1> HIDE DEF u
<1>2. TabSound(u, fl) /\ ToSet(u.panes) = ToSet(t.panes)
  BY <1>1 DEF TabSound
<1> QED
  BY <1>2 DEF u

LEMMA LayoutSound ==
  ASSUME NEW fl, NEW t, TabSound(t, fl), NEW l, Shows(l, ToSet(t.panes) \ fl)
  PROVE  TabSound([t EXCEPT !.layout = l], fl) /\ ToSet([t EXCEPT !.layout = l].panes) = ToSet(t.panes)
<1> DEFINE u == [t EXCEPT !.layout = l]
<1>1. u \in Tab /\ u.panes = t.panes /\ u.layout = l /\ u.selected = t.selected
  BY DEF TabSound, Tab, Shows
<1> HIDE DEF u
<1>2. TabSound(u, fl) /\ ToSet(u.panes) = ToSet(t.panes)
  BY <1>1 DEF TabSound
<1> QED
  BY <1>2 DEF u

(* What floats elsewhere does not matter to a tab.                         *)
LEMMA TabElsewhere ==
  ASSUME NEW fl, NEW fm, NEW t, TabSound(t, fl), \A p \in ToSet(t.panes) : p \in fl <=> p \in fm
  PROVE  TabSound(t, fm)
<1>1. ToSet(t.panes) \ fl = ToSet(t.panes) \ fm
  OBVIOUS
<1> QED
  BY <1>1 DEF TabSound

-----------------------------------------------------------------------------
(* Workspaces.                                                             *)
Space == [id : Spaces, tabs : Seq(Tab), active : Int]
Of(s) == UNION {ToSet(s.tabs[j].panes) : j \in DOMAIN s.tabs}

TabsSound(tabs, fl) ==
    /\ tabs \in Seq(Tab)
    /\ \A j \in 1 .. Len(tabs) : TabSound(tabs[j], fl)
    /\ \A j, k \in 1 .. Len(tabs) : j # k => ToSet(tabs[j].panes) \cap ToSet(tabs[k].panes) = {}

SpaceSound(s, fl) ==
    /\ s \in Space
    /\ TabsSound(s.tabs, fl)
    /\ s.active \in 1 .. Len(s.tabs)

In(tabs) == UNION {ToSet(tabs[j].panes) : j \in 1 .. Len(tabs)}

LEMMA InTabs == ASSUME NEW tabs, NEW p PROVE p \in In(tabs) <=> \E j \in 1 .. Len(tabs) : p \in ToSet(tabs[j].panes)
  BY DEF In

LEMMA OfIn == ASSUME NEW T, NEW s, s.tabs \in Seq(T) PROVE Of(s) = In(s.tabs)
<1>1. DOMAIN s.tabs = 1 .. Len(s.tabs)
  OBVIOUS
<1> QED
  BY <1>1 DEF Of, In

Put(list, j, x) == [list EXCEPT ![j] = x]
TabsApart(tabs, j, t, fl, fm) ==
    \A k \in 1 .. Len(tabs) \ {j} : /\ ToSet(t.panes) \cap ToSet(tabs[k].panes) = {}
                                    /\ \A p \in ToSet(tabs[k].panes) : p \in fl <=> p \in fm

LEMMA TabsReplaced ==
  ASSUME NEW fl, NEW fm, NEW tabs, TabsSound(tabs, fl), NEW j \in 1 .. Len(tabs), NEW t, TabSound(t, fm),
         TabsApart(tabs, j, t, fl, fm)
  PROVE  /\ TabsSound(Put(tabs, j, t), fm) /\ Len(Put(tabs, j, t)) = Len(tabs)
         /\ In(Put(tabs, j, t)) = (In(tabs) \ ToSet(tabs[j].panes)) \cup ToSet(t.panes)
<1> DEFINE r == Put(tabs, j, t)
<1>a. \A k \in 1 .. Len(tabs) \ {j} : /\ ToSet(tabs[k].panes) \cap ToSet(t.panes) = {}
                                       /\ \A p \in ToSet(tabs[k].panes) : p \in fl <=> p \in fm
  BY DEF TabsApart
<1>1. tabs \in Seq(Tab) /\ t \in Tab
  BY DEF TabsSound, TabSound
<1>2. r \in Seq(Tab) /\ Len(r) = Len(tabs) /\ r[j] = t /\ \A k \in 1 .. Len(tabs) \ {j} : r[k] = tabs[k]
  BY <1>1 DEF Put
<1> HIDE DEF r
<1>3. ASSUME NEW k \in 1 .. Len(tabs) PROVE TabSound(r[k], fm)
  <2>1. CASE k = j
    BY <1>2, <2>1
  <2>2. CASE k # j
    <3>1. TabSound(tabs[k], fl) /\ \A p \in ToSet(tabs[k].panes) : p \in fl <=> p \in fm
      BY <1>a, <2>2 DEF TabsSound
    <3>2. TabSound(tabs[k], fm)
      BY <3>1, TabElsewhere
    <3> QED
      BY <1>2, <2>2, <3>2
  <2> QED
    BY <2>1, <2>2
<1>4. ASSUME NEW k \in 1 .. Len(tabs), NEW l \in 1 .. Len(tabs), k # l
      PROVE  ToSet(r[k].panes) \cap ToSet(r[l].panes) = {}
  <2>1. CASE k = j
    BY <1>2, <1>4, <1>a, <2>1
  <2>2. CASE l = j
    BY <1>2, <1>4, <1>a, <2>2
  <2>3. CASE k # j /\ l # j
    BY <1>2, <1>4, <2>3 DEF TabsSound
  <2> QED
    BY <2>1, <2>2, <2>3
<1>5. TabsSound(r, fm)
  BY <1>2, <1>3, <1>4 DEF TabsSound
<1>6. \A p : p \in In(tabs) <=> \E k \in 1 .. Len(tabs) : p \in ToSet(tabs[k].panes)
  BY InTabs
<1>7. \A p : p \in In(r) <=> \E k \in 1 .. Len(tabs) : p \in ToSet(r[k].panes)
  BY <1>2, InTabs
<1>8. ASSUME NEW p \in In(r) PROVE p \in (In(tabs) \ ToSet(tabs[j].panes)) \cup ToSet(t.panes)
  <2>1. PICK k \in 1 .. Len(tabs) : p \in ToSet(r[k].panes)
    BY <1>7
  <2>2. CASE k = j
    BY <1>2, <2>1, <2>2
  <2>3. CASE k # j
    <3>1. p \in ToSet(tabs[k].panes) /\ ToSet(tabs[k].panes) \cap ToSet(tabs[j].panes) = {}
      BY <1>2, <2>1, <2>3 DEF TabsSound
    <3> QED
      BY <1>6, <3>1
  <2> QED
    BY <2>2, <2>3
<1>9. ASSUME NEW p \in (In(tabs) \ ToSet(tabs[j].panes)) \cup ToSet(t.panes) PROVE p \in In(r)
  <2>1. CASE p \in ToSet(t.panes)
    BY <1>2, <1>7, <2>1
  <2>2. CASE p \notin ToSet(t.panes)
    <3>1. PICK k \in 1 .. Len(tabs) : p \in ToSet(tabs[k].panes)
      BY <1>6, <1>9, <2>2
    <3>2. k # j
      BY <1>9, <2>2, <3>1
    <3> QED
      BY <1>2, <1>7, <3>1, <3>2
  <2> QED
    BY <2>1, <2>2
<1>10. In(r) = (In(tabs) \ ToSet(tabs[j].panes)) \cup ToSet(t.panes)
  BY <1>8, <1>9
<1> QED
  BY <1>2, <1>5, <1>10 DEF r

LEMMA TabsElsewhere ==
  ASSUME NEW fl, NEW fm, NEW tabs, TabsSound(tabs, fl), \A p \in In(tabs) : p \in fl <=> p \in fm
  PROVE  TabsSound(tabs, fm)
<1>1. ASSUME NEW j \in 1 .. Len(tabs) PROVE TabSound(tabs[j], fm)
  <2>1. \A p \in ToSet(tabs[j].panes) : p \in fl <=> p \in fm
    BY InTabs
  <2>2. TabSound(tabs[j], fl)
    BY DEF TabsSound
  <2> QED
    BY <2>1, <2>2, TabElsewhere
<1> QED
  BY <1>1 DEF TabsSound

LEMMA TabsAppended ==
  ASSUME NEW fl, NEW tabs, TabsSound(tabs, fl), NEW t, TabSound(t, fl), ToSet(t.panes) \cap In(tabs) = {}
  PROVE  LET r == Append(tabs, t)
         IN  TabsSound(r, fl) /\ Len(r) = Len(tabs) + 1 /\ In(r) = In(tabs) \cup ToSet(t.panes)
<1> DEFINE r == Append(tabs, t)
           n == Len(tabs)
<1>1. tabs \in Seq(Tab) /\ t \in Tab /\ n \in Nat
  BY DEF TabsSound, TabSound
<1>2. r \in Seq(Tab) /\ Len(r) = n + 1 /\ r[n + 1] = t /\ \A k \in 1 .. n : r[k] = tabs[k]
  BY <1>1
<1>3. \A k \in 1 .. n + 1 : k \in 1 .. n \/ k = n + 1
  BY <1>1
<1>4. n + 1 \in 1 .. n + 1 /\ \A k \in 1 .. n : k \in 1 .. n + 1
  BY <1>1
<1> HIDE DEF r
<1>5. \A k \in 1 .. n : ToSet(tabs[k].panes) \cap ToSet(t.panes) = {}
  BY InTabs
<1>6. \A p : p \in In(tabs) <=> \E k \in 1 .. n : p \in ToSet(tabs[k].panes)
  BY InTabs
<1>7. \A p : p \in In(r) <=> \E k \in 1 .. n + 1 : p \in ToSet(r[k].panes)
  BY <1>2, InTabs
<1>8. \A k \in 1 .. n : TabSound(tabs[k], fl)
  BY DEF TabsSound
<1>9. \A k, l \in 1 .. n : k # l => ToSet(tabs[k].panes) \cap ToSet(tabs[l].panes) = {}
  BY DEF TabsSound
<1> HIDE DEF n
<1>10. \A k \in 1 .. n + 1 : TabSound(r[k], fl)
  BY <1>2, <1>3, <1>8
<1>11. ASSUME NEW k \in 1 .. n + 1, NEW l \in 1 .. n + 1, k # l
       PROVE  ToSet(r[k].panes) \cap ToSet(r[l].panes) = {}
  <2>1. CASE k = n + 1
    <3>1. l \in 1 .. n
      BY <1>3, <1>11, <2>1
    <3> QED
      BY <1>2, <1>5, <2>1, <3>1
  <2>2. CASE l = n + 1
    <3>1. k \in 1 .. n
      BY <1>3, <1>11, <2>2
    <3> QED
      BY <1>2, <1>5, <2>2, <3>1
  <2>3. CASE k \in 1 .. n /\ l \in 1 .. n
    BY <1>2, <1>9, <1>11, <2>3
  <2> QED
    BY <1>3, <2>1, <2>2, <2>3
<1>12. TabsSound(r, fl)
  BY <1>2, <1>10, <1>11 DEF TabsSound
<1>13. In(r) = In(tabs) \cup ToSet(t.panes)
  <2>1. ASSUME NEW p \in In(r) PROVE p \in In(tabs) \cup ToSet(t.panes)
    <3>1. PICK k \in 1 .. n + 1 : p \in ToSet(r[k].panes)
      BY <1>7
    <3> QED
      BY <1>2, <1>3, <1>6, <3>1
  <2>2. ASSUME NEW p \in In(tabs) \cup ToSet(t.panes) PROVE p \in In(r)
    <3>1. CASE p \in In(tabs)
      <4>1. PICK k \in 1 .. n : p \in ToSet(tabs[k].panes)
        BY <1>6, <3>1
      <4> QED
        BY <1>2, <1>4, <1>7, <4>1
    <3>2. CASE p \in ToSet(t.panes)
      BY <1>2, <1>4, <1>7, <3>2
    <3> QED
      BY <3>1, <3>2
  <2> QED
    BY <2>1, <2>2
<1> QED
  BY <1>2, <1>12, <1>13 DEF r, n
(* r has the elements of a list at different places.                       *)
Chosen(h, r, list) ==
    /\ \A a \in 1 .. Len(r) : h[a] \in 1 .. Len(list) /\ r[a] = list[h[a]]
    /\ \A a, b \in 1 .. Len(r) : h[a] = h[b] => a = b

LEMMA SelectsChosen ==
  ASSUME NEW T, NEW list \in Seq(T), NEW r \in Seq(T), NEW kept \in SUBSET (1 .. Len(list)), NEW h, Selects(h, r, list, kept)
  PROVE  Chosen(h, r, list)
<1>1. Distinct(h, r)
  BY SelectsSet
<1>2. \A a \in 1 .. Len(r) : h[a] \in 1 .. Len(list) /\ r[a] = list[h[a]]
  BY DEF Selects
<1> QED
  BY <1>1, <1>2 DEF Chosen, Distinct

ChosenBut(h, r, list, k) ==
    /\ Chosen(h, r, list)
    /\ \A a \in 1 .. Len(r) : h[a] # k
    /\ \A i \in 1 .. Len(list) \ {k} : \E a \in 1 .. Len(r) : h[a] = i

LEMMA RemovedChosen ==
  ASSUME NEW T, NEW list \in Seq(T), NEW k \in 1 .. Len(list)
  PROVE  /\ RemoveAt(list, k) \in Seq(T) /\ Len(RemoveAt(list, k)) = Len(list) - 1
         /\ \E h : ChosenBut(h, RemoveAt(list, k), list, k)
<1> DEFINE r == RemoveAt(list, k)
           n == Len(list)
           h == [a \in 1 .. n - 1 |-> IF a < k THEN a ELSE a + 1]
<1>1. r \in Seq(T) /\ Len(r) = n - 1 /\ \A i \in 1 .. n - 1 : r[i] = IF i < k THEN list[i] ELSE list[i + 1]
  BY RemovedAt
<1>2. n \in Nat /\ k \in 1 .. n
  OBVIOUS
<1> HIDE DEF r, n
<1>3. \A a \in 1 .. n - 1 : h[a] \in 1 .. n /\ h[a] # k /\ r[a] = list[h[a]]
  BY <1>1, <1>2
<1>4. \A a, b \in 1 .. n - 1 : h[a] = h[b] => a = b
  BY <1>2
<1>5. ASSUME NEW i \in 1 .. n \ {k} PROVE \E a \in 1 .. n - 1 : h[a] = i
  <2>1. CASE i < k
    <3>1. i \in 1 .. n - 1 /\ h[i] = i
      BY <1>2, <2>1
    <3> QED
      BY <3>1
  <2>2. CASE ~(i < k)
    <3>1. i - 1 \in 1 .. n - 1 /\ h[i - 1] = i
      BY <1>2, <2>2
    <3> QED
      BY <3>1
  <2> QED
    BY <2>1, <2>2
<1> HIDE DEF h
<1>6. Chosen(h, r, list)
  BY <1>1, <1>3, <1>4 DEF Chosen, n
<1>7. /\ \A a \in 1 .. Len(r) : h[a] # k
      /\ \A i \in 1 .. n \ {k} : \E a \in 1 .. Len(r) : h[a] = i
  BY <1>1, <1>3, <1>5
<1>8. ChosenBut(h, r, list, k)
  BY <1>6, <1>7 DEF ChosenBut, n
<1> QED
  BY <1>1, <1>8 DEF r, n

LEMMA TabsChosen ==
  ASSUME NEW fl, NEW tabs, TabsSound(tabs, fl), NEW r \in Seq(Tab), NEW h, Chosen(h, r, tabs)
  PROVE  TabsSound(r, fl)
<1>1. \A a \in 1 .. Len(r) : h[a] \in 1 .. Len(tabs) /\ r[a] = tabs[h[a]]
  BY DEF Chosen
<1>2. \A a \in 1 .. Len(r) : TabSound(r[a], fl)
  BY <1>1 DEF TabsSound
<1>3. ASSUME NEW a \in 1 .. Len(r), NEW b \in 1 .. Len(r), a # b
      PROVE  ToSet(r[a].panes) \cap ToSet(r[b].panes) = {}
  <2>1. h[a] # h[b]
    BY <1>3 DEF Chosen
  <2> QED
    BY <1>1, <2>1 DEF TabsSound
<1> QED
  BY <1>2, <1>3 DEF TabsSound

LEMMA TabsRemoved ==
  ASSUME NEW fl, NEW tabs, TabsSound(tabs, fl), NEW j \in 1 .. Len(tabs)
  PROVE  LET r == RemoveAt(tabs, j)
         IN  TabsSound(r, fl) /\ Len(r) = Len(tabs) - 1 /\ In(r) = In(tabs) \ ToSet(tabs[j].panes)
<1> DEFINE r == RemoveAt(tabs, j)
<1>1. tabs \in Seq(Tab)
  BY DEF TabsSound
<1>a. r \in Seq(Tab) /\ Len(r) = Len(tabs) - 1 /\ \E h : ChosenBut(h, r, tabs, j)
  BY <1>1, RemovedChosen
<1> HIDE DEF r
<1>b. PICK h : ChosenBut(h, r, tabs, j)
  BY <1>a
<1>2. /\ r \in Seq(Tab) /\ Len(r) = Len(tabs) - 1 /\ Chosen(h, r, tabs)
      /\ \A a \in 1 .. Len(r) : h[a] # j
      /\ \A i \in 1 .. Len(tabs) \ {j} : \E a \in 1 .. Len(r) : h[a] = i
  BY <1>a, <1>b DEF ChosenBut
<1>3. TabsSound(r, fl)
  BY <1>2, TabsChosen
<1>4. \A p : p \in In(tabs) <=> \E k \in 1 .. Len(tabs) : p \in ToSet(tabs[k].panes)
  BY InTabs
<1>5. \A p : p \in In(r) <=> \E k \in 1 .. Len(r) : p \in ToSet(r[k].panes)
  BY InTabs
<1>6. \A a \in 1 .. Len(r) : h[a] \in 1 .. Len(tabs) /\ r[a] = tabs[h[a]]
  BY <1>2 DEF Chosen
<1>7. ASSUME NEW p \in In(r) PROVE p \in In(tabs) \ ToSet(tabs[j].panes)
  <2>1. PICK a \in 1 .. Len(r) : p \in ToSet(r[a].panes)
    BY <1>5
  <2>2. h[a] \in 1 .. Len(tabs) /\ h[a] # j /\ p \in ToSet(tabs[h[a]].panes)
    BY <1>2, <1>6, <2>1
  <2>3. ToSet(tabs[h[a]].panes) \cap ToSet(tabs[j].panes) = {}
    BY <2>2 DEF TabsSound
  <2> QED
    BY <1>4, <2>2, <2>3
<1>8. ASSUME NEW p \in In(tabs), p \notin ToSet(tabs[j].panes) PROVE p \in In(r)
  <2>1. PICK i \in 1 .. Len(tabs) : p \in ToSet(tabs[i].panes)
    BY <1>4
  <2>2. i # j
    BY <1>8, <2>1
  <2>3. PICK a \in 1 .. Len(r) : h[a] = i
    BY <1>2, <2>2
  <2> QED
    BY <1>5, <1>6, <2>1, <2>3
<1>9. In(r) = In(tabs) \ ToSet(tabs[j].panes)
  BY <1>7, <1>8
<1> QED
  BY <1>2, <1>3, <1>9 DEF r

-----------------------------------------------------------------------------
(* All workspaces.                                                         *)

SpacesSound(sp, fl) ==
    /\ sp \in Seq(Space)
    /\ \A i \in 1 .. Len(sp) : SpaceSound(sp[i], fl)
    /\ \A i, k \in 1 .. Len(sp) : i # k => Of(sp[i]) \cap Of(sp[k]) = {}

AllOf(sp) == UNION {Of(sp[i]) : i \in 1 .. Len(sp)}

LEMMA InSpaces == ASSUME NEW sp, NEW p PROVE p \in AllOf(sp) <=> \E i \in 1 .. Len(sp) : p \in Of(sp[i])
  BY DEF AllOf

LEMMA SpaceElsewhere ==
  ASSUME NEW fl, NEW fm, NEW s, SpaceSound(s, fl), \A p \in Of(s) : p \in fl <=> p \in fm
  PROVE  SpaceSound(s, fm)
<1>1. TabsSound(s.tabs, fl) /\ s.tabs \in Seq(Tab)
  BY DEF SpaceSound, TabsSound
<1>2. Of(s) = In(s.tabs)
  BY <1>1, OfIn
<1>3. \A p \in In(s.tabs) : p \in fl <=> p \in fm
  BY <1>2
<1>4. TabsSound(s.tabs, fm)
  BY <1>1, <1>3, TabsElsewhere
<1> QED
  BY <1>4 DEF SpaceSound

LEMMA LiveAll == ASSUME NEW T, NEW sp \in Seq(T) PROVE Live(sp) = AllOf(sp)
<1>1. DOMAIN sp = 1 .. Len(sp)
  OBVIOUS
<1>2. \A p : p \in Live(sp) <=> \E i \in 1 .. Len(sp) : p \in Of(sp[i])
  BY <1>1 DEF Live, ToSet, Of
<1>3. \A p : p \in Live(sp) <=> p \in AllOf(sp)
  BY <1>2, InSpaces
<1> QED
  BY <1>3, Zenon

LEMMA LiveOne == ASSUME NEW s PROVE Live(<<s>>) = Of(s)
<1>1. ToSet(<<s>>) = {s}
  BY DEF ToSet
<1> QED
  BY <1>1 DEF Live, Of

SpacesApart(sp, j, t, fl, fm) ==
    \A k \in 1 .. Len(sp) \ {j} : /\ Of(t) \cap Of(sp[k]) = {}
                                    /\ \A p \in Of(sp[k]) : p \in fl <=> p \in fm

LEMMA SpacesReplaced ==
  ASSUME NEW fl, NEW fm, NEW sp, SpacesSound(sp, fl), NEW j \in 1 .. Len(sp), NEW t, SpaceSound(t, fm),
         SpacesApart(sp, j, t, fl, fm)
  PROVE  /\ SpacesSound(Put(sp, j, t), fm) /\ Len(Put(sp, j, t)) = Len(sp)
         /\ AllOf(Put(sp, j, t)) = (AllOf(sp) \ Of(sp[j])) \cup Of(t)
<1> DEFINE r == Put(sp, j, t)
<1>a. \A k \in 1 .. Len(sp) \ {j} : /\ Of(sp[k]) \cap Of(t) = {}
                                       /\ \A p \in Of(sp[k]) : p \in fl <=> p \in fm
  BY DEF SpacesApart
<1>1. sp \in Seq(Space) /\ t \in Space
  BY DEF SpacesSound, SpaceSound
<1>2. r \in Seq(Space) /\ Len(r) = Len(sp) /\ r[j] = t /\ \A k \in 1 .. Len(sp) \ {j} : r[k] = sp[k]
  BY <1>1 DEF Put
<1> HIDE DEF r
<1>3. ASSUME NEW k \in 1 .. Len(sp) PROVE SpaceSound(r[k], fm)
  <2>1. CASE k = j
    BY <1>2, <2>1
  <2>2. CASE k # j
    <3>1. SpaceSound(sp[k], fl) /\ \A p \in Of(sp[k]) : p \in fl <=> p \in fm
      BY <1>a, <2>2 DEF SpacesSound
    <3>2. SpaceSound(sp[k], fm)
      BY <3>1, SpaceElsewhere
    <3> QED
      BY <1>2, <2>2, <3>2
  <2> QED
    BY <2>1, <2>2
<1>4. ASSUME NEW k \in 1 .. Len(sp), NEW l \in 1 .. Len(sp), k # l
      PROVE  Of(r[k]) \cap Of(r[l]) = {}
  <2>1. CASE k = j
    BY <1>2, <1>4, <1>a, <2>1
  <2>2. CASE l = j
    BY <1>2, <1>4, <1>a, <2>2
  <2>3. CASE k # j /\ l # j
    BY <1>2, <1>4, <2>3 DEF SpacesSound
  <2> QED
    BY <2>1, <2>2, <2>3
<1>5. SpacesSound(r, fm)
  BY <1>2, <1>3, <1>4 DEF SpacesSound
<1>6. \A p : p \in AllOf(sp) <=> \E k \in 1 .. Len(sp) : p \in Of(sp[k])
  BY InSpaces
<1>7. \A p : p \in AllOf(r) <=> \E k \in 1 .. Len(sp) : p \in Of(r[k])
  BY <1>2, InSpaces
<1>8. ASSUME NEW p \in AllOf(r) PROVE p \in (AllOf(sp) \ Of(sp[j])) \cup Of(t)
  <2>1. PICK k \in 1 .. Len(sp) : p \in Of(r[k])
    BY <1>7
  <2>2. CASE k = j
    BY <1>2, <2>1, <2>2
  <2>3. CASE k # j
    <3>1. p \in Of(sp[k]) /\ Of(sp[k]) \cap Of(sp[j]) = {}
      BY <1>2, <2>1, <2>3 DEF SpacesSound
    <3> QED
      BY <1>6, <3>1
  <2> QED
    BY <2>2, <2>3
<1>9. ASSUME NEW p \in (AllOf(sp) \ Of(sp[j])) \cup Of(t) PROVE p \in AllOf(r)
  <2>1. CASE p \in Of(t)
    BY <1>2, <1>7, <2>1
  <2>2. CASE p \notin Of(t)
    <3>1. PICK k \in 1 .. Len(sp) : p \in Of(sp[k])
      BY <1>6, <1>9, <2>2
    <3>2. k # j
      BY <1>9, <2>2, <3>1
    <3> QED
      BY <1>2, <1>7, <3>1, <3>2
  <2> QED
    BY <2>1, <2>2
<1>10. AllOf(r) = (AllOf(sp) \ Of(sp[j])) \cup Of(t)
  BY <1>8, <1>9
<1> QED
  BY <1>2, <1>5, <1>10 DEF r

LEMMA SpacesAppended ==
  ASSUME NEW fl, NEW sp, SpacesSound(sp, fl), NEW t, SpaceSound(t, fl), Of(t) \cap AllOf(sp) = {}
  PROVE  LET r == Append(sp, t)
         IN  SpacesSound(r, fl) /\ Len(r) = Len(sp) + 1 /\ AllOf(r) = AllOf(sp) \cup Of(t)
<1> DEFINE r == Append(sp, t)
           n == Len(sp)
<1>1. sp \in Seq(Space) /\ t \in Space /\ n \in Nat
  BY DEF SpacesSound, SpaceSound
<1>2. r \in Seq(Space) /\ Len(r) = n + 1 /\ r[n + 1] = t /\ \A k \in 1 .. n : r[k] = sp[k]
  BY <1>1
<1>3. \A k \in 1 .. n + 1 : k \in 1 .. n \/ k = n + 1
  BY <1>1
<1>4. n + 1 \in 1 .. n + 1 /\ \A k \in 1 .. n : k \in 1 .. n + 1
  BY <1>1
<1> HIDE DEF r
<1>5. \A k \in 1 .. n : Of(sp[k]) \cap Of(t) = {}
  BY InSpaces
<1>6. \A p : p \in AllOf(sp) <=> \E k \in 1 .. n : p \in Of(sp[k])
  BY InSpaces
<1>7. \A p : p \in AllOf(r) <=> \E k \in 1 .. n + 1 : p \in Of(r[k])
  BY <1>2, InSpaces
<1>8. \A k \in 1 .. n : SpaceSound(sp[k], fl)
  BY DEF SpacesSound
<1>9. \A k, l \in 1 .. n : k # l => Of(sp[k]) \cap Of(sp[l]) = {}
  BY DEF SpacesSound
<1> HIDE DEF n
<1>10. \A k \in 1 .. n + 1 : SpaceSound(r[k], fl)
  BY <1>2, <1>3, <1>8
<1>11. ASSUME NEW k \in 1 .. n + 1, NEW l \in 1 .. n + 1, k # l
       PROVE  Of(r[k]) \cap Of(r[l]) = {}
  <2>1. CASE k = n + 1
    <3>1. l \in 1 .. n
      BY <1>3, <1>11, <2>1
    <3> QED
      BY <1>2, <1>5, <2>1, <3>1
  <2>2. CASE l = n + 1
    <3>1. k \in 1 .. n
      BY <1>3, <1>11, <2>2
    <3> QED
      BY <1>2, <1>5, <2>2, <3>1
  <2>3. CASE k \in 1 .. n /\ l \in 1 .. n
    BY <1>2, <1>9, <1>11, <2>3
  <2> QED
    BY <1>3, <2>1, <2>2, <2>3
<1>12. SpacesSound(r, fl)
  BY <1>2, <1>10, <1>11 DEF SpacesSound
<1>13. AllOf(r) = AllOf(sp) \cup Of(t)
  <2>1. ASSUME NEW p \in AllOf(r) PROVE p \in AllOf(sp) \cup Of(t)
    <3>1. PICK k \in 1 .. n + 1 : p \in Of(r[k])
      BY <1>7
    <3> QED
      BY <1>2, <1>3, <1>6, <3>1
  <2>2. ASSUME NEW p \in AllOf(sp) \cup Of(t) PROVE p \in AllOf(r)
    <3>1. CASE p \in AllOf(sp)
      <4>1. PICK k \in 1 .. n : p \in Of(sp[k])
        BY <1>6, <3>1
      <4> QED
        BY <1>2, <1>4, <1>7, <4>1
    <3>2. CASE p \in Of(t)
      BY <1>2, <1>4, <1>7, <3>2
    <3> QED
      BY <3>1, <3>2
  <2> QED
    BY <2>1, <2>2
<1> QED
  BY <1>2, <1>12, <1>13 DEF r, n

LEMMA SpacesChosen ==
  ASSUME NEW fl, NEW sp, SpacesSound(sp, fl), NEW r \in Seq(Space), NEW h, Chosen(h, r, sp)
  PROVE  SpacesSound(r, fl)
<1>1. \A a \in 1 .. Len(r) : h[a] \in 1 .. Len(sp) /\ r[a] = sp[h[a]]
  BY DEF Chosen
<1>2. \A a \in 1 .. Len(r) : SpaceSound(r[a], fl)
  BY <1>1 DEF SpacesSound
<1>3. ASSUME NEW a \in 1 .. Len(r), NEW b \in 1 .. Len(r), a # b
      PROVE  Of(r[a]) \cap Of(r[b]) = {}
  <2>1. h[a] # h[b]
    BY <1>3 DEF Chosen
  <2> QED
    BY <1>1, <2>1 DEF SpacesSound
<1> QED
  BY <1>2, <1>3 DEF SpacesSound

LEMMA SpacesRemoved ==
  ASSUME NEW fl, NEW sp, SpacesSound(sp, fl), NEW j \in 1 .. Len(sp)
  PROVE  LET r == RemoveAt(sp, j)
         IN  SpacesSound(r, fl) /\ Len(r) = Len(sp) - 1 /\ AllOf(r) = AllOf(sp) \ Of(sp[j])
<1> DEFINE r == RemoveAt(sp, j)
<1>1. sp \in Seq(Space)
  BY DEF SpacesSound
<1>a. r \in Seq(Space) /\ Len(r) = Len(sp) - 1 /\ \E h : ChosenBut(h, r, sp, j)
  BY <1>1, RemovedChosen
<1> HIDE DEF r
<1>b. PICK h : ChosenBut(h, r, sp, j)
  BY <1>a
<1>2. /\ r \in Seq(Space) /\ Len(r) = Len(sp) - 1 /\ Chosen(h, r, sp)
      /\ \A a \in 1 .. Len(r) : h[a] # j
      /\ \A i \in 1 .. Len(sp) \ {j} : \E a \in 1 .. Len(r) : h[a] = i
  BY <1>a, <1>b DEF ChosenBut
<1>3. SpacesSound(r, fl)
  BY <1>2, SpacesChosen
<1>4. \A p : p \in AllOf(sp) <=> \E k \in 1 .. Len(sp) : p \in Of(sp[k])
  BY InSpaces
<1>5. \A p : p \in AllOf(r) <=> \E k \in 1 .. Len(r) : p \in Of(r[k])
  BY InSpaces
<1>6. \A a \in 1 .. Len(r) : h[a] \in 1 .. Len(sp) /\ r[a] = sp[h[a]]
  BY <1>2 DEF Chosen
<1>7. ASSUME NEW p \in AllOf(r) PROVE p \in AllOf(sp) \ Of(sp[j])
  <2>1. PICK a \in 1 .. Len(r) : p \in Of(r[a])
    BY <1>5
  <2>2. h[a] \in 1 .. Len(sp) /\ h[a] # j /\ p \in Of(sp[h[a]])
    BY <1>2, <1>6, <2>1
  <2>3. Of(sp[h[a]]) \cap Of(sp[j]) = {}
    BY <2>2 DEF SpacesSound
  <2> QED
    BY <1>4, <2>2, <2>3
<1>8. ASSUME NEW p \in AllOf(sp), p \notin Of(sp[j]) PROVE p \in AllOf(r)
  <2>1. PICK i \in 1 .. Len(sp) : p \in Of(sp[i])
    BY <1>4
  <2>2. i # j
    BY <1>8, <2>1
  <2>3. PICK a \in 1 .. Len(r) : h[a] = i
    BY <1>2, <2>2
  <2> QED
    BY <1>5, <1>6, <2>1, <2>3
<1>9. AllOf(r) = AllOf(sp) \ Of(sp[j])
  BY <1>7, <1>8
<1> QED
  BY <1>2, <1>3, <1>9 DEF r
-----------------------------------------------------------------------------
(* What the handlers do to a workspace.                                    *)

LEMMA SpaceFields ==
  ASSUME NEW fl, NEW s, SpaceSound(s, fl)
  PROVE  /\ s \in Space /\ s.id \in Spaces /\ s.tabs \in Seq(Tab) /\ TabsSound(s.tabs, fl) /\ s.active \in 1 .. Len(s.tabs)
         /\ Of(s) = In(s.tabs) /\ Len(s.tabs) \in Nat
         /\ \A j \in 1 .. Len(s.tabs) : TabSound(s.tabs[j], fl) /\ ToSet(s.tabs[j].panes) \subseteq Of(s)
<1>1. s \in Space /\ s.tabs \in Seq(Tab) /\ s.id \in Spaces
  BY DEF SpaceSound, TabsSound, Space
<1>2. Of(s) = In(s.tabs)
  BY <1>1, OfIn
<1>3. \A j \in 1 .. Len(s.tabs) : ToSet(s.tabs[j].panes) \subseteq Of(s)
  BY <1>2, InTabs
<1>4. Len(s.tabs) \in Nat
  BY <1>1
<1> QED
  BY <1>1, <1>2, <1>3, <1>4 DEF SpaceSound, TabsSound

LEMMA TabOfIn ==
  ASSUME NEW fl, NEW s, SpaceSound(s, fl), NEW p \in Of(s)
  PROVE  TabOf(s, p) \in 1 .. Len(s.tabs) /\ p \in ToSet(s.tabs[TabOf(s, p)].panes)
<1>1. DOMAIN s.tabs = 1 .. Len(s.tabs)
  BY SpaceFields
<1>2. \E j \in 1 .. Len(s.tabs) : p \in ToSet(s.tabs[j].panes)
  BY <1>1 DEF Of
<1> QED
  BY <1>1, <1>2 DEF TabOf

(* A tab is replaced by one with panes of its own, while what floats       *)
(* changes for these panes only.                                           *)
Alone(s, j, t, fl, fm) ==
    \A p \in Of(s) \ ToSet(s.tabs[j].panes) : p \notin ToSet(t.panes) /\ (p \in fl <=> p \in fm)

Became(r, s, j, t) == r \in Space /\ r.tabs = Put(s.tabs, j, t) /\ r.active \in 1 .. Len(s.tabs)

LEMMA SpaceTab ==
  ASSUME NEW fl, NEW fm, NEW s, SpaceSound(s, fl), NEW j \in 1 .. Len(s.tabs), NEW t, TabSound(t, fm), Alone(s, j, t, fl, fm),
         NEW r, Became(r, s, j, t)
  PROVE  SpaceSound(r, fm) /\ Of(r) = (Of(s) \ ToSet(s.tabs[j].panes)) \cup ToSet(t.panes)
<1>1. s.tabs \in Seq(Tab) /\ TabsSound(s.tabs, fl) /\ Of(s) = In(s.tabs)
  BY SpaceFields
<1> DEFINE tabs == s.tabs
           q == Put(tabs, j, t)
<1>2. ASSUME NEW k \in 1 .. Len(tabs) \ {j}
      PROVE  /\ ToSet(tabs[k].panes) \cap ToSet(t.panes) = {}
             /\ \A p \in ToSet(tabs[k].panes) : p \in fl <=> p \in fm
  <2>1. ToSet(tabs[k].panes) \subseteq Of(s)
    BY SpaceFields
  <2>2. ToSet(tabs[k].panes) \cap ToSet(tabs[j].panes) = {}
    BY <1>1 DEF TabsSound
  <2> QED
    BY <2>1, <2>2 DEF Alone
<1> HIDE DEF tabs
<1>3. TabsSound(q, fm) /\ Len(q) = Len(tabs) /\ In(q) = (In(tabs) \ ToSet(tabs[j].panes)) \cup ToSet(t.panes)
  <2>1. TabsSound(tabs, fl) /\ j \in 1 .. Len(tabs)
    BY <1>1 DEF tabs
  <2>2. TabsApart(tabs, j, t, fl, fm)
    BY <1>2 DEF TabsApart
  <2> QED
    BY <2>1, <2>2, TabsReplaced
<1>4. r.tabs = q /\ r.tabs \in Seq(Tab)
  BY <1>3 DEF tabs, TabsSound, Became
<1>5. Of(r) = In(r.tabs)
  BY <1>4, OfIn
<1> HIDE DEF q
<1>6. SpaceSound(r, fm)
  BY <1>3, <1>4 DEF SpaceSound, tabs, Became
<1>7. Of(r) = (Of(s) \ ToSet(s.tabs[j].panes)) \cup ToSet(t.panes)
  BY <1>1, <1>3, <1>4, <1>5 DEF tabs
<1> QED
  BY <1>6, <1>7

PutTab(s, j, t) == [s EXCEPT !.tabs[j] = t]
PutActive(s, j, t) == [s EXCEPT !.active = j, !.tabs[j] = t]

LEMMA TabPut ==
  ASSUME NEW fl, NEW s, SpaceSound(s, fl), NEW j \in 1 .. Len(s.tabs), NEW t \in Tab
  PROVE  LET r == PutTab(s, j, t) IN
         r \in Space /\ r.tabs = Put(s.tabs, j, t) /\ r.active = s.active /\ r.id = s.id
<1>1. s \in Space /\ s.tabs \in Seq(Tab)
  BY SpaceFields
<1>2. [s.tabs EXCEPT ![j] = t] \in Seq(Tab)
  BY <1>1
<1> QED
  BY <1>1, <1>2 DEF Space, Put, PutTab

LEMMA TabPutActive ==
  ASSUME NEW fl, NEW s, SpaceSound(s, fl), NEW j \in 1 .. Len(s.tabs), NEW t \in Tab
  PROVE  LET r == PutActive(s, j, t) IN
         r \in Space /\ r.tabs = Put(s.tabs, j, t) /\ r.active = j /\ r.id = s.id
<1>1. s \in Space /\ s.tabs \in Seq(Tab)
  BY SpaceFields
<1>2. [s.tabs EXCEPT ![j] = t] \in Seq(Tab)
  BY <1>1
<1>3. j \in Int
  BY SpaceFields
<1> QED
  BY <1>1, <1>2, <1>3 DEF Space, Put, PutActive

LEMMA FocusedSound ==
  ASSUME NEW s, SpaceSound(s, floating), NEW p
  PROVE  SpaceSound(Focused(s, p), floating) /\ Of(Focused(s, p)) = Of(s)
<1>1. Live(<<s>>) = Of(s)
  BY LiveOne
<1>2. CASE p \notin Of(s)
  BY <1>1, <1>2 DEF Focused
<1>3. CASE p \in Of(s)
  <2> DEFINE j == TabOf(s, p)
             t == s.tabs[j]
             raised == Append(RemoveAt(t.panes, Place(t.panes, p)), p)
             u == IF p \in floating THEN [t EXCEPT !.panes = raised, !.selected = Len(raised)]
                  ELSE [t EXCEPT !.selected = Place(t.panes, p)]
             r == PutActive(s, j, u)
  <2>1. Focused(s, p) = r
    BY <1>1, <1>3, Zenon DEF Focused, PutActive
  <2>2. j \in 1 .. Len(s.tabs) /\ p \in ToSet(t.panes)
    BY <1>3, TabOfIn
  <2>3. TabSound(t, floating) /\ ToSet(t.panes) \subseteq Of(s)
    BY <2>2, SpaceFields
  <2> HIDE DEF j, t
  <2>4. TabSound(u, floating) /\ ToSet(u.panes) = ToSet(t.panes)
    <3>1. CASE p \in floating
      <4>1. TabSound([t EXCEPT !.panes = raised, !.selected = Len(raised)], floating)
            /\ ToSet([t EXCEPT !.panes = raised, !.selected = Len(raised)].panes) = ToSet(t.panes)
        BY <2>2, <2>3, RaisedSound
      <4> QED
        BY <3>1, <4>1
    <3>2. CASE p \notin floating
      <4>1. Place(t.panes, p) \in 1 .. Len(t.panes)
        BY <2>2, <2>3, TabFields, PlaceOf
      <4>2. TabSound([t EXCEPT !.selected = Place(t.panes, p)], floating)
            /\ ToSet([t EXCEPT !.selected = Place(t.panes, p)].panes) = ToSet(t.panes)
        BY <2>3, <4>1, SelectedSound
      <4> QED
        BY <3>2, <4>2
    <3> QED
      BY <3>1, <3>2
  <2> HIDE DEF u
  <2>5. u \in Tab
    BY <2>4 DEF TabSound
  <2>6. r \in Space /\ r.tabs = Put(s.tabs, j, u) /\ r.active = j
    BY <2>2, <2>5, TabPutActive
  <2> HIDE DEF r
  <2>b. Became(r, s, j, u)
    BY <2>2, <2>6 DEF Became
  <2>7. SpaceSound(r, floating) /\ Of(r) = (Of(s) \ ToSet(s.tabs[j].panes)) \cup ToSet(u.panes)
    <3>1. Alone(s, j, u, floating, floating)
      BY <2>4 DEF t, Alone
    <3> QED
      BY <2>2, <2>4, <2>b, <3>1, SpaceTab
  <2>8. Of(r) = Of(s)
    BY <2>3, <2>4, <2>7 DEF t
  <2> QED
    BY <2>1, <2>7, <2>8
<1> QED
  BY <1>2, <1>3

LEMMA WithoutTabSound ==
  ASSUME NEW fl, NEW s, SpaceSound(s, fl), NEW j \in 1 .. Len(s.tabs), Len(s.tabs) > 1
  PROVE  SpaceSound(WithoutTab(s, j), fl) /\ Of(WithoutTab(s, j)) = Of(s) \ ToSet(s.tabs[j].panes)
<1>1. s \in Space /\ s.tabs \in Seq(Tab) /\ TabsSound(s.tabs, fl) /\ Of(s) = In(s.tabs) /\ s.active \in Int
  BY SpaceFields DEF Space
<1> DEFINE q == RemoveAt(s.tabs, j)
           n == Clamp(s.active, 1, Len(s.tabs) - 1)
           r == WithoutTab(s, j)
<1>2. TabsSound(q, fl) /\ Len(q) = Len(s.tabs) - 1 /\ In(q) = In(s.tabs) \ ToSet(s.tabs[j].panes)
  BY <1>1, TabsRemoved
<1>3. n \in Int /\ n \in 1 .. Len(q)
  <2>1. Len(s.tabs) - 1 \in Nat /\ Len(s.tabs) - 1 # 0
    <3> DEFINE l == Len(s.tabs)
    <3>1. l \in Nat /\ l > 1
      BY SpaceFields
    <3> HIDE DEF l
    <3>2. l - 1 \in Nat /\ l - 1 # 0
      BY <3>1
    <3> QED
      BY <3>2 DEF l
  <2>2. n = Clamp(s.active, 1, Len(q))
    BY <1>2
  <2>3. Len(q) \in Nat /\ Len(q) # 0
    BY <1>2, <2>1
  <2> HIDE DEF n, q
  <2> QED
    BY <1>1, <2>2, <2>3, ClampIn
<1>4. r = [s EXCEPT !.tabs = q, !.active = n]
  BY DEF WithoutTab
<1> HIDE DEF q, n, r
<1>5. r \in Space /\ r.tabs = q /\ r.active = n
  BY <1>1, <1>2, <1>3, <1>4 DEF Space, TabsSound
<1>6. SpaceSound(r, fl)
  BY <1>2, <1>3, <1>5 DEF SpaceSound
<1>7. Of(r) = In(q)
  BY <1>5, <1>6, SpaceFields
<1> QED
  BY <1>1, <1>2, <1>6, <1>7 DEF r

LEMMA WithoutPaneSound ==
  ASSUME NEW fl, NEW s, SpaceSound(s, fl), NEW p \in Of(s)
  PROVE  SpaceSound(WithoutPane(s, p), fl \ {p}) /\ Of(WithoutPane(s, p)) = Of(s) \ {p}
<1> DEFINE j == TabOf(s, p)
           t == Shortened(s.tabs[j], p)
<1>1. j \in 1 .. Len(s.tabs) /\ p \in ToSet(s.tabs[j].panes)
  BY TabOfIn
<1>2. TabSound(s.tabs[j], fl) /\ ToSet(s.tabs[j].panes) \subseteq Of(s) /\ s.active \in 1 .. Len(s.tabs)
  BY <1>1, SpaceFields
<1>3. WithoutPane(s, p) = IF t.panes = <<>> /\ Len(s.tabs) > 1 THEN WithoutTab(s, j) ELSE [s EXCEPT !.tabs[j] = t]
  BY DEF WithoutPane
<1> HIDE DEF j
<1>4. TabSound(t, fl \ {p}) /\ ToSet(t.panes) = ToSet(s.tabs[j].panes) \ {p}
  BY <1>1, <1>2, ShortenedSound
<1> HIDE DEF t
<1>5. CASE t.panes = <<>> /\ Len(s.tabs) > 1
  <2>1. SpaceSound(WithoutTab(s, j), fl) /\ Of(WithoutTab(s, j)) = Of(s) \ ToSet(s.tabs[j].panes)
    BY <1>1, <1>5, WithoutTabSound
  <2>2. ToSet(s.tabs[j].panes) = {p}
    <3>1. ToSet(<<>>) = {}
      BY DEF ToSet
    <3> QED
      BY <1>1, <1>4, <1>5, <3>1
  <2>3. SpaceSound(WithoutTab(s, j), fl \ {p})
    <3>1. \A q \in Of(WithoutTab(s, j)) : q \in fl <=> q \in fl \ {p}
      BY <2>1, <2>2
    <3> QED
      BY <2>1, <3>1, SpaceElsewhere
  <2> QED
    BY <1>3, <1>5, <2>1, <2>2, <2>3
<1>6. CASE ~(t.panes = <<>> /\ Len(s.tabs) > 1)
  <2> DEFINE r == PutTab(s, j, t)
  <2>1. t \in Tab
    BY <1>4 DEF TabSound
  <2>2. r \in Space /\ r.tabs = Put(s.tabs, j, t) /\ r.active = s.active
    BY <1>1, <2>1, TabPut
  <2> HIDE DEF r
  <2>b. Became(r, s, j, t)
    BY <1>2, <2>2 DEF Became
  <2>3. Alone(s, j, t, fl, fl \ {p})
    BY <1>1, <1>4 DEF Alone
  <2>5. SpaceSound(r, fl \ {p}) /\ Of(r) = (Of(s) \ ToSet(s.tabs[j].panes)) \cup ToSet(t.panes)
    <3> DEFINE fm == fl \ {p}
    <3>1. TabSound(t, fm) /\ Alone(s, j, t, fl, fm)
      BY <1>4, <2>3
    <3> HIDE DEF fm
    <3>2. SpaceSound(r, fm) /\ Of(r) = (Of(s) \ ToSet(s.tabs[j].panes)) \cup ToSet(t.panes)
      BY <1>1, <2>b, <3>1, SpaceTab
    <3> QED
      BY <3>2 DEF fm
  <2>6. Of(r) = Of(s) \ {p}
    BY <1>1, <1>2, <1>4, <2>5
  <2> QED
    BY <1>3, <1>6, <2>5, <2>6 DEF r, PutTab
<1> QED
  BY <1>5, <1>6

-----------------------------------------------------------------------------
(* The state file.                                                         *)
SavedTree == {n \in Seq(SavedNode) : IsTree(n)}
SavedTab == [panes : Seq(Panes), layout : SavedTree]
SavedSpace == [id : Spaces, tabs : Seq(SavedTab)]

SavedSound(s) ==
    /\ s \in SavedSpace
    /\ \A j \in 1 .. Len(s.tabs) : IsInjective(s.tabs[j].panes)
    /\ \A j, k \in 1 .. Len(s.tabs) : j # k => ToSet(s.tabs[j].panes) \cap ToSet(s.tabs[k].panes) = {}

FileSound(f) ==
    /\ f \in Seq(SavedSpace)
    /\ \A i \in 1 .. Len(f) : SavedSound(f[i])
    /\ \A i, k \in 1 .. Len(f) : i # k => Of(f[i]) \cap Of(f[k]) = {}

LEMMA SavedTabSound ==
  ASSUME NEW fl, NEW t, TabSound(t, fl)
  PROVE  /\ Saved(t, fl) \in SavedTab /\ IsInjective(Saved(t, fl).panes)
         /\ ToSet(Saved(t, fl).panes) = ToSet(t.panes) \ fl
<1>1. t.panes \in Seq(Panes) /\ IsInjective(t.panes) /\ t.layout \in Seq(Node) /\ IsTree(t.layout)
  BY TabFields DEF Shows
<1> DEFINE r == Without(t.panes, fl)
           l == SnapshotNode(t.layout, r)
<1>2. r \in Seq(Panes) /\ ToSet(r) = ToSet(t.panes) \ fl /\ (IsInjective(t.panes) => IsInjective(r))
  BY <1>1, WithoutSet
<1>3. Saved(t, fl) = [panes |-> r, layout |-> l]
  BY DEF Saved, Kept
<1> HIDE DEF r
<1>4. l \in SavedTree
  BY <1>1, <1>2, SnapshotNodes DEF SavedTree
<1> HIDE DEF l
<1> QED
  BY <1>1, <1>2, <1>3, <1>4 DEF SavedTab

SavedOf(s, fl) == [id |-> s.id, tabs |-> [j \in DOMAIN s.tabs |-> Saved(s.tabs[j], fl)]]

LEMMA SavedSpaceSound ==
  ASSUME NEW fl, NEW s, SpaceSound(s, fl)
  PROVE  SavedSound(SavedOf(s, fl)) /\ Of(SavedOf(s, fl)) \subseteq Of(s)
<1> DEFINE tabs == s.tabs
           q == [j \in DOMAIN tabs |-> Saved(tabs[j], fl)]
           r == SavedOf(s, fl)
<1>1. s.id \in Spaces /\ tabs \in Seq(Tab) /\ TabsSound(tabs, fl)
  BY SpaceFields
<1>2. \A j \in 1 .. Len(tabs) : TabSound(tabs[j], fl) /\ ToSet(tabs[j].panes) \subseteq Of(s)
  BY SpaceFields
<1>3. r = [id |-> s.id, tabs |-> q]
  BY DEF SavedOf
<1> HIDE DEF tabs, r
<1>4. DOMAIN tabs = 1 .. Len(tabs) /\ Len(tabs) \in Nat
  BY <1>1
<1>5. \A j \in 1 .. Len(tabs) : /\ q[j] \in SavedTab /\ IsInjective(q[j].panes)
                                /\ ToSet(q[j].panes) = ToSet(tabs[j].panes) \ fl
  <2> SUFFICES ASSUME NEW j \in 1 .. Len(tabs)
               PROVE  q[j] \in SavedTab /\ IsInjective(q[j].panes) /\ ToSet(q[j].panes) = ToSet(tabs[j].panes) \ fl
    OBVIOUS
  <2>1. q[j] = Saved(tabs[j], fl)
    BY <1>4
  <2>2. TabSound(tabs[j], fl)
    BY <1>2
  <2> HIDE DEF q
  <2> QED
    BY <2>1, <2>2, SavedTabSound
<1>6. q \in Seq(SavedTab) /\ Len(q) = Len(tabs)
  BY <1>4, <1>5
<1> HIDE DEF q
<1>7. r \in SavedSpace /\ r.tabs = q
  BY <1>1, <1>3, <1>6 DEF SavedSpace
<1>8. \A j, k \in 1 .. Len(q) : j # k => ToSet(q[j].panes) \cap ToSet(q[k].panes) = {}
  <2> SUFFICES ASSUME NEW j \in 1 .. Len(tabs), NEW k \in 1 .. Len(tabs), j # k
               PROVE  ToSet(q[j].panes) \cap ToSet(q[k].panes) = {}
    BY <1>6
  <2>1. ToSet(tabs[j].panes) \cap ToSet(tabs[k].panes) = {}
    BY <1>1 DEF TabsSound
  <2> QED
    BY <1>5, <2>1
<1>9. SavedSound(r)
  BY <1>5, <1>6, <1>7, <1>8 DEF SavedSound
<1>10. Of(r) = In(q)
  BY <1>6, <1>7, OfIn
<1>11. ASSUME NEW p \in In(q) PROVE p \in Of(s)
  <2>1. PICK j \in 1 .. Len(q) : p \in ToSet(q[j].panes)
    BY InTabs
  <2> QED
    BY <1>2, <1>5, <1>6, <2>1
<1> QED
  BY <1>9, <1>10, <1>11 DEF r

LEMMA SnapshotSound ==
  ASSUME NEW fl, NEW sp, SpacesSound(sp, fl)
  PROVE  FileSound(SnapshotSpaces(sp, fl))
<1> DEFINE q == SnapshotSpaces(sp, fl)
<1>1. sp \in Seq(Space) /\ \A i \in 1 .. Len(sp) : SpaceSound(sp[i], fl)
  BY DEF SpacesSound
<1>2. DOMAIN sp = 1 .. Len(sp) /\ Len(sp) \in Nat
  BY <1>1
<1>3. q = [i \in 1 .. Len(sp) |-> SavedOf(sp[i], fl)]
  BY <1>2 DEF SnapshotSpaces, SavedOf
<1>4. \A i \in 1 .. Len(sp) : q[i] = SavedOf(sp[i], fl)
  BY <1>3
<1>5. \A i \in 1 .. Len(sp) : SavedSound(q[i]) /\ Of(q[i]) \subseteq Of(sp[i])
  <2> HIDE DEF q
  <2> SUFFICES ASSUME NEW i \in 1 .. Len(sp) PROVE SavedSound(q[i]) /\ Of(q[i]) \subseteq Of(sp[i])
    OBVIOUS
  <2>1. SpaceSound(sp[i], fl) /\ q[i] = SavedOf(sp[i], fl)
    BY <1>1, <1>4
  <2> QED
    BY <2>1, SavedSpaceSound
<1> HIDE DEF q
<1>6. \A i \in 1 .. Len(sp) : q[i] \in SavedSpace
  BY <1>5 DEF SavedSound
<1>7. q \in Seq(SavedSpace) /\ Len(q) = Len(sp)
  BY <1>2, <1>3, <1>6
<1>8. \A i, k \in 1 .. Len(q) : i # k => Of(q[i]) \cap Of(q[k]) = {}
  BY <1>5, <1>7 DEF SpacesSound
<1>9. FileSound(q)
  BY <1>5, <1>7, <1>8 DEF FileSound
<1> QED
  BY <1>9 DEF q

LEMMA RestoredTabSound ==
  ASSUME NEW t \in SavedTab, IsInjective(t.panes), NEW n \in Int
  PROVE  TabSound(RestoredTab(t, n), {}) /\ RestoredTab(t, n).panes = t.panes
<1> DEFINE l == RestoreNode(t.layout, t.panes)
           m == IF LayoutComplete(l, t.panes) THEN l ELSE FallbackLayout(t.panes)
           k == Clamp(n, 1, Len(t.panes))
           r == RestoredTab(t, n)
<1>1. t.panes \in Seq(Panes) /\ t.layout \in Seq(SavedNode) /\ IsTree(t.layout) /\ Len(t.panes) \in Nat
  BY DEF SavedTab, SavedTree
<1>2. l \in Seq(Node) /\ IsTree(l)
  BY <1>1, RestoredNodes
<1>3. k \in Int /\ (Len(t.panes) # 0 => k \in 1 .. Len(t.panes))
  BY <1>1, ClampIn
<1>4. t.panes = <<>> \/ k \in 1 .. Len(t.panes)
  BY <1>1, <1>3
<1>5. r = [panes |-> t.panes, selected |-> k, layout |-> m]
  BY DEF RestoredTab
<1> HIDE DEF l, k, r
<1>6. Shows(m, ToSet(t.panes))
  <2>1. ASSUME LayoutComplete(l, t.panes) PROVE Shows(l, ToSet(t.panes))
    BY <1>2, <2>1, CompleteShows
  <2>2. Shows(FallbackLayout(t.panes), ToSet(t.panes))
    BY <1>1, FallbackShows
  <2> QED
    BY <2>1, <2>2
<1> HIDE DEF m
<1>7. r \in Tab /\ r.panes = t.panes /\ r.layout = m /\ r.selected = k
  BY <1>1, <1>3, <1>5, <1>6 DEF Tab, Shows
<1>8. ToSet(t.panes) \ {} = ToSet(t.panes)
  OBVIOUS
<1>9. TabSound(r, {})
  BY <1>4, <1>6, <1>7, <1>8 DEF TabSound
<1> QED
  BY <1>7, <1>9 DEF r

LEMMA RestoredSpaceSound ==
  ASSUME NEW s, SavedSound(s), NEW n \in Int
  PROVE  /\ RestoredSpace(s, n) \in Space /\ Of(RestoredSpace(s, n)) \subseteq Of(s)
         /\ RestoredSpace(s, n).tabs # <<>> => SpaceSound(RestoredSpace(s, n), {})
<1> DEFINE gone == {t \in ToSet(s.tabs) : t.panes = <<>>}
           kept == {j \in 1 .. Len(s.tabs) : s.tabs[j] \notin gone}
           tabs == Without(s.tabs, gone)
           q == [j \in DOMAIN tabs |-> RestoredTab(tabs[j], n)]
           a == Clamp(n, 1, Len(tabs))
           r == RestoredSpace(s, n)
<1>1. s.id \in Spaces /\ s.tabs \in Seq(SavedTab)
  BY DEF SavedSound, SavedSpace
<1> HIDE DEF gone
<1>2. tabs \in Seq(SavedTab) /\ \E h : Selects(h, tabs, s.tabs, kept)
  BY <1>1, WithoutSelects
<1>3. r = [id |-> s.id, tabs |-> q, active |-> a]
  BY DEF RestoredSpace, gone
<1>4. kept \in SUBSET (1 .. Len(s.tabs))
  OBVIOUS
<1> HIDE DEF tabs, kept, r
<1>5. PICK h : Selects(h, tabs, s.tabs, kept)
  BY <1>2
<1>6. Chosen(h, tabs, s.tabs)
  BY <1>1, <1>2, <1>4, <1>5, SelectsChosen
<1>7. /\ \A j \in 1 .. Len(tabs) : h[j] \in 1 .. Len(s.tabs) /\ tabs[j] = s.tabs[h[j]] /\ tabs[j] \in SavedTab
      /\ \A j, k \in 1 .. Len(tabs) : h[j] = h[k] => j = k
  BY <1>2, <1>6 DEF Chosen
<1>8. DOMAIN tabs = 1 .. Len(tabs) /\ Len(tabs) \in Nat
  BY <1>2
<1>9. \A j \in 1 .. Len(tabs) : TabSound(q[j], {}) /\ q[j].panes = tabs[j].panes
  <2> SUFFICES ASSUME NEW j \in 1 .. Len(tabs) PROVE TabSound(q[j], {}) /\ q[j].panes = tabs[j].panes
    OBVIOUS
  <2>1. q[j] = RestoredTab(tabs[j], n)
    BY <1>8
  <2>2. tabs[j] \in SavedTab /\ IsInjective(tabs[j].panes)
    BY <1>7 DEF SavedSound
  <2> HIDE DEF q
  <2> QED
    BY <2>1, <2>2, RestoredTabSound
<1>10. \A j \in 1 .. Len(tabs) : q[j] \in Tab
  <2> HIDE DEF q
  <2> QED
    BY <1>9 DEF TabSound
<1>11. q \in Seq(Tab) /\ Len(q) = Len(tabs)
  BY <1>8, <1>10
<1>12. a \in Int /\ (Len(tabs) # 0 => a \in 1 .. Len(tabs))
  BY <1>8, ClampIn
<1> HIDE DEF q, a
<1>13. \A j, k \in 1 .. Len(q) : j # k => ToSet(q[j].panes) \cap ToSet(q[k].panes) = {}
  <2> SUFFICES ASSUME NEW j \in 1 .. Len(q), NEW k \in 1 .. Len(q), j # k
               PROVE  ToSet(q[j].panes) \cap ToSet(q[k].panes) = {}
    OBVIOUS
  <2>1. h[j] \in 1 .. Len(s.tabs) /\ h[k] \in 1 .. Len(s.tabs) /\ h[j] # h[k]
    BY <1>7, <1>11
  <2>2. ToSet(s.tabs[h[j]].panes) \cap ToSet(s.tabs[h[k]].panes) = {}
    BY <2>1 DEF SavedSound
  <2> QED
    BY <1>7, <1>9, <1>11, <2>2
<1>14. TabsSound(q, {})
  BY <1>9, <1>11, <1>13 DEF TabsSound
<1>15. r \in Space /\ r.tabs = q /\ r.active = a
  BY <1>1, <1>3, <1>11, <1>12 DEF Space
<1>16. Of(r) = In(q) /\ Of(s) = In(s.tabs)
  BY <1>1, <1>11, <1>15, OfIn
<1>17. ASSUME NEW p \in In(q) PROVE p \in In(s.tabs)
  <2>1. PICK j \in 1 .. Len(q) : p \in ToSet(q[j].panes)
    BY InTabs
  <2>2. h[j] \in 1 .. Len(s.tabs) /\ p \in ToSet(s.tabs[h[j]].panes)
    BY <1>7, <1>9, <1>11, <2>1
  <2> QED
    BY <2>2, InTabs
<1>18. ASSUME r.tabs # <<>> PROVE SpaceSound(r, {})
  <2>1. Len(q) # 0
    BY <1>11, <1>15, <1>18
  <2> QED
    BY <1>11, <1>12, <1>14, <1>15, <2>1 DEF SpaceSound
<1> QED
  BY <1>15, <1>16, <1>17, <1>18 DEF r

LEMMA RestoredSound == ASSUME NEW f, FileSound(f), NEW n \in Int PROVE SpacesSound(Restored(f, n), {})
<1> DEFINE all == [i \in DOMAIN f |-> RestoredSpace(f[i], n)]
           gone == {s \in ToSet(all) : s.tabs = <<>>}
           kept == {i \in 1 .. Len(all) : all[i] \notin gone}
           r == Without(all, gone)
<1>1. f \in Seq(SavedSpace) /\ \A i \in 1 .. Len(f) : SavedSound(f[i])
  BY DEF FileSound
<1>2. DOMAIN f = 1 .. Len(f) /\ Len(f) \in Nat
  BY <1>1
<1>3. Restored(f, n) = r
  BY DEF Restored
<1>4. \A i \in 1 .. Len(f) : /\ all[i] \in Space /\ Of(all[i]) \subseteq Of(f[i])
                             /\ all[i].tabs # <<>> => SpaceSound(all[i], {})
  <2> SUFFICES ASSUME NEW i \in 1 .. Len(f)
               PROVE  all[i] \in Space /\ Of(all[i]) \subseteq Of(f[i]) /\ (all[i].tabs # <<>> => SpaceSound(all[i], {}))
    OBVIOUS
  <2>1. all[i] = RestoredSpace(f[i], n) /\ SavedSound(f[i])
    BY <1>1, <1>2
  <2> HIDE DEF all
  <2> QED
    BY <2>1, RestoredSpaceSound
<1>5. all \in Seq(Space) /\ Len(all) = Len(f)
  BY <1>2, <1>4
<1> HIDE DEF all
<1>6. DOMAIN all = 1 .. Len(all)
  BY <1>5
<1>7. \A i \in kept : i \in 1 .. Len(f) /\ all[i].tabs # <<>>
  BY <1>5, <1>6 DEF ToSet
<1>8. kept \in SUBSET (1 .. Len(all))
  OBVIOUS
<1> HIDE DEF gone
<1>9. r \in Seq(Space) /\ \E h : Selects(h, r, all, kept)
  BY <1>5, WithoutSelects
<1> HIDE DEF r, kept
<1>10. PICK h : Selects(h, r, all, kept)
  BY <1>9
<1>11. Chosen(h, r, all)
  BY <1>5, <1>8, <1>9, <1>10, SelectsChosen
<1>12. \A a \in 1 .. Len(r) : h[a] \in kept /\ h[a] \in 1 .. Len(f) /\ r[a] = all[h[a]]
  BY <1>7, <1>10 DEF Selects
<1>13. \A a \in 1 .. Len(r) : SpaceSound(r[a], {})
  BY <1>4, <1>7, <1>12
<1>14. ASSUME NEW a \in 1 .. Len(r), NEW b \in 1 .. Len(r), a # b
       PROVE  Of(r[a]) \cap Of(r[b]) = {}
  <2>1. h[a] # h[b]
    BY <1>11, <1>14 DEF Chosen
  <2>2. Of(f[h[a]]) \cap Of(f[h[b]]) = {}
    BY <1>12, <2>1 DEF FileSound
  <2>3. Of(r[a]) \subseteq Of(f[h[a]]) /\ Of(r[b]) \subseteq Of(f[h[b]])
    BY <1>4, <1>12
  <2> QED
    BY <2>2, <2>3
<1> QED
  BY <1>3, <1>9, <1>13, <1>14 DEF SpacesSound

-----------------------------------------------------------------------------
(* What the handlers do to the workspaces.                                 *)
Good(sp, fl) == SpacesSound(sp, fl) /\ fl \subseteq Live(sp)

LEMMA GoodFields ==
  ASSUME NEW sp, NEW fl, Good(sp, fl)
  PROVE  /\ sp \in Seq(Space) /\ Len(sp) \in Nat /\ DOMAIN sp = 1 .. Len(sp) /\ Live(sp) = AllOf(sp)
         /\ SpacesSound(sp, fl) /\ fl \subseteq Live(sp)
         /\ \A i \in 1 .. Len(sp) : SpaceSound(sp[i], fl) /\ Of(sp[i]) \subseteq Live(sp)
<1>1. sp \in Seq(Space)
  BY DEF Good, SpacesSound
<1>2. Live(sp) = AllOf(sp)
  BY <1>1, LiveAll
<1>3. \A i \in 1 .. Len(sp) : Of(sp[i]) \subseteq Live(sp)
  BY <1>2, InSpaces
<1>4. Len(sp) \in Nat /\ DOMAIN sp = 1 .. Len(sp)
  BY <1>1
<1> QED
  BY <1>1, <1>2, <1>3, <1>4 DEF Good, SpacesSound

(* A workspace takes the place of another; only its own panes and new ones *)
(* change whether they float.                                              *)
Fits(sp, i, s, fl, fm) ==
    /\ \A p \in Of(s) : p \in Of(sp[i]) \/ p \notin Live(sp)
    /\ \A p \in Live(sp) : p \notin Of(sp[i]) => (p \in fl <=> p \in fm)
    /\ \A p \in fm : p \in Of(s) \/ (p \in Live(sp) /\ p \notin Of(sp[i]))

LEMMA GoodPut ==
  ASSUME NEW sp, NEW fl, NEW fm, Good(sp, fl), NEW i \in 1 .. Len(sp), NEW s, SpaceSound(s, fm), Fits(sp, i, s, fl, fm)
  PROVE  Good(Put(sp, i, s), fm) /\ Len(Put(sp, i, s)) = Len(sp)
<1>1. /\ Live(sp) = AllOf(sp) /\ SpacesSound(sp, fl) /\ fl \subseteq Live(sp)
      /\ \A k \in 1 .. Len(sp) : Of(sp[k]) \subseteq Live(sp)
  BY GoodFields
<1>2. SpacesApart(sp, i, s, fl, fm)
  <2> SUFFICES ASSUME NEW k \in 1 .. Len(sp) \ {i}
               PROVE  Of(sp[k]) \cap Of(s) = {} /\ \A p \in Of(sp[k]) : p \in fl <=> p \in fm
    BY DEF SpacesApart
  <2>1. Of(sp[k]) \cap Of(sp[i]) = {}
    BY <1>1 DEF SpacesSound
  <2>2. Of(sp[k]) \subseteq Live(sp)
    BY <1>1
  <2> QED
    BY <2>1, <2>2 DEF Fits
<1> DEFINE r == Put(sp, i, s)
<1>3. /\ SpacesSound(r, fm) /\ Len(r) = Len(sp)
      /\ AllOf(r) = (AllOf(sp) \ Of(sp[i])) \cup Of(s)
  BY <1>1, <1>2, SpacesReplaced
<1> HIDE DEF r
<1>4. Live(r) = AllOf(r)
  BY <1>3, LiveAll DEF SpacesSound
<1>5. fm \subseteq Live(r)
  BY <1>1, <1>3, <1>4 DEF Fits
<1> QED
  BY <1>3, <1>5 DEF Good, r

LEMMA GoodAppended ==
  ASSUME NEW sp, NEW fl, Good(sp, fl), NEW s, SpaceSound(s, fl), Of(s) \cap Live(sp) = {}
  PROVE  Good(Append(sp, s), fl) /\ Len(Append(sp, s)) = Len(sp) + 1
<1>1. Live(sp) = AllOf(sp) /\ SpacesSound(sp, fl) /\ fl \subseteq Live(sp)
  BY GoodFields
<1> DEFINE r == Append(sp, s)
<1>2. Of(s) \cap AllOf(sp) = {}
  BY <1>1
<1>3. SpacesSound(r, fl) /\ Len(r) = Len(sp) + 1 /\ AllOf(r) = AllOf(sp) \cup Of(s)
  BY <1>1, <1>2, SpacesAppended
<1> HIDE DEF r
<1>4. Live(r) = AllOf(r)
  BY <1>3, LiveAll DEF SpacesSound
<1> QED
  BY <1>1, <1>3, <1>4 DEF Good, r

LEMMA GoodRemoved ==
  ASSUME NEW sp, NEW fl, Good(sp, fl), NEW i \in 1 .. Len(sp)
  PROVE  /\ Good(RemoveAt(sp, i), fl \ Of(sp[i])) /\ Len(RemoveAt(sp, i)) = Len(sp) - 1
         /\ Live(RemoveAt(sp, i)) = Live(sp) \ Of(sp[i])
<1>1. Live(sp) = AllOf(sp) /\ SpacesSound(sp, fl) /\ fl \subseteq Live(sp)
  BY GoodFields
<1> DEFINE r == RemoveAt(sp, i)
           fm == fl \ Of(sp[i])
<1>2. SpacesSound(r, fl) /\ Len(r) = Len(sp) - 1 /\ AllOf(r) = AllOf(sp) \ Of(sp[i])
  BY <1>1, SpacesRemoved
<1> HIDE DEF r
<1>3. Live(r) = AllOf(r)
  BY <1>2, LiveAll DEF SpacesSound
<1>4. \A k \in 1 .. Len(r) : SpaceSound(r[k], fm)
  <2> SUFFICES ASSUME NEW k \in 1 .. Len(r) PROVE SpaceSound(r[k], fm)
    OBVIOUS
  <2>1. SpaceSound(r[k], fl)
    BY <1>2 DEF SpacesSound
  <2>2. \A p \in Of(r[k]) : p \in AllOf(r)
    BY InSpaces
  <2>3. \A p \in Of(r[k]) : p \in fl <=> p \in fm
    BY <1>2, <2>2
  <2> HIDE DEF fm
  <2> QED
    BY <2>1, <2>3, SpaceElsewhere
<1>5. SpacesSound(r, fm)
  BY <1>2, <1>4 DEF SpacesSound
<1>6. fm \subseteq Live(r)
  BY <1>1, <1>2, <1>3
<1> HIDE DEF fm
<1>7. Good(r, fm)
  BY <1>5, <1>6 DEF Good
<1> QED
  BY <1>1, <1>2, <1>3, <1>7 DEF r, fm

IsInsertedAt(r, list, k, x) ==
    \A i \in 1 .. Len(list) + 1 : r[i] = IF i < k THEN list[i] ELSE IF i = k THEN x ELSE list[i - 1]

LEMMA InsertedAt ==
  ASSUME NEW T, NEW list \in Seq(T), NEW k \in 1 .. Len(list) + 1, NEW x \in T
  PROVE  /\ InsertAt(list, k, x) \in Seq(T) /\ Len(InsertAt(list, k, x)) = Len(list) + 1
         /\ IsInsertedAt(InsertAt(list, k, x), list, k, x)
<1> DEFINE a == SubSeq(list, 1, k - 1)
           b == SubSeq(list, k, Len(list))
           c == a \o <<x>>
           r == c \o b
           n == Len(list)
<1>1. n \in Nat /\ k \in 1 .. n + 1
  OBVIOUS
<1>2. a \in Seq(T) /\ Len(a) = k - 1 /\ \A i \in 1 .. k - 1 : a[i] = list[i]
  OBVIOUS
<1>3. b \in Seq(T) /\ Len(b) = n + 1 - k /\ \A i \in 1 .. n + 1 - k : b[i] = list[k + i - 1]
  OBVIOUS
<1>4. InsertAt(list, k, x) = r
  BY DEF InsertAt
<1> HIDE DEF a, b, n
<1>5. c \in Seq(T) /\ Len(c) = k /\ c[k] = x /\ \A i \in 1 .. k - 1 : c[i] = a[i]
  BY <1>1, <1>2
<1> HIDE DEF c
<1>6. r \in Seq(T) /\ Len(r) = n + 1
  <2>1. r \in Seq(T) /\ Len(r) = Len(c) + Len(b)
    BY <1>3, <1>5, ConcatProperties
  <2>2. k + (n + 1 - k) = n + 1
    BY <1>1
  <2> QED
    BY <1>3, <1>5, <2>1, <2>2
<1>7. \A i \in 1 .. n + 1 : r[i] = IF i <= k THEN c[i] ELSE b[i - k]
  <2>1. \A i \in 1 .. Len(c) + Len(b) : r[i] = IF i <= Len(c) THEN c[i] ELSE b[i - Len(c)]
    BY <1>3, <1>5, ConcatProperties
  <2>2. Len(c) = k /\ Len(c) + Len(b) = n + 1
    BY <1>1, <1>3, <1>5
  <2> QED
    BY <2>1, <2>2
<1> HIDE DEF r
<1>8. ASSUME NEW i \in 1 .. n + 1 PROVE r[i] = IF i < k THEN list[i] ELSE IF i = k THEN x ELSE list[i - 1]
  <2>1. CASE i < k
    <3>1. i \in 1 .. k - 1 /\ i <= k
      BY <1>1, <2>1
    <3> QED
      BY <1>2, <1>5, <1>7, <2>1, <3>1
  <2>2. CASE i = k
    <3>1. i <= k /\ ~(i < k)
      BY <1>1, <2>2
    <3> QED
      BY <1>5, <1>7, <2>2, <3>1
  <2>3. CASE i > k
    <3>1. ~(i <= k) /\ ~(i < k) /\ i # k /\ i - k \in 1 .. n + 1 - k /\ k + (i - k) - 1 = i - 1
      BY <1>1, <2>3
    <3> QED
      BY <1>3, <1>7, <2>3, <3>1
  <2> QED
    BY <1>1, <2>1, <2>2, <2>3
<1> QED
  BY <1>4, <1>6, <1>8 DEF n, IsInsertedAt
(* A workspace is moved to another place.                                  *)
LEMMA MovedAt ==
  ASSUME NEW T, NEW list \in Seq(T), NEW from \in 1 .. Len(list), NEW i \in 1 .. Len(list)
  PROVE  LET r == InsertAt(RemoveAt(list, from), i, list[from]) IN
         /\ r \in Seq(T) /\ Len(r) = Len(list)
         /\ \E h : Chosen(h, r, list) /\ \A j \in 1 .. Len(list) : \E a \in 1 .. Len(r) : h[a] = j
<1> DEFINE q == RemoveAt(list, from)
           r == InsertAt(q, i, list[from])
           n == Len(list)
           B(a) == IF a < i THEN a ELSE a - 1
           h == [a \in 1 .. n |-> IF a = i THEN from ELSE IF B(a) < from THEN B(a) ELSE B(a) + 1]
<1>1. n \in Nat /\ n >= 1 /\ from \in 1 .. n /\ i \in 1 .. n /\ list[from] \in T
  OBVIOUS
<1>2. /\ q \in Seq(T) /\ Len(q) = n - 1
      /\ \A j \in 1 .. n - 1 : q[j] = IF j < from THEN list[j] ELSE list[j + 1]
  BY RemovedAt
<1> HIDE DEF q, n
<1>3. i \in 1 .. Len(q) + 1 /\ Len(q) + 1 = n
  BY <1>1, <1>2
<1>a. /\ r \in Seq(T) /\ Len(r) = Len(q) + 1
      /\ \A j \in 1 .. Len(q) + 1 : r[j] = IF j < i THEN q[j] ELSE IF j = i THEN list[from] ELSE q[j - 1]
  <2> DEFINE x == list[from]
  <2>1. x \in T
    BY <1>1
  <2> HIDE DEF x
  <2>2. /\ InsertAt(q, i, x) \in Seq(T) /\ Len(InsertAt(q, i, x)) = Len(q) + 1
        /\ IsInsertedAt(InsertAt(q, i, x), q, i, x)
    BY <1>2, <1>3, <2>1, InsertedAt
  <2> QED
    BY <2>2 DEF IsInsertedAt, x
<1>4. /\ r \in Seq(T) /\ Len(r) = n
      /\ \A j \in 1 .. n : r[j] = IF j < i THEN q[j] ELSE IF j = i THEN list[from] ELSE q[j - 1]
  BY <1>3, <1>a
<1> HIDE DEF r
<1>5. \A a \in 1 .. n : a # i => B(a) \in 1 .. n - 1 /\ r[a] = q[B(a)]
  BY <1>1, <1>4
<1>6. \A a, b \in 1 .. n : a # i /\ b # i /\ B(a) = B(b) => a = b
  BY <1>1
<1>7. \A c \in 1 .. n - 1 : \E a \in 1 .. n : a # i /\ B(a) = c
  <2> SUFFICES ASSUME NEW c \in 1 .. n - 1 PROVE \E a \in 1 .. n : a # i /\ B(a) = c
    OBVIOUS
  <2>1. CASE c < i
    <3>1. c \in 1 .. n /\ c # i /\ B(c) = c
      BY <1>1, <2>1
    <3> QED
      BY <3>1
  <2>2. CASE ~(c < i)
    <3>1. c + 1 \in 1 .. n /\ c + 1 # i /\ B(c + 1) = c
      BY <1>1, <2>2
    <3> QED
      BY <3>1
  <2> QED
    BY <2>1, <2>2
<1> HIDE DEF B
<1>8. ASSUME NEW a \in 1 .. n PROVE h[a] \in 1 .. n /\ r[a] = list[h[a]] /\ (h[a] = from <=> a = i)
  <2>1. CASE a = i
    BY <1>1, <1>4, <2>1
  <2>2. CASE a # i
    <3>1. B(a) \in 1 .. n - 1 /\ r[a] = q[B(a)]
      BY <1>5, <2>2
    <3>2. h[a] = IF B(a) < from THEN B(a) ELSE B(a) + 1
      BY <2>2
    <3>3. h[a] \in 1 .. n /\ h[a] # from
      BY <1>1, <3>1, <3>2
    <3> QED
      BY <1>2, <2>2, <3>1, <3>2, <3>3
  <2> QED
    BY <2>1, <2>2
<1>9. ASSUME NEW a \in 1 .. n, NEW b \in 1 .. n, h[a] = h[b] PROVE a = b
  <2>1. CASE a = i \/ b = i
    BY <1>8, <1>9, <2>1
  <2>2. CASE a # i /\ b # i
    <3>1. B(a) \in 1 .. n - 1 /\ B(b) \in 1 .. n - 1
      BY <1>5, <2>2
    <3>2. B(a) = B(b)
      BY <1>1, <1>9, <2>2, <3>1
    <3> QED
      BY <1>6, <2>2, <3>2
  <2> QED
    BY <2>1, <2>2
<1>10. ASSUME NEW j \in 1 .. n PROVE \E a \in 1 .. n : h[a] = j
  <2>1. CASE j = from
    BY <1>1, <2>1
  <2>2. CASE j # from
    <3> DEFINE c == IF j < from THEN j ELSE j - 1
    <3>1. c \in 1 .. n - 1 /\ (IF c < from THEN c ELSE c + 1) = j
      BY <1>1, <2>2
    <3> HIDE DEF c
    <3>2. PICK a \in 1 .. n : a # i /\ B(a) = c
      BY <1>7, <3>1
    <3>3. h[a] = j
      BY <3>1, <3>2
    <3> QED
      BY <3>3
  <2> QED
    BY <2>1, <2>2
<1> HIDE DEF h
<1>11. Chosen(h, r, list)
  BY <1>4, <1>8, <1>9 DEF Chosen, n
<1>12. \A j \in 1 .. Len(list) : \E a \in 1 .. Len(r) : h[a] = j
  BY <1>4, <1>10 DEF n
<1> QED
  BY <1>4, <1>11, <1>12 DEF r, q, n

LEMMA GoodMoved ==
  ASSUME NEW sp, NEW fl, Good(sp, fl), NEW from \in 1 .. Len(sp), NEW i \in 1 .. Len(sp)
  PROVE  /\ Good(InsertAt(RemoveAt(sp, from), i, sp[from]), fl)
         /\ Len(InsertAt(RemoveAt(sp, from), i, sp[from])) = Len(sp)
<1>1. sp \in Seq(Space) /\ Live(sp) = AllOf(sp) /\ SpacesSound(sp, fl) /\ fl \subseteq Live(sp)
  BY GoodFields
<1> DEFINE r == InsertAt(RemoveAt(sp, from), i, sp[from])
<1>2. /\ r \in Seq(Space) /\ Len(r) = Len(sp)
      /\ \E h : Chosen(h, r, sp) /\ \A j \in 1 .. Len(sp) : \E a \in 1 .. Len(r) : h[a] = j
  BY <1>1, MovedAt
<1> HIDE DEF r
<1>3. PICK h : Chosen(h, r, sp) /\ \A j \in 1 .. Len(sp) : \E a \in 1 .. Len(r) : h[a] = j
  BY <1>2
<1>4. SpacesSound(r, fl)
  BY <1>1, <1>2, <1>3, SpacesChosen
<1>5. Live(r) = AllOf(r)
  BY <1>2, LiveAll
<1>6. ASSUME NEW p \in AllOf(sp) PROVE p \in AllOf(r)
  <2>1. PICK j \in 1 .. Len(sp) : p \in Of(sp[j])
    BY InSpaces
  <2>2. PICK a \in 1 .. Len(r) : h[a] = j
    BY <1>3
  <2>3. p \in Of(r[a])
    BY <1>3, <2>1, <2>2 DEF Chosen
  <2> QED
    BY <2>3, InSpaces
<1>7. fl \subseteq Live(r)
  BY <1>1, <1>5, <1>6
<1> QED
  BY <1>2, <1>4, <1>7 DEF Good, r

-----------------------------------------------------------------------------
(* Opening and closing.                                                    *)

LEMMA FitsSame ==
  ASSUME NEW sp, NEW fl, Good(sp, fl), NEW i \in 1 .. Len(sp), NEW s, Of(s) = Of(sp[i])
  PROVE  Fits(sp, i, s, fl, fl)
  BY GoodFields DEF Fits

LEMMA FitsMore ==
  ASSUME NEW sp, NEW fl, Good(sp, fl), NEW i \in 1 .. Len(sp), NEW s, NEW p, p \notin Live(sp), Of(s) = Of(sp[i]) \cup {p},
         NEW fm, fm = fl \/ fm = fl \cup {p}
  PROVE  Fits(sp, i, s, fl, fm)
<1>1. fl \subseteq Live(sp)
  BY GoodFields
<1> QED
  BY <1>1 DEF Fits

LEMMA FitsLess ==
  ASSUME NEW sp, NEW fl, Good(sp, fl), NEW i \in 1 .. Len(sp), NEW s, NEW G, Of(s) = Of(sp[i]) \ G, G \subseteq Of(sp[i]),
         NEW fm, fm = fl \ G
  PROVE  Fits(sp, i, s, fl, fm)
<1>1. fl \subseteq Live(sp) /\ Of(sp[i]) \subseteq Live(sp)
  BY GoodFields
<1> QED
  BY <1>1 DEF Fits

-----------------------------------------------------------------------------
(* The invariant: everything is sound, what floats is open, the current    *)
(* workspace is one of the list, the state file is sound, and the menu of  *)
(* a workspace or of a tab names one.                                      *)
SpacesInv ==
    /\ Good(spaces, floating)
    /\ spaces = <<>> \/ selected \in 1 .. Len(spaces)
    /\ FileSound(file)
    /\ menu.kind \in {"space", "tabs"} => menu.target \in Spaces

GoodNext == Good(spaces', floating') /\ (spaces' = <<>> \/ selected' \in 1 .. Len(spaces'))

LEMMA SavedNext == ASSUME SpacesInv, GoodNext, Persist \/ Unsaved \/ Moving PROVE FileSound(file')
<1>1. SpacesSound(spaces', floating')
  BY DEF GoodNext, Good
<1>2. CASE Persist
  BY <1>1, <1>2, SnapshotSound DEF Persist
<1>3. CASE Unsaved \/ Moving
  BY <1>3 DEF Unsaved, Moving, SpacesInv
<1> QED
  BY <1>2, <1>3

LEMMA SpaceAt ==
  ASSUME SpacesInv, NEW i \in 1 .. Len(spaces)
  PROVE  /\ SpaceSound(spaces[i], floating) /\ Of(spaces[i]) \subseteq Live(spaces) /\ spaces # <<>>
         /\ spaces[i].active \in 1 .. Len(spaces[i].tabs) /\ spaces[i].tabs \in Seq(Tab)
         /\ \A j \in 1 .. Len(spaces[i].tabs) :
               TabSound(spaces[i].tabs[j], floating) /\ ToSet(spaces[i].tabs[j].panes) \subseteq Of(spaces[i])
<1>1. SpaceSound(spaces[i], floating) /\ Of(spaces[i]) \subseteq Live(spaces)
  BY GoodFields DEF SpacesInv
<1>2. /\ spaces[i].active \in 1 .. Len(spaces[i].tabs) /\ spaces[i].tabs \in Seq(Tab)
      /\ \A j \in 1 .. Len(spaces[i].tabs) :
            TabSound(spaces[i].tabs[j], floating) /\ ToSet(spaces[i].tabs[j].panes) \subseteq Of(spaces[i])
  <2> DEFINE s == spaces[i]
  <2> HIDE DEF s
  <2>1. SpaceSound(s, floating)
    BY <1>1 DEF s
  <2>2. /\ s.active \in 1 .. Len(s.tabs) /\ s.tabs \in Seq(Tab)
        /\ \A j \in 1 .. Len(s.tabs) : TabSound(s.tabs[j], floating) /\ ToSet(s.tabs[j].panes) \subseteq Of(s)
    BY <2>1, SpaceFields
  <2> QED
    BY <2>2 DEF s
<1>3. spaces # <<>>
  OBVIOUS
<1> QED
  BY <1>1, <1>2, <1>3

LEMMA PutNext ==
  ASSUME SpacesInv, NEW i \in 1 .. Len(spaces), NEW s, SpaceSound(s, floating'), Fits(spaces, i, s, floating, floating'),
         spaces' = Put(spaces, i, s), NEW k \in 1 .. Len(spaces), selected' = k
  PROVE  GoodNext
<1>1. Good(Put(spaces, i, s), floating') /\ Len(Put(spaces, i, s)) = Len(spaces)
  BY GoodPut DEF SpacesInv
<1> QED
  BY <1>1 DEF GoodNext

(* A pane that is opened is none of those that are open.                   *)
LEMMA FreePane ==
  ASSUME SpacesInv, NEW p \in FreePanes
  PROVE  p \in Panes /\ p \notin Live(spaces) /\ p \notin floating /\ \A i \in 1 .. Len(spaces) : p \notin Of(spaces[i])
<1>1. p \in Panes /\ p \notin Live(spaces)
  BY DEF FreePanes
<1>2. floating \subseteq Live(spaces) /\ \A i \in 1 .. Len(spaces) : Of(spaces[i]) \subseteq Live(spaces)
  BY GoodFields DEF SpacesInv
<1> QED
  BY <1>1, <1>2

LEMMA FirstPane ==
  ASSUME NEW p \in Panes, NEW fl, p \notin fl
  PROVE  TabSound(WithPane(EmptyTab, p, TRUE, FALSE), fl) /\ ToSet(WithPane(EmptyTab, p, TRUE, FALSE).panes) = {p}
<1> DEFINE t == WithPane(EmptyTab, p, TRUE, FALSE)
<1>1. Leaves(Nil) = {}
  <2>1. Nil \in Seq(Node) /\ Len(Nil) = 0
    BY DEF Nil
  <2>2. Leaves(Nil) = {k \in 1 .. Len(Nil) : Nil[k].pane # None}
    BY <2>1, LeavesOf
  <2> QED
    BY <2>1, <2>2
<1> DEFINE x == Appended(EmptyTab, p)
           l == Leaf(p)
<1>2. TabSound(x, fl \cup {p}) /\ ToSet(x.panes) = {p}
  <2>1. TabSound(EmptyTab, fl) /\ ToSet(EmptyTab.panes) = {}
    BY EmptySound
  <2> QED
    BY <2>1, AppendedSound
<1>3. Shows(l, {p}) /\ l \in Seq(Node)
  BY ShowsLeaf DEF Shows
<1>4. x.layout = Nil
  BY DEF Appended, EmptyTab
<1>5. t = [x EXCEPT !.layout = l]
  BY <1>1, <1>4, Zenon DEF WithPane
<1> HIDE DEF t, x, l
<1>6. x \in Tab /\ IsInjective(x.panes) /\ (x.panes = <<>> \/ x.selected \in 1 .. Len(x.panes))
  BY <1>2, TabFields
<1>7. t \in Tab /\ t.panes = x.panes /\ t.layout = l /\ t.selected = x.selected
  BY <1>3, <1>5, <1>6 DEF Tab
<1>8. {p} \ fl = {p}
  OBVIOUS
<1>9. TabSound(t, fl)
  BY <1>2, <1>3, <1>6, <1>7, <1>8 DEF TabSound
<1> QED
  BY <1>2, <1>7, <1>9 DEF t

LEMMA NewSpaceSound ==
  ASSUME NEW id \in Spaces, NEW p \in Panes, NEW fl, p \notin fl
  PROVE  SpaceSound(NewSpaceOf(id, p), fl) /\ Of(NewSpaceOf(id, p)) = {p}
<1> DEFINE t == WithPane(EmptyTab, p, TRUE, FALSE)
           s == NewSpaceOf(id, p)
<1>1. TabSound(t, fl) /\ ToSet(t.panes) = {p}
  BY FirstPane
<1>2. s = [id |-> id, tabs |-> <<t>>, active |-> 1]
  BY DEF NewSpaceOf
<1> HIDE DEF t, s
<1>3. t \in Tab
  BY <1>1 DEF TabSound
<1>4. <<t>> \in Seq(Tab) /\ Len(<<t>>) = 1 /\ <<t>>[1] = t /\ \A j \in 1 .. 1 : j = 1
  BY <1>3
<1>5. s \in Space /\ s.tabs = <<t>> /\ s.active = 1
  BY <1>2, <1>4 DEF Space
<1>6. TabsSound(<<t>>, fl)
  BY <1>1, <1>4 DEF TabsSound
<1>7. SpaceSound(s, fl)
  BY <1>4, <1>5, <1>6 DEF SpaceSound
<1>8. Of(s) = In(<<t>>)
  BY <1>4, <1>5, OfIn
<1>9. \A q : q \in In(<<t>>) <=> q = p
  <2>1. \A q : q \in In(<<t>>) <=> \E j \in 1 .. Len(<<t>>) : q \in ToSet(<<t>>[j].panes)
    BY InTabs
  <2> QED
    BY <1>1, <1>4, <2>1
<1> QED
  BY <1>7, <1>8, <1>9 DEF s

-----------------------------------------------------------------------------
(* Handlers that focus, open and arrange.                                  *)

LEMMA FocusNext ==
  ASSUME SpacesInv, NEW i \in 1 .. Len(spaces), NEW p, spaces' = Put(spaces, i, Focused(spaces[i], p)), floating' = floating,
         NEW k \in 1 .. Len(spaces), selected' = k
  PROVE  GoodNext
<1> DEFINE s == Focused(spaces[i], p)
<1>1. SpaceSound(spaces[i], floating)
  BY SpaceAt
<1>2. SpaceSound(s, floating) /\ Of(s) = Of(spaces[i])
  BY <1>1, FocusedSound
<1>a. spaces' = Put(spaces, i, s)
  OBVIOUS
<1> HIDE DEF s
<1>3. Fits(spaces, i, s, floating, floating)
  BY <1>2, FitsSame DEF SpacesInv
<1> QED
  BY <1>2, <1>3, <1>a, PutNext

LEMMA TabKept ==
  ASSUME SpacesInv, NEW i \in 1 .. Len(spaces), NEW j \in 1 .. Len(spaces[i].tabs), NEW t, TabSound(t, floating),
         ToSet(t.panes) = ToSet(spaces[i].tabs[j].panes), spaces' = Put(spaces, i, PutTab(spaces[i], j, t)), floating' = floating,
         NEW k \in 1 .. Len(spaces), selected' = k
  PROVE  GoodNext
<1> DEFINE s == spaces[i]
           r == PutTab(s, j, t)
<1>1. SpaceSound(s, floating) /\ s.active \in 1 .. Len(s.tabs) /\ ToSet(s.tabs[j].panes) \subseteq Of(s)
  BY SpaceAt
<1>a. spaces' = Put(spaces, i, r) /\ ToSet(t.panes) = ToSet(s.tabs[j].panes) /\ j \in 1 .. Len(s.tabs)
  OBVIOUS
<1>b. t \in Tab
  BY DEF TabSound
<1> HIDE DEF s
<1>2. r \in Space /\ r.tabs = Put(s.tabs, j, t) /\ r.active = s.active
  BY <1>1, <1>a, <1>b, TabPut
<1> HIDE DEF r
<1>3. Became(r, s, j, t)
  BY <1>1, <1>2 DEF Became
<1>4. Alone(s, j, t, floating, floating)
  BY <1>a DEF Alone
<1>5. SpaceSound(r, floating) /\ Of(r) = (Of(s) \ ToSet(s.tabs[j].panes)) \cup ToSet(t.panes)
  BY <1>1, <1>a, <1>3, <1>4, SpaceTab
<1>6. Of(r) = Of(s)
  BY <1>1, <1>5, <1>a
<1>7. Fits(spaces, i, r, floating, floating)
  BY <1>6, FitsSame DEF SpacesInv, s
<1> QED
  BY <1>5, <1>7, <1>a, PutNext

LEMMA GrownSound ==
  ASSUME NEW sp, NEW fl, NEW fm, Good(sp, fl), NEW i \in 1 .. Len(sp), NEW j \in 1 .. Len(sp[i].tabs), NEW t, TabSound(t, fm),
         NEW p, p \notin Live(sp), ToSet(t.panes) = ToSet(sp[i].tabs[j].panes) \cup {p}, fm = fl \/ fm = fl \cup {p}
  PROVE  SpaceSound(PutTab(sp[i], j, t), fm) /\ Fits(sp, i, PutTab(sp[i], j, t), fl, fm)
<1> DEFINE s == sp[i]
           r == PutTab(s, j, t)
<1>1. SpaceSound(s, fl) /\ Of(s) \subseteq Live(sp) /\ fl \subseteq Live(sp)
  BY GoodFields
<1>2. ToSet(t.panes) = ToSet(s.tabs[j].panes) \cup {p} /\ j \in 1 .. Len(s.tabs)
  OBVIOUS
<1> HIDE DEF s
<1>3. s.active \in 1 .. Len(s.tabs) /\ ToSet(s.tabs[j].panes) \subseteq Of(s)
  BY <1>1, <1>2, SpaceFields
<1>4. t \in Tab
  BY DEF TabSound
<1>5. r \in Space /\ r.tabs = Put(s.tabs, j, t) /\ r.active = s.active
  BY <1>1, <1>2, <1>4, TabPut
<1> HIDE DEF r
<1>6. Became(r, s, j, t)
  BY <1>3, <1>5 DEF Became
<1>7. Alone(s, j, t, fl, fm)
  BY <1>1, <1>2 DEF Alone
<1>8. SpaceSound(r, fm) /\ Of(r) = (Of(s) \ ToSet(s.tabs[j].panes)) \cup ToSet(t.panes)
  BY <1>1, <1>2, <1>6, <1>7, SpaceTab
<1>9. Of(r) = Of(s) \cup {p}
  BY <1>2, <1>3, <1>8
<1>10. Fits(sp, i, r, fl, fm)
  BY <1>9, FitsMore DEF s
<1> QED
  BY <1>8, <1>10 DEF r, s

LEMMA TabGrown ==
  ASSUME SpacesInv, NEW i \in 1 .. Len(spaces), NEW j \in 1 .. Len(spaces[i].tabs), NEW t, TabSound(t, floating'),
         NEW p \in FreePanes, ToSet(t.panes) = ToSet(spaces[i].tabs[j].panes) \cup {p},
         spaces' = Put(spaces, i, PutTab(spaces[i], j, t)), floating' = floating \/ floating' = floating \cup {p},
         NEW k \in 1 .. Len(spaces), selected' = k
  PROVE  GoodNext
<1>1. p \notin Live(spaces) /\ Good(spaces, floating)
  BY FreePane DEF SpacesInv
<1> DEFINE r == PutTab(spaces[i], j, t)
<1>2. SpaceSound(r, floating') /\ Fits(spaces, i, r, floating, floating')
  BY <1>1, GrownSound
<1>3. spaces' = Put(spaces, i, r)
  OBVIOUS
<1> HIDE DEF r
<1> QED
  BY <1>2, <1>3, PutNext
-----------------------------------------------------------------------------
LEMMA NewSpaceGood ==
  ASSUME SpacesInv, NewSpace
  PROVE  GoodNext
<1>1. PICK id \in FreeSpaces, p \in FreePanes : spaces' = Append(spaces, NewSpaceOf(id, p))
  BY DEF NewSpace
<1> DEFINE s == NewSpaceOf(id, p)
<1>2. p \in Panes /\ p \notin Live(spaces) /\ p \notin floating
  BY FreePane
<1>3. id \in Spaces
  BY DEF FreeSpaces
<1>4. SpaceSound(s, floating) /\ Of(s) = {p}
  BY <1>2, <1>3, NewSpaceSound
<1>5. spaces' = Append(spaces, s)
  BY <1>1
<1> HIDE DEF s
<1>6. Of(s) \cap Live(spaces) = {} /\ Good(spaces, floating)
  BY <1>2, <1>4 DEF SpacesInv
<1>7. Good(Append(spaces, s), floating) /\ Len(Append(spaces, s)) = Len(spaces) + 1
  BY <1>4, <1>6, GoodAppended
<1>8. Len(spaces) \in Nat
  BY <1>6, GoodFields
<1>9. floating' = floating /\ selected' = Len(spaces) + 1
  BY DEF NewSpace
<1> DEFINE n == Len(spaces)
<1> HIDE DEF n
<1>10. n + 1 \in 1 .. n + 1
  BY <1>8 DEF n
<1> QED
  BY <1>5, <1>7, <1>9, <1>10 DEF GoodNext, n

LEMMA SplitPaneGood ==
  ASSUME SpacesInv, NEW i \in 1 .. Len(spaces), NEW v \in BOOLEAN, NEW b \in BOOLEAN, SplitPane(i, v, b)
  PROVE  GoodNext
<1> DEFINE j == spaces[i].active
           t == spaces[i].tabs[j]
<1>1. PICK p \in FreePanes : spaces' = [spaces EXCEPT ![i].tabs[spaces[i].active] = WithPane(@, p, v, b)]
  BY DEF SplitPane
<1>2. p \in Panes /\ p \notin floating /\ p \notin Of(spaces[i])
  BY FreePane
<1>3. j \in 1 .. Len(spaces[i].tabs) /\ TabSound(t, floating) /\ ToSet(t.panes) \subseteq Of(spaces[i])
  BY SpaceAt
<1> DEFINE u == WithPane(t, p, v, b)
<1>4. spaces' = Put(spaces, i, PutTab(spaces[i], j, u))
  BY <1>1 DEF Put, PutTab
<1>5. TabSound(u, floating) /\ ToSet(u.panes) = ToSet(t.panes) \cup {p}
  BY <1>2, <1>3, WithPaneSound
<1>6. selected' = i /\ floating' = floating
  BY DEF SplitPane
<1> HIDE DEF u, j
<1> QED
  BY <1>3, <1>4, <1>5, <1>6, TabGrown

LEMMA FloatGood ==
  ASSUME SpacesInv, NEW i \in 1 .. Len(spaces), Float(i)
  PROVE  GoodNext
<1> DEFINE j == spaces[i].active
           t == spaces[i].tabs[j]
<1>1. PICK p \in FreePanes : /\ spaces' = [spaces EXCEPT ![i].tabs[spaces[i].active] = Appended(@, p)]
                             /\ floating' = floating \cup {p}
  BY DEF Float
<1>2. p \in Panes /\ p \notin floating /\ p \notin Of(spaces[i])
  BY FreePane
<1>3. j \in 1 .. Len(spaces[i].tabs) /\ TabSound(t, floating) /\ ToSet(t.panes) \subseteq Of(spaces[i])
  BY SpaceAt
<1> DEFINE u == Appended(t, p)
<1>4. spaces' = Put(spaces, i, PutTab(spaces[i], j, u))
  BY <1>1 DEF Put, PutTab
<1>5. TabSound(u, floating \cup {p}) /\ ToSet(u.panes) = ToSet(t.panes) \cup {p}
  BY <1>2, <1>3, AppendedSound
<1>6. selected' = i
  BY DEF Float
<1> HIDE DEF u, j
<1> QED
  BY <1>1, <1>3, <1>4, <1>5, <1>6, TabGrown

LEMMA WithTabSound ==
  ASSUME NEW fl, NEW s, SpaceSound(s, fl), NEW p \in Panes, p \notin fl, p \notin Of(s)
  PROVE  SpaceSound(WithTab(s, p), fl) /\ Of(WithTab(s, p)) = Of(s) \cup {p}
<1> DEFINE t == WithPane(EmptyTab, p, TRUE, FALSE)
           q == Append(s.tabs, t)
           n == Len(s.tabs) + 1
           r == WithTab(s, p)
<1>1. TabSound(t, fl) /\ ToSet(t.panes) = {p}
  BY FirstPane
<1>2. s \in Space /\ TabsSound(s.tabs, fl) /\ Of(s) = In(s.tabs) /\ Len(s.tabs) \in Nat
  BY SpaceFields
<1>3. r = [s EXCEPT !.tabs = q, !.active = n]
  BY DEF WithTab
<1> HIDE DEF t
<1>4. ToSet(t.panes) \cap In(s.tabs) = {}
  BY <1>1, <1>2
<1>5. TabsSound(q, fl) /\ Len(q) = Len(s.tabs) + 1 /\ In(q) = In(s.tabs) \cup ToSet(t.panes)
  BY <1>1, <1>2, <1>4, TabsAppended
<1>6. n \in Int /\ n \in 1 .. Len(q)
  <2> DEFINE m == Len(s.tabs)
  <2>1. m \in Nat /\ Len(q) = m + 1
    BY <1>2, <1>5
  <2> HIDE DEF m, q
  <2>2. m + 1 \in Int /\ m + 1 \in 1 .. m + 1
    BY <2>1
  <2> QED
    BY <2>1, <2>2 DEF m
<1> HIDE DEF q, n, r
<1>7. r \in Space /\ r.tabs = q /\ r.active = n
  BY <1>2, <1>3, <1>5, <1>6 DEF Space, TabsSound
<1>8. SpaceSound(r, fl)
  BY <1>5, <1>6, <1>7 DEF SpaceSound
<1>9. Of(r) = In(q)
  BY <1>7, <1>8, SpaceFields
<1> QED
  BY <1>1, <1>2, <1>5, <1>8, <1>9 DEF r

LEMMA NewTabGood ==
  ASSUME SpacesInv, NEW i \in 1 .. Len(spaces), NewTab(i)
  PROVE  GoodNext
<1>1. PICK p \in FreePanes : spaces' = [spaces EXCEPT ![i] = WithTab(@, p)]
  BY DEF NewTab
<1>2. p \in Panes /\ p \notin Live(spaces) /\ p \notin floating /\ p \notin Of(spaces[i])
  BY FreePane
<1>3. SpaceSound(spaces[i], floating)
  BY SpaceAt
<1> DEFINE s == WithTab(spaces[i], p)
<1>4. SpaceSound(s, floating) /\ Of(s) = Of(spaces[i]) \cup {p}
  BY <1>2, <1>3, WithTabSound
<1>5. spaces' = Put(spaces, i, s)
  BY <1>1 DEF Put
<1> HIDE DEF s
<1>6. Fits(spaces, i, s, floating, floating)
  BY <1>2, <1>4, FitsMore DEF SpacesInv
<1>7. selected' = i /\ floating' = floating
  BY DEF NewTab
<1> QED
  BY <1>4, <1>5, <1>6, <1>7, PutNext
-----------------------------------------------------------------------------
LEMMA CurrentIn == ASSUME SpacesInv, spaces # <<>> PROVE selected \in 1 .. Len(spaces)
  BY DEF SpacesInv

LEMMA ClickPaneGood == ASSUME SpacesInv, spaces # <<>>, NEW p, ClickPane(p) PROVE GoodNext
<1>1. selected \in 1 .. Len(spaces) /\ selected' = selected /\ floating' = floating
  BY CurrentIn DEF ClickPane
<1>2. spaces' = Put(spaces, selected, Focused(spaces[selected], p))
  BY DEF ClickPane, Put
<1> QED
  BY <1>1, <1>2, FocusNext

LEMMA PickPaneGood == ASSUME SpacesInv, NEW i \in 1 .. Len(spaces), NEW p, PickPane(i, p) PROVE GoodNext
<1>1. selected' = i /\ floating' = floating
  BY DEF PickPane
<1>2. spaces' = Put(spaces, i, Focused(spaces[i], p))
  BY DEF PickPane, Put
<1> QED
  BY <1>1, <1>2, FocusNext

LEMMA CyclePaneGood == ASSUME SpacesInv, spaces # <<>>, NEW d, CyclePane(d) PROVE GoodNext
<1>1. selected \in 1 .. Len(spaces) /\ selected' = selected /\ floating' = floating
  BY CurrentIn DEF CyclePane
<1>2. \E p : spaces' = Put(spaces, selected, Focused(spaces[selected], p))
  BY DEF CyclePane, Put
<1>3. PICK p : spaces' = Put(spaces, selected, Focused(spaces[selected], p))
  BY <1>2
<1> QED
  BY <1>1, <1>3, FocusNext

LEMMA ActiveNext ==
  ASSUME SpacesInv, NEW i \in 1 .. Len(spaces), NEW j \in 1 .. Len(spaces[i].tabs),
         spaces' = [spaces EXCEPT ![i].active = j], floating' = floating, selected' = i
  PROVE  GoodNext
<1> DEFINE s == spaces[i]
           r == [s EXCEPT !.active = j]
<1>1. SpaceSound(s, floating)
  BY SpaceAt
<1>a. spaces' = Put(spaces, i, r)
  BY DEF Put
<1>b. j \in 1 .. Len(s.tabs)
  OBVIOUS
<1> HIDE DEF s
<1>2. r \in Space /\ r.tabs = s.tabs /\ r.active = j
  <2>1. s \in [id : Spaces, tabs : Seq(Tab), active : Int] /\ j \in Int
    BY <1>1, <1>b DEF SpaceSound, Space
  <2>2. r \in [id : Spaces, tabs : Seq(Tab), active : Int] /\ r.tabs = s.tabs /\ r.active = j
    BY <2>1, SMT
  <2> HIDE DEF r
  <2> QED
    BY <2>2 DEF Space
<1> HIDE DEF r
<1>3. SpaceSound(r, floating)
  BY <1>1, <1>2, <1>b DEF SpaceSound
<1>4. Of(r) = Of(s)
  BY <1>2 DEF Of
<1>5. Fits(spaces, i, r, floating, floating)
  BY <1>4, FitsSame DEF SpacesInv, s
<1> QED
  BY <1>3, <1>5, <1>a, PutNext

LEMMA TabPlaces ==
  ASSUME SpacesInv, NEW i \in 1 .. Len(spaces)
  PROVE  DOMAIN spaces[i].tabs = 1 .. Len(spaces[i].tabs)
<1>1. spaces[i].tabs \in Seq(Tab)
  BY SpaceAt
<1> QED
  BY <1>1

LEMMA SelectTabGood == ASSUME SpacesInv, NEW i \in 1 .. Len(spaces), NEW j \in 1 .. Len(spaces[i].tabs), SelectTab(i, j) PROVE GoodNext
  BY ActiveNext DEF SelectTab

LEMMA OpenMenuGood == ASSUME SpacesInv, NEW i \in 1 .. Len(spaces), OpenMenu(i) PROVE GoodNext
<1>1. selected' = i /\ floating' = floating
  BY DEF OpenMenu
<1>2. \/ UNCHANGED spaces
      \/ \E j \in DOMAIN spaces[i].tabs : spaces' = [spaces EXCEPT ![i].active = j]
      \/ \E p : spaces' = [spaces EXCEPT ![i] = Focused(@, p)]
  BY DEF OpenMenu
<1>3. CASE UNCHANGED spaces
  BY <1>1, <1>3 DEF GoodNext, SpacesInv
<1>4. CASE \E j \in DOMAIN spaces[i].tabs : spaces' = [spaces EXCEPT ![i].active = j]
  BY <1>1, <1>4, TabPlaces, ActiveNext
<1>5. CASE \E p : spaces' = [spaces EXCEPT ![i] = Focused(@, p)]
  <2>1. PICK p : spaces' = [spaces EXCEPT ![i] = Focused(@, p)]
    BY <1>5
  <2>2. spaces' = Put(spaces, i, Focused(spaces[i], p))
    BY <2>1 DEF Put
  <2> QED
    BY <1>1, <2>2, FocusNext
<1> QED
  BY <1>2, <1>3, <1>4, <1>5
-----------------------------------------------------------------------------
LEMMA LayoutNext ==
  ASSUME SpacesInv, spaces # <<>>, NEW l, Shows(l, ToSet(ActiveTab(Current).panes) \ floating),
         spaces' = Put(spaces, selected, PutTab(Current, Current.active, [ActiveTab(Current) EXCEPT !.layout = l])),
         floating' = floating, selected' = selected
  PROVE  GoodNext
<1> DEFINE i == selected
           j == spaces[i].active
           t == spaces[i].tabs[j]
           u == [t EXCEPT !.layout = l]
<1>1. i \in 1 .. Len(spaces)
  BY CurrentIn
<1>2. j \in 1 .. Len(spaces[i].tabs) /\ TabSound(t, floating)
  BY <1>1, SpaceAt
<1>3. TabSound(u, floating) /\ ToSet(u.panes) = ToSet(t.panes)
  BY <1>2, LayoutSound DEF ActiveTab, Current
<1>4. spaces' = Put(spaces, i, PutTab(spaces[i], j, u))
  BY DEF ActiveTab, Current
<1> HIDE DEF u, j
<1> QED
  BY <1>1, <1>2, <1>3, <1>4, TabKept

LEMMA CurrentShows == ASSUME SpacesInv, spaces # <<>> PROVE Shows(ActiveTab(Current).layout, ToSet(ActiveTab(Current).panes) \ floating)
<1>1. selected \in 1 .. Len(spaces)
  BY CurrentIn
<1>2. TabSound(spaces[selected].tabs[spaces[selected].active], floating)
  BY <1>1, SpaceAt
<1> QED
  BY <1>2, TabFields DEF ActiveTab, Current

LEMMA DragDividerGood == ASSUME SpacesInv, NEW r \in Ratios, DragDivider(r) PROVE GoodNext
<1>a. PICK i \in DOMAIN spaces : \E j \in DOMAIN spaces[i].tabs : \E n \in Dragged(spaces[i].tabs[j].layout, r) :
         spaces' = [spaces EXCEPT ![i].tabs[j].layout = n]
  BY DEF DragDivider
<1>b. PICK j \in DOMAIN spaces[i].tabs : \E n \in Dragged(spaces[i].tabs[j].layout, r) :
         spaces' = [spaces EXCEPT ![i].tabs[j].layout = n]
  BY <1>a
<1>1. PICK n \in Dragged(spaces[i].tabs[j].layout, r) : spaces' = [spaces EXCEPT ![i].tabs[j].layout = n]
  BY <1>b
<1>2. i \in 1 .. Len(spaces)
  BY GoodFields DEF SpacesInv
<1>3. j \in 1 .. Len(spaces[i].tabs)
  BY <1>2, TabPlaces
<1> DEFINE t == spaces[i].tabs[j]
           u == [t EXCEPT !.layout = n]
<1>4. TabSound(t, floating) /\ spaces # <<>>
  BY <1>2, <1>3, SpaceAt
<1>5. spaces' = Put(spaces, i, PutTab(spaces[i], j, u))
  BY <1>1 DEF Put, PutTab
<1>6. Shows(n, ToSet(t.panes) \ floating)
  BY <1>4, TabFields, DraggedShows
<1>7. TabSound(u, floating) /\ ToSet(u.panes) = ToSet(t.panes)
  BY <1>4, <1>6, LayoutSound
<1>8. selected \in 1 .. Len(spaces) /\ selected' = selected /\ floating' = floating
  BY <1>4, CurrentIn DEF DragDivider
<1> HIDE DEF u
<1> QED
  BY <1>2, <1>3, <1>5, <1>7, <1>8, TabKept

LEMMA EqualizeGood == ASSUME SpacesInv, spaces # <<>>, EqualizeCurrent PROVE GoodNext
<1> DEFINE n == Equalized(ActiveTab(Current).layout)
<1>1. Shows(n, ToSet(ActiveTab(Current).panes) \ floating)
  BY CurrentShows, EqualizedShows
<1>2. spaces' = Put(spaces, selected, PutTab(Current, Current.active, [ActiveTab(Current) EXCEPT !.layout = n]))
  BY DEF EqualizeCurrent, Put, PutTab, ActiveTab, Current
<1> HIDE DEF n
<1> QED
  BY <1>1, <1>2, LayoutNext DEF EqualizeCurrent

LEMMA MoveSpaceGood == ASSUME SpacesInv, NEW i \in 1 .. Len(spaces), MoveSpaceTo(i) PROVE GoodNext
<1>1. PICK from \in DOMAIN spaces \ {i} : spaces' = InsertAt(RemoveAt(spaces, from), i, spaces[from])
  BY DEF MoveSpaceTo
<1>2. from \in 1 .. Len(spaces) /\ Good(spaces, floating)
  BY GoodFields DEF SpacesInv
<1> DEFINE sp == InsertAt(RemoveAt(spaces, from), i, spaces[from])
<1>3. Good(sp, floating) /\ Len(sp) = Len(spaces)
  BY <1>2, GoodMoved
<1> HIDE DEF sp
<1>4. floating' = floating /\ selected' = i
  BY DEF MoveSpaceTo
<1> QED
  BY <1>1, <1>3, <1>4 DEF GoodNext, sp

-----------------------------------------------------------------------------
(* Handlers that close.                                                    *)

LEMMA RemovedNext ==
  ASSUME SpacesInv, NEW i \in 1 .. Len(spaces), NEW s, SpaceSound(s, floating), Of(s) = Of(spaces[i]), NEW p \in Of(s),
         spaces' = Put(spaces, i, WithoutPane(s, p)), floating' = floating \ {p}, NEW k \in 1 .. Len(spaces), selected' = k
  PROVE  GoodNext
<1> DEFINE r == WithoutPane(s, p)
           fm == floating \ {p}
           G == {p}
<1>1. SpaceSound(r, fm) /\ Of(r) = Of(s) \ G
  BY WithoutPaneSound
<1>2. spaces' = Put(spaces, i, r) /\ floating' = fm
  OBVIOUS
<1>3. G \subseteq Of(spaces[i]) /\ fm = floating \ G
  OBVIOUS
<1> HIDE DEF r, fm, G
<1>4. Fits(spaces, i, r, floating, fm)
  BY <1>1, <1>3, FitsLess DEF SpacesInv
<1> QED
  BY <1>1, <1>2, <1>4, PutNext

LEMMA Owner ==
  ASSUME SpacesInv, NEW p \in Live(spaces)
  PROVE  OwnerOf(p) \in 1 .. Len(spaces) /\ p \in Of(spaces[OwnerOf(p)]) /\ spaces # <<>>
<1>1. DOMAIN spaces = 1 .. Len(spaces) /\ Live(spaces) = AllOf(spaces)
  BY GoodFields DEF SpacesInv
<1>2. \E i \in 1 .. Len(spaces) : p \in Of(spaces[i])
  BY <1>1, InSpaces
<1>3. OwnerOf(p) = CHOOSE i \in DOMAIN spaces : p \in Of(spaces[i])
  BY LiveOne DEF OwnerOf
<1>4. OwnerOf(p) \in 1 .. Len(spaces) /\ p \in Of(spaces[OwnerOf(p)])
  BY <1>1, <1>2, <1>3
<1>5. spaces # <<>>
  BY <1>2
<1> QED
  BY <1>4, <1>5

LEMMA RemovePaneGood == ASSUME SpacesInv, NEW p, RemovePane(p) PROVE GoodNext
<1> DEFINE i == OwnerOf(p)
<1>1. i \in 1 .. Len(spaces) /\ p \in Of(spaces[i]) /\ spaces # <<>>
  BY Owner DEF RemovePane
<1>2. spaces' = Put(spaces, i, WithoutPane(spaces[i], p)) /\ floating' = floating \ {p} /\ selected' = selected
  BY DEF RemovePane, Put
<1> HIDE DEF i
<1>3. selected \in 1 .. Len(spaces)
  BY <1>1, CurrentIn
<1>4. SpaceSound(spaces[i], floating)
  BY <1>1, SpaceAt
<1> QED
  BY <1>1, <1>2, <1>3, <1>4, RemovedNext

LEMMA FocusedPaneIn ==
  ASSUME NEW fl, NEW s, SpaceSound(s, fl), FocusedPane(s) # None
  PROVE  FocusedPane(s) \in Of(s)
<1> DEFINE t == s.tabs[s.active]
<1>1. TabSound(t, fl) /\ ToSet(t.panes) \subseteq Of(s)
  BY SpaceFields
<1>2. t.panes # <<>> /\ FocusedPane(s) = t.panes[t.selected]
  BY DEF FocusedPane, ActiveTab
<1> HIDE DEF t
<1>3. t.selected \in 1 .. Len(t.panes) /\ t.panes \in Seq(Panes)
  BY <1>1, <1>2, TabFields
<1>4. t.panes[t.selected] \in ToSet(t.panes)
  BY <1>3, SetOf
<1> QED
  BY <1>1, <1>2, <1>4

LEMMA CloseFocusedGood ==
  ASSUME SpacesInv, NEW i \in 1 .. Len(spaces), NEW s, SpaceSound(s, floating), Of(s) = Of(spaces[i]), CloseFocused(i, s)
  PROVE  GoodNext
<1>1. selected' = i
  BY DEF CloseFocused
<1>2. CASE FocusedPane(s) = None
  <2>1. spaces' = Put(spaces, i, s) /\ floating' = floating
    BY <1>2 DEF CloseFocused, Put
  <2>2. Fits(spaces, i, s, floating, floating)
    BY FitsSame DEF SpacesInv
  <2> QED
    BY <1>1, <2>1, <2>2, PutNext
<1>3. CASE FocusedPane(s) # None
  <2>1. FocusedPane(s) \in Of(s)
    BY <1>3, FocusedPaneIn
  <2>2. spaces' = Put(spaces, i, WithoutPane(s, FocusedPane(s))) /\ floating' = floating \ {FocusedPane(s)}
    BY <1>3 DEF CloseFocused, Put
  <2> QED
    BY <1>1, <2>1, <2>2, RemovedNext
<1> QED
  BY <1>2, <1>3

LEMMA CloseFocusedAfter ==
  ASSUME SpacesInv, NEW i \in 1 .. Len(spaces), NEW p, CloseFocused(i, Focused(spaces[i], p))
  PROVE  GoodNext
<1> DEFINE s == Focused(spaces[i], p)
<1>1. SpaceSound(spaces[i], floating)
  BY SpaceAt
<1>2. SpaceSound(s, floating) /\ Of(s) = Of(spaces[i])
  BY <1>1, FocusedSound
<1>3. CloseFocused(i, s)
  OBVIOUS
<1> HIDE DEF s
<1> QED
  BY <1>2, <1>3, CloseFocusedGood

LEMMA ClosePaneGood == ASSUME SpacesInv, NEW p, ClosePane(p) PROVE GoodNext
<1>1. OwnerOf(p) \in 1 .. Len(spaces) /\ CloseFocused(OwnerOf(p), Focused(spaces[OwnerOf(p)], p))
  BY Owner DEF ClosePane
<1> QED
  BY <1>1, CloseFocusedAfter

LEMMA CloseSpaceGood == ASSUME SpacesInv, NEW i \in 1 .. Len(spaces), CloseSpace(i) PROVE GoodNext
<1> DEFINE sp == RemoveAt(spaces, i)
           k == Clamp(i, 1, Len(spaces) - 1)
           n == Len(spaces)
<1>1. Good(spaces, floating) /\ n \in Nat
  BY GoodFields DEF SpacesInv
<1>2. Good(sp, floating \ Of(spaces[i])) /\ Len(sp) = n - 1
  BY <1>1, GoodRemoved
<1>3. spaces' = sp /\ floating' = floating \ Of(spaces[i]) /\ selected' = k
  BY LiveOne DEF CloseSpace
<1>4. sp \in Seq(Space)
  BY <1>2, GoodFields
<1>5. sp # <<>> => Len(sp) # 0
  BY <1>4, EmptySeq, Zenon
<1>6. i \in Int /\ i \in 1 .. n
  BY <1>1
<1>7. k = Clamp(i, 1, n - 1)
  OBVIOUS
<1> HIDE DEF sp, n, k
<1>8. n - 1 \in Nat
  BY <1>1, <1>6
<1>9. n - 1 # 0 => k \in 1 .. n - 1
  BY <1>6, <1>7, <1>8, ClampIn
<1>10. sp = <<>> \/ k \in 1 .. Len(sp)
  BY <1>2, <1>5, <1>9
<1> QED
  BY <1>2, <1>3, <1>10 DEF GoodNext

LEMMA CloseTabGood == ASSUME SpacesInv, spaces # <<>>, Len(Current.tabs) > 1, NEW j \in DOMAIN Current.tabs, CloseTab(j) PROVE GoodNext
<1> DEFINE i == selected
           s == spaces[i]
           G == ToSet(s.tabs[j].panes)
           r == WithoutTab(s, j)
           fm == floating \ G
<1>1. i \in 1 .. Len(spaces)
  BY CurrentIn
<1>2. SpaceSound(s, floating)
  BY <1>1, SpaceAt
<1>3. DOMAIN s.tabs = 1 .. Len(s.tabs)
  BY <1>2, SpaceFields
<1>4. j \in 1 .. Len(s.tabs) /\ Len(s.tabs) > 1
  BY <1>3 DEF Current
<1>5. spaces' = Put(spaces, i, r) /\ floating' = fm /\ selected' = selected
  BY DEF CloseTab, Current, Put
<1>6. SpaceSound(r, floating) /\ Of(r) = Of(s) \ G
  BY <1>2, <1>4, WithoutTabSound
<1>7. G \subseteq Of(s)
  BY <1>2, <1>4, SpaceFields
<1> HIDE DEF r, G
<1>8. \A p \in Of(r) : p \in floating <=> p \in fm
  BY <1>6
<1>9. fm = floating \ G
  OBVIOUS
<1> HIDE DEF fm
<1>10. SpaceSound(r, fm)
  BY <1>6, <1>8, SpaceElsewhere
<1>11. Fits(spaces, i, r, floating, fm)
  BY <1>1, <1>6, <1>7, <1>9, FitsLess DEF SpacesInv
<1> QED
  BY <1>1, <1>5, <1>10, <1>11, PutNext

-----------------------------------------------------------------------------
(* Menus, launches, and every step.                                        *)

LEMMA SelectedIn ==
  ASSUME SpacesInv, spaces # <<>>, NEW id
  PROVE  Selected(id) \in 1 .. Len(spaces) /\ (id \in Ids(spaces) => spaces[Selected(id)].id = id)
<1>1. DOMAIN spaces = 1 .. Len(spaces) /\ spaces \in Seq(Space)
  BY GoodFields DEF SpacesInv
<1>2. selected \in 1 .. Len(spaces)
  BY CurrentIn
<1>3. CASE id \in Ids(spaces)
  <2>1. PICK s \in ToSet(spaces) : s.id = id
    BY <1>3 DEF Ids
  <2>2. \E i \in DOMAIN spaces : spaces[i].id = id
    BY <1>1, <2>1, SetOf
  <2> QED
    BY <1>1, <1>3, <2>2 DEF Selected
<1>4. CASE id \notin Ids(spaces)
  BY <1>2, <1>4 DEF Selected
<1> QED
  BY <1>3, <1>4

(* Handlers that leave the workspaces alone, but for the selection.        *)
LEMMA SameGood ==
  ASSUME SpacesInv, spaces' = spaces, floating' = floating, spaces = <<>> \/ selected' \in 1 .. Len(spaces)
  PROVE  GoodNext
  BY DEF SpacesInv, GoodNext

LEMMA MenuRunsGood == ASSUME SpacesInv, MenuRuns PROVE GoodNext /\ (Persist \/ Unsaved)
<1>1. spaces # <<>>
  BY DEF MenuRuns
<1>2. selected \in 1 .. Len(spaces) /\ Selected(menu.target) \in 1 .. Len(spaces)
  BY <1>1, CurrentIn, SelectedIn
<1>3. CASE CloseSpace(Selected(menu.target))
  BY <1>2, <1>3, CloseSpaceGood DEF CloseSpace
<1>4. CASE CloseFocused(selected, Focused(Current, menu.target))
  BY <1>2, <1>4, CloseFocusedAfter DEF CloseFocused, Current
<1>5. CASE KindPicked
  <2>1. CASE \E v, b \in BOOLEAN : SplitPane(selected, v, b)
    BY <1>2, <2>1, SplitPaneGood DEF SplitPane
  <2>2. CASE NewTab(Selected(menu.target))
    BY <1>2, <2>2, NewTabGood DEF NewTab
  <2> QED
    BY <1>5, <2>1, <2>2 DEF KindPicked
<1>6. CASE TabClosed
  <2>1. CASE \E j \in DOMAIN Current.tabs : CloseTab(j)
    BY <1>1, <1>6, <2>1, CloseTabGood DEF CloseTab, TabClosed
  <2>2. CASE UNCHANGED <<spaces, selected, floating, drag>> /\ Persist
    BY <1>2, <2>2, SameGood
  <2> QED
    BY <1>6, <2>1, <2>2 DEF TabClosed
<1> QED
  BY <1>3, <1>4, <1>5, <1>6 DEF MenuRuns

LEMMA EmptyGood == Good(<<>>, {})
<1>1. <<>> \in Seq(Space) /\ Len(<<>>) = 0
  OBVIOUS
<1>2. 1 .. Len(<<>>) = {}
  BY <1>1
<1> QED
  BY <1>1, <1>2 DEF Good, SpacesSound

(* The workspace of the command line comes after what was restored.        *)
LEMMA NamedGood ==
  ASSUME NEW sp, Good(sp, {}), NEW id \in Spaces, NEW p \in Panes, p \notin Live(sp)
  PROVE  Good(Append(sp, NewSpaceOf(id, p)), {}) /\ Len(Append(sp, NewSpaceOf(id, p))) = Len(sp) + 1
<1> DEFINE s == NewSpaceOf(id, p)
<1>1. SpaceSound(s, {}) /\ Of(s) = {p}
  BY NewSpaceSound
<1> HIDE DEF s
<1>2. Of(s) \cap Live(sp) = {}
  BY <1>1
<1>3. Good(Append(sp, s), {}) /\ Len(Append(sp, s)) = Len(sp) + 1
  BY <1>1, <1>2, GoodAppended
<1> QED
  BY <1>3 DEF s

LEMMA RelaunchGood == ASSUME SpacesInv, Relaunch PROVE GoodNext /\ FileSound(file')
<1>1. PICK f \in {file, SnapshotSpaces(spaces, floating)}, n \in 1 .. Cardinality(Panes) :
         /\ selected' = Clamp(n, 1, Len(Restored(f, n))) /\ file' = f
         /\ \/ Restored(f, n) # <<>> /\ spaces' = Restored(f, n)
            \/ \E id \in Spaces \ Ids(Restored(f, n)), p \in Panes \ Live(Restored(f, n)) :
                  spaces' = Append(Restored(f, n), NewSpaceOf(id, p))
  BY DEF Relaunch
<1>2. floating' = {}
  BY DEF Relaunch
<1>3. FileSound(f)
  BY SnapshotSound DEF SpacesInv, Good
<1> DEFINE sp == Restored(f, n)
           k == Clamp(n, 1, Len(sp))
<1>4. n \in Int
  OBVIOUS
<1>5. Good(sp, {})
  BY <1>3, <1>4, RestoredSound DEF Good
<1>6. selected' = k /\ file' = f
  BY <1>1
<1>7. CASE sp # <<>> /\ spaces' = sp
  <2> HIDE DEF sp
  <2>1. sp \in Seq(Space) /\ Len(sp) \in Nat
    BY <1>5, GoodFields
  <2>2. Len(sp) # 0
    BY <1>7, <2>1, EmptySeq, Zenon
  <2>3. k \in 1 .. Len(sp)
    BY <1>4, <2>1, <2>2, ClampIn
  <2> HIDE DEF k
  <2> QED
    BY <1>2, <1>3, <1>5, <1>6, <1>7, <2>3 DEF GoodNext
<1>8. CASE \E id \in Spaces \ Ids(sp), p \in Panes \ Live(sp) : spaces' = Append(sp, NewSpaceOf(id, p))
  <2>1. PICK id \in Spaces \ Ids(sp), p \in Panes \ Live(sp) : spaces' = Append(sp, NewSpaceOf(id, p))
    BY <1>8
  <2> HIDE DEF sp
  <2>2. Good(spaces', {}) /\ Len(spaces') = Len(sp) + 1
    BY <1>5, <2>1, NamedGood
  <2>3. Len(sp) \in Nat
    BY <1>5, GoodFields
  <2>4. k \in 1 .. Len(sp) + 1
    <3> DEFINE m == Len(sp)
    <3> HIDE DEF m
    <3>1. m \in Nat
      BY <2>3 DEF m
    <3>2. Clamp(n, 1, m) \in 1 .. m + 1
      BY <1>4, <3>1 DEF Clamp
    <3> QED
      BY <3>2 DEF m
  <2> HIDE DEF k
  <2> QED
    BY <1>2, <1>3, <1>6, <2>2, <2>4 DEF GoodNext
<1> QED
  BY <1>1, <1>7, <1>8

LEMMA SpacesStart == SpacesInit => SpacesInv
<1> SUFFICES ASSUME SpacesInit PROVE SpacesInv
  OBVIOUS
<1>1. PICK id \in Spaces, p \in Panes : spaces = <<NewSpaceOf(id, p)>>
  BY DEF SpacesInit
<1>2. p \notin Live(<<>>)
  BY DEF Live, ToSet
<1> DEFINE s == NewSpaceOf(id, p)
<1>3. Good(Append(<<>>, s), {}) /\ Len(Append(<<>>, s)) = Len(<<>>) + 1
  BY <1>2, EmptyGood, NamedGood
<1> HIDE DEF s
<1>4. Append(<<>>, s) = <<s>> /\ Len(<<s>>) = 1
  OBVIOUS
<1>5. Good(spaces, floating) /\ selected \in 1 .. Len(spaces)
  BY <1>1, <1>3, <1>4 DEF SpacesInit, s
<1>6. FileSound(file)
  <2>1. file = <<>> /\ file \in Seq(SavedSpace) /\ Len(file) = 0
    BY DEF SpacesInit
  <2> QED
    BY <2>1 DEF FileSound
<1>7. menu.kind \notin {"space", "tabs"}
  BY DEF SpacesInit, NoMenu
<1> QED
  BY <1>5, <1>6, <1>7 DEF SpacesInv

MenuNext == menu'.kind \in {"space", "tabs"} => menu'.target \in Spaces

LEMMA MenuStep == ASSUME SpacesInv, [SpacesNext]_spacesVars PROVE MenuNext
<1>1. UNCHANGED menu => MenuNext
  BY DEF MenuNext, SpacesInv
<1>2. menu' = NoMenu => MenuNext
  BY DEF MenuNext, NoMenu
<1>3. ASSUME NEW i \in DOMAIN spaces, OpenMenu(i) PROVE MenuNext
  <2>1. \/ \E k \in {"space", "tabs"} : menu' = [kind |-> k, target |-> spaces[i].id]
        \/ \E p : menu' = [kind |-> "pane", target |-> p]
    BY <1>3 DEF OpenMenu
  <2>2. i \in 1 .. Len(spaces)
    BY GoodFields DEF SpacesInv
  <2>3. spaces[i].id \in Spaces
    BY <2>2, SpaceAt DEF SpaceSound, Space
  <2> QED
    BY <2>1, <2>3 DEF MenuNext
<1>4. OpenPicker => MenuNext
  BY DEF OpenPicker, MenuNext
<1>5. NewSpace \/ CloseMenu \/ MenuRuns \/ Release \/ DropDivider \/ Relaunch => UNCHANGED menu \/ menu' = NoMenu
  BY DEF NewSpace, CloseMenu, MenuRuns, Release, DropDivider, Relaunch
<1>6. \A r : DragDivider(r) => UNCHANGED menu
  BY DEF DragDivider
<1>7. \A p : RemovePane(p) \/ ClosePane(p) \/ ClickPane(p) => UNCHANGED menu
  BY DEF RemovePane, ClosePane, ClickPane
<1>8. \A i : Float(i) \/ SelectSpace(i) \/ Press(i) \/ MoveSpaceTo(i) => UNCHANGED menu
  BY DEF Float, SelectSpace, Press, MoveSpaceTo
<1>9. \A i, p : PickPane(i, p) \/ SelectTab(i, p) => UNCHANGED menu
  BY DEF PickPane, SelectTab
<1>10. EqualizeCurrent \/ PressDivider \/ (\E d : CyclePane(d)) => UNCHANGED menu
  BY DEF EqualizeCurrent, PressDivider, CyclePane
<1>11. UNCHANGED spacesVars => UNCHANGED menu
  BY DEF spacesVars
<1> HIDE DEF MenuNext
<1> QED
  BY <1>1, <1>2, <1>3, <1>4, <1>5, <1>6, <1>7, <1>8, <1>9, <1>10, <1>11 DEF SpacesNext

LEMMA SpacesStep ==
  ASSUME SpacesInv, SpacesNext
  PROVE  GoodNext /\ (Persist \/ Unsaved \/ Moving \/ FileSound(file'))
<1> DEFINE P == GoodNext /\ (Persist \/ Unsaved \/ Moving \/ FileSound(file'))
<1>1. DOMAIN spaces = 1 .. Len(spaces) /\ (spaces = <<>> \/ selected \in 1 .. Len(spaces))
  BY GoodFields DEF SpacesInv
<1>2. NewSpace => P
  BY NewSpaceGood DEF NewSpace
<1>3. \A r \in Ratios : DragDivider(r) => P
  BY DragDividerGood DEF DragDivider
<1>4. CloseMenu \/ Release \/ DropDivider => P
  BY <1>1, SameGood DEF CloseMenu, Release, DropDivider
<1>5. MenuRuns => P
  BY MenuRunsGood
<1>6. Relaunch => P
  BY RelaunchGood
<1>7. \A p : RemovePane(p) => P
  BY RemovePaneGood DEF RemovePane
<1>8. \A p : ClosePane(p) => P
  BY ClosePaneGood DEF ClosePane, CloseFocused
<1>9. ASSUME NEW i \in DOMAIN spaces,
             \/ NewTab(i) \/ (\E v \in BOOLEAN : SplitPane(i, v, FALSE)) \/ Float(i) \/ SelectSpace(i) \/ Press(i) \/ MoveSpaceTo(i)
             \/ OpenMenu(i)
             \/ CloseSpace(i) \/ (\E p : PickPane(i, p)) \/ (\E j \in DOMAIN spaces[i].tabs : SelectTab(i, j))
      PROVE  P
  <2>1. i \in 1 .. Len(spaces)
    BY <1>1, <1>9
  <2>2. NewTab(i) => P
    BY <2>1, NewTabGood DEF NewTab
  <2>3. \A v \in BOOLEAN : SplitPane(i, v, FALSE) => P
    BY <2>1, SplitPaneGood DEF SplitPane
  <2>4. Float(i) => P
    BY <2>1, FloatGood DEF Float
  <2>5. SelectSpace(i) \/ Press(i) => P
    BY <2>1, SameGood DEF SelectSpace, Press
  <2>6. MoveSpaceTo(i) => P
    BY <2>1, MoveSpaceGood DEF MoveSpaceTo
  <2>7. CloseSpace(i) => P
    BY <2>1, CloseSpaceGood DEF CloseSpace
  <2>8. \A p : PickPane(i, p) => P
    BY <2>1, PickPaneGood DEF PickPane
  <2>9. \A j \in DOMAIN spaces[i].tabs : SelectTab(i, j) => P
    <3>2. DOMAIN spaces[i].tabs = 1 .. Len(spaces[i].tabs)
      BY <2>1, TabPlaces
    <3>3. \A j \in 1 .. Len(spaces[i].tabs) : SelectTab(i, j) => P
      BY <2>1, SelectTabGood DEF SelectTab
    <3> QED
      BY <3>2, <3>3, Zenon
  <2>10. OpenMenu(i) => P
    BY <2>1, OpenMenuGood DEF OpenMenu
  <2> HIDE DEF P
  <2> QED
    BY <1>9, <2>2, <2>3, <2>4, <2>5, <2>6, <2>7, <2>8, <2>9, <2>10
<1>10. ASSUME spaces # <<>>,
              \/ OpenPicker \/ EqualizeCurrent \/ PressDivider \/ (\E d \in {1, -1} : CyclePane(d)) \/ (\E p \in Panes : ClickPane(p))
       PROVE  P
  <2>1. OpenPicker \/ PressDivider => P
    BY <1>1, SameGood DEF OpenPicker, PressDivider
  <2>2. EqualizeCurrent => P
    BY <1>10, EqualizeGood DEF EqualizeCurrent
  <2>4. \A d : CyclePane(d) => P
    BY <1>10, CyclePaneGood DEF CyclePane
  <2>5. \A p : ClickPane(p) => P
    BY <1>10, ClickPaneGood DEF ClickPane
  <2> HIDE DEF P
  <2> QED
    BY <1>10, <2>1, <2>2, <2>4, <2>5
<1> HIDE DEF P
<1>11. P
  BY <1>2, <1>3, <1>4, <1>5, <1>6, <1>7, <1>8, <1>9, <1>10 DEF SpacesNext
<1> QED
  BY <1>11 DEF P

LEMMA SpacesInvStep == SpacesInv /\ [SpacesNext]_spacesVars => SpacesInv'
<1> SUFFICES ASSUME SpacesInv, [SpacesNext]_spacesVars PROVE SpacesInv'
  OBVIOUS
<1>1. MenuNext
  BY MenuStep
<1>2. CASE UNCHANGED spacesVars
  BY <1>2 DEF spacesVars, SpacesInv, Good
<1>3. CASE SpacesNext
  <2>1. GoodNext /\ FileSound(file')
    BY <1>3, SpacesStep, SavedNext
  <2> QED
    BY <1>1, <2>1 DEF SpacesInv, GoodNext, MenuNext
<1> QED
  BY <1>2, <1>3

(* Workspaces, tabs, trees, what floats and the state file stay in step,   *)
(* whatever is opened, arranged, closed, restored and clicked (SpacesInv). *)
THEOREM SpacesStaySound == SpacesSpec => []SpacesInv
  BY SpacesStart, SpacesInvStep, PTL DEF SpacesSpec

-----------------------------------------------------------------------------
(* The theorems.                                                           *)

LEMMA SoundComplete == SpacesInv => LayoutsComplete
<1> SUFFICES ASSUME SpacesInv PROVE LayoutsComplete
  OBVIOUS
<1>1. DOMAIN spaces = 1 .. Len(spaces)
  BY GoodFields DEF SpacesInv
<1>2. ASSUME NEW i \in DOMAIN spaces
      PROVE  /\ spaces[i].active \in DOMAIN spaces[i].tabs
             /\ \A j \in DOMAIN spaces[i].tabs : TabSound(spaces[i].tabs[j], floating)
  <2>1. i \in 1 .. Len(spaces)
    BY <1>1
  <2>2. /\ spaces[i].active \in 1 .. Len(spaces[i].tabs) /\ spaces[i].tabs \in Seq(Tab)
        /\ \A j \in 1 .. Len(spaces[i].tabs) : TabSound(spaces[i].tabs[j], floating)
    BY <2>1, SpaceAt
  <2>3. DOMAIN spaces[i].tabs = 1 .. Len(spaces[i].tabs)
    BY <2>2
  <2> QED
    BY <2>2, <2>3
<1>3. ASSUME NEW t, TabSound(t, floating)
      PROVE  LayoutComplete(t.layout, Kept(t, floating)) /\ (t.panes = <<>> \/ t.selected \in DOMAIN t.panes)
  <2>1. /\ t.panes \in Seq(Panes) /\ IsInjective(t.panes) /\ Shows(t.layout, ToSet(t.panes) \ floating)
        /\ (t.panes = <<>> \/ t.selected \in 1 .. Len(t.panes))
    BY <1>3, TabFields
  <2> DEFINE r == Kept(t, floating)
  <2>2. ToSet(r) = ToSet(t.panes) \ floating /\ IsInjective(r)
    BY <2>1, WithoutSet DEF Kept
  <2> HIDE DEF r
  <2>3. LayoutComplete(t.layout, r)
    BY <2>1, <2>2, ShowsComplete
  <2>4. DOMAIN t.panes = 1 .. Len(t.panes)
    BY <2>1
  <2> QED
    BY <2>1, <2>3, <2>4 DEF r
<1>4. spaces = <<>> \/ selected \in DOMAIN spaces
  BY <1>1 DEF SpacesInv
<1> QED
  BY <1>2, <1>3, <1>4, Zenon DEF LayoutsComplete

(* Every tab shows each of its panes that do not float in exactly one leaf *)
(* of its tree, and selections are places of their lists                   *)
(* (LayoutsComplete), over any sequence of handlers and launches.          *)
THEOREM LayoutsStayComplete == SpacesSpec => []LayoutsComplete
  BY SpacesStaySound, SoundComplete, PTL

LEMMA ClosedIn ==
  ASSUME SpacesInv, GoodNext, NEW i \in 1 .. Len(spaces), NEW s, spaces' = [spaces EXCEPT ![i] = s]
  PROVE  Gone \subseteq Of(spaces[i])
<1>1. Live(spaces) = AllOf(spaces) /\ spaces \in Seq(Space) /\ DOMAIN spaces = 1 .. Len(spaces)
  BY GoodFields DEF SpacesInv
<1>2. Live(spaces') = AllOf(spaces') /\ DOMAIN spaces' = 1 .. Len(spaces')
  BY GoodFields DEF GoodNext
<1>3. DOMAIN spaces' = DOMAIN spaces /\ \A k \in DOMAIN spaces \ {i} : spaces'[k] = spaces[k]
  OBVIOUS
<1> SUFFICES ASSUME NEW p \in Live(spaces), p \notin Of(spaces[i]) PROVE p \in Live(spaces')
  BY DEF Gone
<1>4. PICK k \in 1 .. Len(spaces) : p \in Of(spaces[k])
  BY <1>1, InSpaces
<1>5. k # i /\ k \in DOMAIN spaces \ {i}
  BY <1>1, <1>4
<1>6. k \in 1 .. Len(spaces') /\ p \in Of(spaces'[k])
  BY <1>2, <1>3, <1>4, <1>5
<1> QED
  BY <1>2, <1>6, InSpaces

LEMMA OfTarget ==
  ASSUME SpacesInv, NEW i \in 1 .. Len(spaces), spaces[i].id = menu.target
  PROVE  Of(spaces[i]) \subseteq TargetPanes
<1>1. spaces[i] \in {x \in ToSet(spaces) : x.id = menu.target}
  <2>1. spaces[i] \in ToSet(spaces)
    BY GoodFields, SetOf DEF SpacesInv
  <2> QED
    BY <2>1
<1>2. Of(spaces[i]) = Live(<<spaces[i]>>)
  BY LiveOne
<1>3. Live(<<spaces[i]>>) \subseteq TargetPanes
  BY <1>1, Zenon DEF TargetPanes
<1> QED
  BY <1>2, <1>3

LEMMA OpenPanes == SpacesInv => Live(spaces) \subseteq Panes
<1> SUFFICES ASSUME SpacesInv, NEW p \in Live(spaces) PROVE p \in Panes
  OBVIOUS
<1> DEFINE k == OwnerOf(p)
<1>1. k \in 1 .. Len(spaces) /\ p \in Of(spaces[k])
  BY Owner
<1>2. SpaceSound(spaces[k], floating)
  BY <1>1, SpaceAt
<1> HIDE DEF k
<1> DEFINE j == TabOf(spaces[k], p)
<1>3. j \in 1 .. Len(spaces[k].tabs) /\ p \in ToSet(spaces[k].tabs[j].panes)
  BY <1>1, <1>2, TabOfIn
<1> HIDE DEF j
<1>4. spaces[k].tabs[j].panes \in Seq(Panes)
  BY <1>1, <1>3, SpaceAt, TabFields
<1> QED
  BY <1>3, <1>4, SetOf

LEMMA MenuStepCloses ==
  ASSUME SpacesInv, MenuRuns, menu.kind \in {"space", "tabs"}
  PROVE  Gone \subseteq TargetPanes
<1>1. menu.target \in Spaces /\ spaces # <<>> /\ Good(spaces, floating) /\ GoodNext
  BY MenuRunsGood DEF SpacesInv, MenuRuns
<1>2. CASE menu.kind = "space"
  <2> DEFINE id == menu.target
             i == Selected(id)
  <2>1. CloseSpace(i)
    BY <1>2 DEF MenuRuns, KindPicked
  <2>2. id \in Ids(spaces)
    BY <1>1, OpenPanes, WorkspacesAssumption DEF MenuRuns, Targeted
  <2>3. i \in 1 .. Len(spaces) /\ spaces[i].id = id
    BY <1>1, <2>2, SelectedIn
  <2> HIDE DEF i
  <2>4. spaces' = RemoveAt(spaces, i)
    BY <2>1 DEF CloseSpace
  <2>5. Live(RemoveAt(spaces, i)) = Live(spaces) \ Of(spaces[i])
    BY <1>1, <2>3, GoodRemoved
  <2>6. Gone \subseteq Of(spaces[i])
    BY <2>4, <2>5, Zenon DEF Gone
  <2> QED
    BY <2>3, <2>6, OfTarget
<1>3. CASE menu.kind = "tabs"
  <2>1. TabClosed
    BY <1>3 DEF MenuRuns, KindPicked
  <2>2. CASE Current.id = menu.target
    <3>1. PICK j \in DOMAIN Current.tabs : CloseTab(j)
      BY <2>1, <2>2 DEF TabClosed
    <3>2. selected \in 1 .. Len(spaces) /\ spaces[selected].id = menu.target
      BY <1>1, <2>2, CurrentIn DEF Current
    <3>3. spaces' = [spaces EXCEPT ![selected] = WithoutTab(spaces[selected], j)]
      BY <3>1 DEF CloseTab
    <3>4. Gone \subseteq Of(spaces[selected])
      BY <1>1, <3>2, <3>3, ClosedIn
    <3> QED
      BY <3>2, <3>4, OfTarget
  <2>3. CASE Current.id # menu.target
    <3>1. spaces' = spaces
      BY <2>1, <2>3 DEF TabClosed
    <3>2. Gone = {}
      BY <3>1, Zenon DEF Gone
    <3> QED
      BY <3>2
  <2> QED
    BY <2>2, <2>3
<1> QED
  BY <1>2, <1>3

(* An action of a workspace's or a tab's menu never closes what is not in  *)
(* the workspace the menu was opened for (MenusCloseTheirSpace), whatever  *)
(* happened while it was open.                                             *)
THEOREM MenusStayWithTheirSpace == SpacesSpec => MenusCloseTheirSpace
<1>1. SpacesInv /\ [SpacesNext]_spacesVars => [MenuRuns /\ menu.kind \in {"space", "tabs"} => Gone \subseteq TargetPanes]_spacesVars
  BY MenuStepCloses
<1> QED
  BY <1>1, SpacesStaySound, PTL DEF SpacesSpec, MenusCloseTheirSpace

-----------------------------------------------------------------------------
(* What a launch shows.                                                    *)
(* Two lists without the same places.                                      *)
Paired(h, r, q, list, list2, gone) ==
    /\ Len(r) = Len(q)
    /\ \A a \in 1 .. Len(r) : h[a] \in 1 .. Len(list) /\ list[h[a]] \notin gone /\ r[a] = list[h[a]] /\ q[a] = list2[h[a]]

Alike(list, gone, list2, gone2) ==
    /\ Len(list) = Len(list2)
    /\ \A i \in 1 .. Len(list) : list[i] \in gone <=> list2[i] \in gone2

LEMMA PairedWithout ==
  ASSUME NEW T, NEW U, NEW list \in Seq(T), NEW list2 \in Seq(U), NEW gone, NEW gone2, Alike(list, gone, list2, gone2)
  PROVE  \E h : Paired(h, Without(list, gone), Without(list2, gone2), list, list2, gone)
<1> DEFINE kept == {i \in 1 .. Len(list) : list[i] \notin gone}
           r == Without(list, gone)
           q == Without(list2, gone2)
<1>1. kept = {i \in 1 .. Len(list2) : list2[i] \notin gone2}
  BY DEF Alike
<1>2. kept \in SUBSET Nat /\ kept \in SUBSET (1 .. Len(list)) /\ \A i \in kept : list[i] \notin gone
  OBVIOUS
<1>3. r \in Seq(T) /\ \E h : Selects(h, r, list, kept)
  BY WithoutSelects
<1>4. q \in Seq(U) /\ \E g : Selects(g, q, list2, kept)
  <2>1. q \in Seq(U) /\ \E g : Selects(g, q, list2, {i \in 1 .. Len(list2) : list2[i] \notin gone2})
    BY WithoutSelects
  <2> HIDE DEF kept, q
  <2> QED
    BY <1>1, <2>1
<1> HIDE DEF kept, r, q
<1>a. r \in Seq(T) /\ q \in Seq(U)
  BY <1>3, <1>4
<1>5. PICK h : Selects(h, r, list, kept)
  BY <1>3
<1>6. PICK g : Selects(g, q, list2, kept)
  BY <1>4
<1>b. kept \in SUBSET Nat
  BY <1>2
<1>7. Matched(h, r, q, list, list2, kept)
  BY <1>a, <1>b, <1>5, <1>6, SameSelection
<1>8. Paired(h, r, q, list, list2, gone)
  BY <1>2, <1>7 DEF Paired, Matched
<1> QED
  BY <1>8 DEF r, q
KeptSame(list, gone, list2) == \A i \in 1 .. Len(list) : list[i] \notin gone => list2[i] = list[i]

LEMMA SameWithout ==
  ASSUME NEW T, NEW list \in Seq(T), NEW list2 \in Seq(T), NEW gone, NEW gone2,
         Alike(list, gone, list2, gone2), KeptSame(list, gone, list2)
  PROVE  Without(list, gone) = Without(list2, gone2)
<1> DEFINE r == Without(list, gone)
           q == Without(list2, gone2)
<1>1. r \in Seq(T) /\ q \in Seq(T)
  BY WithoutSet
<1>2. PICK h : Paired(h, r, q, list, list2, gone)
  BY PairedWithout
<1> HIDE DEF r, q
<1>3. Len(r) = Len(q) /\ \A a \in 1 .. Len(r) : r[a] = q[a]
  BY <1>2 DEF Paired, KeptSame
<1>4. r = q
  BY <1>1, <1>3, SeqEqual
<1> QED
  BY <1>4 DEF r, q

AllKept(list, gone) == \A i \in 1 .. Len(list) : list[i] \notin gone

LEMMA WithoutNone ==
  ASSUME NEW T, NEW list \in Seq(T), NEW gone, AllKept(list, gone)
  PROVE  Without(list, gone) = list
<1> DEFINE kept == {i \in 1 .. Len(list) : list[i] \notin gone}
           h == [a \in 1 .. Len(list) |-> a]
           q == Without(list, gone)
<1>1. kept = 1 .. Len(list)
  BY DEF AllKept
<1>2. kept \in SUBSET Nat
  OBVIOUS
<1>3. q \in Seq(T) /\ \E g : Selects(g, q, list, kept)
  BY WithoutSelects
<1> HIDE DEF kept, q
<1>4. PICK g : Selects(g, q, list, kept)
  BY <1>3
<1>5. Selects(h, list, list, kept)
  BY <1>1 DEF Selects
<1> HIDE DEF h
<1>6. q \in Seq(T)
  BY <1>3
<1>7. Matched(h, list, q, list, list, kept)
  BY <1>2, <1>4, <1>5, <1>6, SameSelection
<1>8. Len(list) = Len(q) /\ \A a \in 1 .. Len(list) : list[a] = q[a]
  BY <1>7 DEF Matched
<1>9. list = q
  BY <1>6, <1>8, SeqEqual
<1> QED
  BY <1>9 DEF q

(* The last element does not count if it goes.                             *)
LEMMA WithoutLast ==
  ASSUME NEW T, NEW list \in Seq(T), NEW x \in T, NEW gone, NEW gone2, x \in gone2, Alike(list, gone, list, gone2)
  PROVE  Without(Append(list, x), gone2) = Without(list, gone)
<1> DEFINE more == Append(list, x)
           kept == {i \in 1 .. Len(list) : list[i] \notin gone}
           r == Without(list, gone)
           q == Without(more, gone2)
<1>1. more \in Seq(T) /\ Len(more) = Len(list) + 1 /\ more[Len(list) + 1] = x /\ \A i \in 1 .. Len(list) : more[i] = list[i]
  OBVIOUS
<1> HIDE DEF more
<1>2. kept = {i \in 1 .. Len(more) : more[i] \notin gone2}
  <2>1. ASSUME NEW i \in 1 .. Len(more), more[i] \notin gone2 PROVE i \in 1 .. Len(list) /\ list[i] \notin gone
    <3>1. i # Len(list) + 1
      BY <1>1, <2>1
    <3>2. i \in 1 .. Len(list)
      BY <1>1, <3>1
    <3> QED
      BY <1>1, <2>1, <3>2 DEF Alike
  <2>2. ASSUME NEW i \in 1 .. Len(list), list[i] \notin gone PROVE i \in 1 .. Len(more) /\ more[i] \notin gone2
    <3>1. i \in 1 .. Len(more)
      BY <1>1
    <3> QED
      BY <1>1, <2>2, <3>1 DEF Alike
  <2> QED
    BY <2>1, <2>2
<1>3. kept \in SUBSET Nat /\ kept \in SUBSET (1 .. Len(list))
  OBVIOUS
<1>4. r \in Seq(T) /\ \E h : Selects(h, r, list, kept)
  BY WithoutSelects
<1>5. q \in Seq(T) /\ \E g : Selects(g, q, more, kept)
  <2>1. q \in Seq(T) /\ \E g : Selects(g, q, more, {i \in 1 .. Len(more) : more[i] \notin gone2})
    BY <1>1, WithoutSelects
  <2> HIDE DEF kept, q
  <2> QED
    BY <1>2, <2>1
<1> HIDE DEF kept, r, q
<1>6. PICK h : Selects(h, r, list, kept)
  BY <1>4
<1>7. PICK g : Selects(g, q, more, kept)
  BY <1>5
<1>8. Selects(h, r, more, kept)
  <2>1. \A a \in 1 .. Len(r) : h[a] \in kept /\ r[a] = list[h[a]]
    BY <1>6 DEF Selects
  <2>2. \A a \in 1 .. Len(r) : r[a] = more[h[a]]
    BY <1>1, <1>3, <2>1
  <2> QED
    BY <1>6, <2>2 DEF Selects
<1>9. r \in Seq(T) /\ q \in Seq(T) /\ kept \in SUBSET Nat
  BY <1>3, <1>4, <1>5
<1>10. Matched(h, r, q, more, more, kept)
  BY <1>7, <1>8, <1>9, SameSelection
<1>11. Len(r) = Len(q) /\ \A a \in 1 .. Len(r) : r[a] = q[a]
  BY <1>10 DEF Matched
<1>12. r = q
  BY <1>9, <1>11, SeqEqual
<1> QED
  BY <1>12 DEF r, q, more
(* A tree that is saved and restored with the panes it shows.              *)
LEMMA LeavesSaved ==
  ASSUME NEW list \in Seq(Panes), NEW n, Shows(n, ToSet(list)), NEW k \in 1 .. Len(n), n[k].pane # None
  PROVE  /\ SnapshotNode(n, list)[k] = LeafNode(Place(list, n[k].pane))
         /\ Place(list, n[k].pane) \in DOMAIN list /\ list[Place(list, n[k].pane)] = n[k].pane
<1> DEFINE p == n[k].pane
<1>1. n \in Seq(Node) /\ DOMAIN n = 1 .. Len(n) /\ DOMAIN list = 1 .. Len(list)
  BY DEF Shows
<1>2. SnapshotNode(n, list)[k] = LeafNode(Place(list, p))
  BY <1>1 DEF SnapshotNode, IsLeaf
<1>3. p \in ToSet(list)
  BY <1>1, ShownOf DEF Shows
<1> HIDE DEF p
<1>4. Place(list, p) \in 1 .. Len(list) /\ list[Place(list, p)] = p
  BY <1>3, PlaceOf
<1> QED
  BY <1>1, <1>2, <1>4 DEF p

LEMMA TreeKept ==
  ASSUME NEW list \in Seq(Panes), NEW n, Shows(n, ToSet(list))
  PROVE  RestoreNode(SnapshotNode(n, list), list) = n
<1> DEFINE m == SnapshotNode(n, list)
<1>1. n \in Seq(Node) /\ IsTree(n) /\ DOMAIN n = 1 .. Len(n) /\ DOMAIN list = 1 .. Len(list)
  BY DEF Shows
<1>2. m \in Seq(SavedNode)
  BY <1>1, SnapshotNodes
<1>3. DOMAIN m = 1 .. Len(n) /\ Len(m) = Len(n)
  <2>1. DOMAIN m = 1 .. Len(n)
    BY <1>1 DEF SnapshotNode
  <2> HIDE DEF m
  <2> QED
    BY <1>1, <1>2, <2>1
<1>4. ASSUME NEW k \in 1 .. Len(n), n[k].pane # None
      PROVE  /\ m[k].pane \in DOMAIN list /\ m[k].pane # None
             /\ LeafNode(list[m[k].pane]) = n[k]
  <2> DEFINE i == Place(list, n[k].pane)
  <2>1. m[k] = LeafNode(i) /\ i \in DOMAIN list /\ list[i] = n[k].pane
    BY <1>4, LeavesSaved
  <2> HIDE DEF m, i
  <2>2. i \in Nat
    BY <1>1, <2>1
  <2>3. m[k].pane = i /\ i # None
    BY <2>1, <2>2, Nodes
  <2>4. n[k] = LeafNode(n[k].pane)
    BY <1>1, <1>4, NodeIs
  <2> QED
    BY <2>1, <2>3, <2>4
<1>5. ASSUME NEW k \in 1 .. Len(n), n[k].pane = None
      PROVE  m[k] = n[k] /\ n[k].ratio \in 1 .. 9 /\ n[k] = SplitNode(n[k].vertical, n[k].ratio)
  <2>1. m[k] = n[k]
    BY <1>1, <1>5 DEF SnapshotNode, IsLeaf
  <2> QED
    BY <1>1, <1>5, <2>1, NodeIs
<1> HIDE DEF m
<1>6. PanesIn(m) \subseteq DOMAIN list
  <2> SUFFICES ASSUME NEW i \in PanesIn(m) PROVE i \in DOMAIN list
    OBVIOUS
  <2>1. PICK k \in 1 .. Len(m) : i # None /\ m[k].pane = i
    BY <1>2, ShownOf
  <2> QED
    BY <1>3, <1>4, <1>5, <2>1
<1>7. RestoreNode(m, list) = [k \in 1 .. Len(n) |-> IF IsLeaf(m[k]) THEN LeafNode(list[m[k].pane])
                                                    ELSE [m[k] EXCEPT !.ratio = IF @ \in 1 .. 9 THEN @ ELSE 5]]
  BY <1>3, <1>6 DEF RestoreNode
<1>8. ASSUME NEW k \in 1 .. Len(n)
      PROVE  (IF IsLeaf(m[k]) THEN LeafNode(list[m[k].pane]) ELSE [m[k] EXCEPT !.ratio = IF @ \in 1 .. 9 THEN @ ELSE 5]) = n[k]
  <2>1. CASE n[k].pane # None
    BY <1>4, <2>1 DEF IsLeaf
  <2>2. CASE n[k].pane = None
    <3>1. m[k] = n[k] /\ n[k].ratio \in 1 .. 9 /\ n[k] = SplitNode(n[k].vertical, n[k].ratio)
      BY <1>5, <2>2
    <3>2. [n[k] EXCEPT !.ratio = n[k].ratio] = n[k]
      BY <3>1 DEF SplitNode
    <3> QED
      BY <2>2, <3>1, <3>2 DEF IsLeaf
  <2> QED
    BY <2>1, <2>2
<1>9. RestoreNode(m, list) = [k \in 1 .. Len(n) |-> n[k]]
  BY <1>7, <1>8
<1>10. [k \in 1 .. Len(n) |-> n[k]] = n
  BY <1>1
<1> QED
  BY <1>9, <1>10 DEF m

LEMMA KeptOf ==
  ASSUME NEW fl, NEW t, TabSound(t, fl)
  PROVE  /\ Saved(t, fl).panes \in Seq(Panes) /\ IsInjective(Saved(t, fl).panes)
         /\ Shows(t.layout, ToSet(Saved(t, fl).panes))
         /\ Saved(t, fl).layout = SnapshotNode(t.layout, Saved(t, fl).panes)
         /\ PanesIn(t.layout) = {} <=> Saved(t, fl).panes = <<>>
<1> DEFINE r == Saved(t, fl).panes
<1>1. Saved(t, fl) \in SavedTab /\ IsInjective(r) /\ ToSet(r) = ToSet(t.panes) \ fl
  BY SavedTabSound
<1>2. r \in Seq(Panes)
  BY <1>1 DEF SavedTab
<1>3. Saved(t, fl).layout = SnapshotNode(t.layout, r)
  BY DEF Saved
<1> HIDE DEF r
<1>4. Shows(t.layout, ToSet(r))
  BY <1>1, TabFields
<1>5. ToSet(r) = {} <=> r = <<>>
  <2>1. DOMAIN r = 1 .. Len(r) /\ Len(r) \in Nat
    BY <1>2
  <2>2. ASSUME r # <<>> PROVE ToSet(r) # {}
    <3>1. 1 \in DOMAIN r
      BY <1>2, <2>2
    <3> QED
      BY <3>1 DEF ToSet
  <2>3. ASSUME r = <<>> PROVE ToSet(r) = {}
    BY <2>3 DEF ToSet
  <2> QED
    BY <2>2, <2>3
<1> QED
  BY <1>1, <1>2, <1>3, <1>4, <1>5 DEF Shows, r

LEMMA LayoutKept ==
  ASSUME NEW fl, NEW t, TabSound(t, fl), NEW n
  PROVE  RestoredTab(Saved(t, fl), n).layout = t.layout
<1> DEFINE s == Saved(t, fl)
<1>1. s.panes \in Seq(Panes) /\ IsInjective(s.panes) /\ Shows(t.layout, ToSet(s.panes)) /\ s.layout = SnapshotNode(t.layout, s.panes)
  BY KeptOf
<1> HIDE DEF s
<1>2. RestoreNode(s.layout, s.panes) = t.layout
  BY <1>1, TreeKept
<1>3. LayoutComplete(t.layout, s.panes)
  BY <1>1, ShowsComplete
<1>4. RestoredTab(s, n).layout = t.layout
  BY <1>2, <1>3 DEF RestoredTab
<1> QED
  BY <1>4 DEF s
(* What a launch shows of a saved workspace, whatever it selects.          *)
TabsLeft(s) == Without(s.tabs, {t \in ToSet(s.tabs) : t.panes = <<>>})
LookOf(s) == [id |-> s.id, trees |-> [j \in DOMAIN TabsLeft(s) |-> RestoredTab(TabsLeft(s)[j], 1).layout]]

LEMMA TabsLeftIn ==
  ASSUME NEW s, SavedSound(s)
  PROVE  /\ TabsLeft(s) \in Seq(SavedTab)
         /\ \A j \in 1 .. Len(TabsLeft(s)) : /\ TabsLeft(s)[j] \in SavedTab /\ IsInjective(TabsLeft(s)[j].panes)
                                             /\ TabsLeft(s)[j].panes # <<>>
<1> DEFINE gone == {t \in ToSet(s.tabs) : t.panes = <<>>}
           tabs == TabsLeft(s)
<1>1. s.tabs \in Seq(SavedTab) /\ DOMAIN s.tabs = 1 .. Len(s.tabs)
  BY DEF SavedSound, SavedSpace
<1>2. \A t : t \in gone <=> t \in ToSet(s.tabs) /\ t.panes = <<>>
  OBVIOUS
<1>3. \A t \in ToSet(s.tabs) : IsInjective(t.panes)
  BY <1>1 DEF SavedSound, ToSet
<1>4. tabs = Without(s.tabs, gone)
  BY DEF TabsLeft
<1> HIDE DEF gone, tabs
<1>5. tabs \in Seq(SavedTab) /\ ToSet(tabs) = ToSet(s.tabs) \ gone
  BY <1>1, <1>4, WithoutSet
<1>6. \A j \in 1 .. Len(tabs) : tabs[j] \in ToSet(tabs) /\ tabs[j] \in SavedTab
  BY <1>5 DEF ToSet
<1>7. ASSUME NEW j \in 1 .. Len(tabs) PROVE tabs[j] \in SavedTab /\ IsInjective(tabs[j].panes) /\ tabs[j].panes # <<>>
  <2>1. tabs[j] \in ToSet(s.tabs) /\ tabs[j] \notin gone
    BY <1>5, <1>6
  <2> QED
    BY <1>2, <1>3, <1>6, <2>1
<1> QED
  BY <1>5, <1>7 DEF tabs

LEMMA SomethingShown ==
  ASSUME NEW t \in SavedTab, IsInjective(t.panes), t.panes # <<>>, NEW n \in Int
  PROVE  RestoredTab(t, n).layout \in Seq(Node) /\ PanesIn(RestoredTab(t, n).layout) # {}
<1> DEFINE r == RestoredTab(t, n)
<1>1. TabSound(r, {}) /\ r.panes = t.panes
  BY RestoredTabSound
<1> HIDE DEF r
<1>2. Shows(r.layout, ToSet(t.panes) \ {})
  BY <1>1, TabFields
<1>3. 1 \in DOMAIN t.panes
  BY DEF SavedTab
<1>4. ToSet(t.panes) # {}
  BY <1>3 DEF ToSet
<1> QED
  BY <1>2, <1>4 DEF Shows, r

LEMMA RestoredLook ==
  ASSUME NEW s, SavedSound(s), NEW n \in Int
  PROVE  /\ Look(RestoredSpace(s, n)) = LookOf(s)
         /\ RestoredSpace(s, n).tabs = <<>> <=> LookOf(s).trees = <<>>
         /\ LookOf(s).trees \in Seq(Seq(Node)) /\ Len(LookOf(s).trees) = Len(TabsLeft(s))
<1> DEFINE tabs == TabsLeft(s)
           r == RestoredSpace(s, n)
           q == [j \in DOMAIN tabs |-> RestoredTab(tabs[j], n).layout]
           gone == {l \in ToSet(q) : PanesIn(l) = {}}
<1>1. tabs \in Seq(SavedTab) /\ \A j \in 1 .. Len(tabs) : tabs[j] \in SavedTab /\ IsInjective(tabs[j].panes) /\ tabs[j].panes # <<>>
  BY TabsLeftIn
<1>2. r.id = s.id /\ r.tabs = [j \in DOMAIN tabs |-> RestoredTab(tabs[j], n)]
  BY DEF RestoredSpace, TabsLeft
<1>3. LookOf(s) = [id |-> s.id, trees |-> q]
  BY DEF LookOf, RestoredTab
<1> HIDE DEF tabs, r
<1>4. DOMAIN tabs = 1 .. Len(tabs) /\ Len(tabs) \in Nat
  BY <1>1
<1>5. Layouts(r) = q
  BY <1>2 DEF Layouts
<1>6. ASSUME NEW j \in 1 .. Len(tabs) PROVE q[j] \in Seq(Node) /\ PanesIn(q[j]) # {}
  <2>1. q[j] = RestoredTab(tabs[j], n).layout
    BY <1>4
  <2> HIDE DEF q
  <2> QED
    BY <1>1, <2>1, SomethingShown
<1>7. DOMAIN q = 1 .. Len(tabs)
  BY <1>4
<1> HIDE DEF q
<1>8. q \in Seq(Seq(Node)) /\ Len(q) = Len(tabs)
  <2>1. q = [j \in 1 .. Len(tabs) |-> q[j]]
    BY <1>3, <1>4 DEF q
  <2> QED
    BY <1>4, <1>6, <2>1
<1>9. AllKept(q, gone)
  BY <1>6, <1>8 DEF AllKept
<1>10. Look(r) = [id |-> r.id, trees |-> Without(q, gone)]
  BY <1>5 DEF Look
<1> HIDE DEF gone
<1>11. Without(q, gone) = q
  BY <1>8, <1>9, WithoutNone
<1>12. Look(r) = LookOf(s)
  BY <1>2, <1>3, <1>10, <1>11
<1>13. r.tabs = <<>> <=> q = <<>>
  <2>a. r.tabs \in Seq(Tab)
    BY RestoredSpaceSound DEF r, Space
  <2>b. DOMAIN r.tabs = 1 .. Len(tabs)
    BY <1>2, <1>4
  <2>1. r.tabs = <<>> <=> Len(tabs) = 0
    BY <1>4, <2>a, <2>b
  <2>2. q = <<>> <=> Len(tabs) = 0
    BY <1>8
  <2> QED
    BY <2>1, <2>2
<1> QED
  BY <1>3, <1>8, <1>12, <1>13 DEF r, tabs
(* It is what the workspace showed when it was saved.                      *)
LEMMA LookTyped ==
  ASSUME NEW fl, NEW s, SpaceSound(s, fl)
  PROVE  Layouts(s) \in Seq(Seq(Node)) /\ Len(Layouts(s)) = Len(s.tabs) /\ Look(s).trees \in Seq(Seq(Node)) /\ Look(s).id \in Spaces
<1> DEFINE l == Layouts(s)
           gone == {n \in ToSet(l) : PanesIn(n) = {}}
<1>1. s.id \in Spaces /\ s.tabs \in Seq(Tab)
  BY SpaceFields
<1>a. \A t \in Tab : t.layout \in Seq(Node)
  BY DEF Tab
<1>b. DOMAIN s.tabs = 1 .. Len(s.tabs) /\ Len(s.tabs) \in Nat /\ \A j \in 1 .. Len(s.tabs) : s.tabs[j] \in Tab
  BY <1>1
<1>2. DOMAIN s.tabs = 1 .. Len(s.tabs) /\ Len(s.tabs) \in Nat /\ \A j \in 1 .. Len(s.tabs) : s.tabs[j].layout \in Seq(Node)
  BY <1>a, <1>b
<1>3. l \in Seq(Seq(Node)) /\ Len(l) = Len(s.tabs)
  BY <1>2 DEF Layouts
<1>4. Look(s) = [id |-> s.id, trees |-> Without(l, gone)]
  BY DEF Look
<1> HIDE DEF l, gone
<1>5. Without(l, gone) \in Seq(Seq(Node))
  BY <1>3, WithoutSet
<1> QED
  BY <1>1, <1>3, <1>4, <1>5 DEF l

LEMMA LookKept ==
  ASSUME NEW fl, NEW s, SpaceSound(s, fl)
  PROVE  LookOf(SavedOf(s, fl)) = Look(s)
<1> DEFINE t == SavedOf(s, fl)
           q == t.tabs
           gone == {x \in ToSet(q) : x.panes = <<>>}
           l == Layouts(s)
           gone2 == {n \in ToSet(l) : PanesIn(n) = {}}
           r == TabsLeft(t)
           u == Look(s).trees
           v == LookOf(t).trees
<1>1. s.tabs \in Seq(Tab) /\ \A j \in 1 .. Len(s.tabs) : TabSound(s.tabs[j], fl)
  BY SpaceFields DEF TabsSound
<1>2. DOMAIN s.tabs = 1 .. Len(s.tabs) /\ Len(s.tabs) \in Nat
  BY <1>1
<1>3. SavedSound(t)
  BY SavedSpaceSound
<1>4. t.id = s.id /\ q = [j \in DOMAIN s.tabs |-> Saved(s.tabs[j], fl)]
  BY DEF SavedOf
<1>5. v \in Seq(Seq(Node)) /\ Len(v) = Len(r)
  BY <1>3, RestoredLook, 1 \in Int
<1>6. r \in Seq(SavedTab)
  BY <1>3, TabsLeftIn
<1>7. l \in Seq(Seq(Node)) /\ Len(l) = Len(s.tabs) /\ u \in Seq(Seq(Node))
  BY LookTyped
<1>8. LookOf(t) = [id |-> s.id, trees |-> v] /\ v = [j \in DOMAIN r |-> RestoredTab(r[j], 1).layout]
  BY <1>4 DEF LookOf
<1>9. Look(s) = [id |-> s.id, trees |-> u] /\ u = Without(l, gone2)
  BY DEF Look
<1>10. r = Without(q, gone)
  BY DEF TabsLeft
<1>11. q \in Seq(SavedTab)
  BY <1>3 DEF SavedSound, SavedSpace
<1>12. \A j \in 1 .. Len(s.tabs) : l[j] = s.tabs[j].layout
  BY <1>2 DEF Layouts
<1> HIDE DEF t, q, l, r, u, v
<1>13. DOMAIN q = 1 .. Len(s.tabs) /\ \A j \in 1 .. Len(s.tabs) : q[j] = Saved(s.tabs[j], fl)
  BY <1>2, <1>4
<1>14. Len(q) = Len(s.tabs)
  BY <1>2, <1>11, <1>13
<1>15. Alike(q, gone, l, gone2)
  <2>1. ASSUME NEW j \in 1 .. Len(s.tabs) PROVE q[j] \in gone <=> l[j] \in gone2
    <3>1. q[j] \in ToSet(q) /\ l[j] \in ToSet(l)
      BY <1>7, <1>11, <1>14 DEF ToSet
    <3>a. TabSound(s.tabs[j], fl) /\ l[j] = s.tabs[j].layout /\ q[j] = Saved(s.tabs[j], fl)
      BY <1>1, <1>12, <1>13
    <3>b. PanesIn(s.tabs[j].layout) = {} <=> Saved(s.tabs[j], fl).panes = <<>>
      BY <3>a, KeptOf
    <3>2. PanesIn(l[j]) = {} <=> q[j].panes = <<>>
      BY <3>a, <3>b
    <3> QED
      BY <3>1, <3>2
  <2> QED
    BY <1>7, <1>14, <2>1 DEF Alike
<1> HIDE DEF gone, gone2
<1>16. PICK h : Paired(h, r, u, q, l, gone)
  BY <1>7, <1>9, <1>10, <1>11, <1>15, PairedWithout
<1>17. Len(r) = Len(u) /\ \A a \in 1 .. Len(r) : h[a] \in 1 .. Len(s.tabs) /\ r[a] = q[h[a]] /\ u[a] = l[h[a]]
  BY <1>14, <1>16 DEF Paired
<1>18. ASSUME NEW a \in 1 .. Len(v) PROVE v[a] = u[a]
  <2>1. a \in 1 .. Len(r) /\ a \in DOMAIN r
    BY <1>5, <1>6
  <2>2. v[a] = RestoredTab(r[a], 1).layout
    BY <1>8, <2>1
  <2>3. h[a] \in 1 .. Len(s.tabs) /\ r[a] = Saved(s.tabs[h[a]], fl) /\ u[a] = s.tabs[h[a]].layout
    BY <1>12, <1>13, <1>17, <2>1
  <2>4. TabSound(s.tabs[h[a]], fl)
    BY <1>1, <2>3
  <2>5. RestoredTab(Saved(s.tabs[h[a]], fl), 1).layout = s.tabs[h[a]].layout
    BY <2>4, LayoutKept
  <2> QED
    BY <2>2, <2>3, <2>5
<1>19. v = u
  BY <1>5, <1>7, <1>17, <1>18, SeqEqual
<1> QED
  BY <1>8, <1>9, <1>19 DEF t
(* All workspaces.                                                         *)
LookType == [id : Spaces, trees : Seq(Seq(Node))]
LooksOf(f) == [i \in DOMAIN f |-> LookOf(f[i])]
FileShape(f) == Without(LooksOf(f), {l \in ToSet(LooksOf(f)) : l.trees = <<>>})

LEMMA RestoredShape == ASSUME NEW f, FileSound(f), NEW n \in Int PROVE Shape(Restored(f, n), {}) = FileShape(f)
<1> DEFINE all == [i \in DOMAIN f |-> RestoredSpace(f[i], n)]
           gone == {s \in ToSet(all) : s.tabs = <<>>}
           l == LooksOf(f)
           gone2 == {x \in ToSet(l) : x.trees = <<>>}
           r == Without(all, gone)
           q == Without(l, gone2)
<1>1. f \in Seq(SavedSpace) /\ \A i \in 1 .. Len(f) : SavedSound(f[i])
  BY DEF FileSound
<1>2. DOMAIN f = 1 .. Len(f) /\ Len(f) \in Nat
  BY <1>1
<1>3. ASSUME NEW i \in 1 .. Len(f)
      PROVE  /\ all[i] \in Space /\ l[i] \in LookType /\ Look(all[i]) = l[i]
             /\ all[i].tabs = <<>> <=> l[i].trees = <<>>
  <2>1. all[i] = RestoredSpace(f[i], n) /\ l[i] = LookOf(f[i])
    BY <1>2 DEF LooksOf
  <2>2. SavedSound(f[i]) /\ f[i].id \in Spaces
    <3>1. f[i] \in SavedSpace /\ SavedSound(f[i])
      BY <1>1
    <3> QED
      BY <3>1 DEF SavedSpace
  <2>3. RestoredSpace(f[i], n) \in Space
    BY <2>2, RestoredSpaceSound
  <2>4. /\ Look(RestoredSpace(f[i], n)) = LookOf(f[i]) /\ LookOf(f[i]).trees \in Seq(Seq(Node))
        /\ RestoredSpace(f[i], n).tabs = <<>> <=> LookOf(f[i]).trees = <<>>
    BY <2>2, RestoredLook
  <2>5. LookOf(f[i]) = [id |-> f[i].id, trees |-> LookOf(f[i]).trees]
    BY DEF LookOf
  <2>6. LookOf(f[i]) \in LookType
    BY <2>2, <2>4, <2>5 DEF LookType
  <2> HIDE DEF all, l
  <2> QED
    BY <2>1, <2>3, <2>4, <2>6
<1>4. all \in Seq(Space) /\ Len(all) = Len(f)
  BY <1>2, <1>3
<1>5. l \in Seq(LookType) /\ Len(l) = Len(f)
  <2>1. DOMAIN l = 1 .. Len(f) /\ l = [i \in 1 .. Len(f) |-> l[i]]
    BY <1>2 DEF LooksOf
  <2> HIDE DEF l
  <2> QED
    BY <1>2, <1>3, <2>1
<1>6. Restored(f, n) = r /\ FileShape(f) = q
  BY DEF Restored, FileShape
<1> HIDE DEF all, l
<1>7. Alike(all, gone, l, gone2)
  <2>1. \A i \in 1 .. Len(f) : all[i] \in ToSet(all) /\ l[i] \in ToSet(l)
    BY <1>4, <1>5 DEF ToSet
  <2> QED
    BY <1>3, <1>4, <1>5, <2>1 DEF Alike
<1>a. \A s \in ToSet(all) : s \in gone <=> s.tabs = <<>>
  OBVIOUS
<1>b. \A i \in 1 .. Len(f) : all[i] \in ToSet(all)
  BY <1>4 DEF ToSet
<1> HIDE DEF gone, gone2
<1>8. r \in Seq(Space) /\ q \in Seq(LookType)
  BY <1>4, <1>5, WithoutSet
<1>9. PICK h : Paired(h, r, q, all, l, gone)
  BY <1>4, <1>5, <1>7, PairedWithout
<1> HIDE DEF r, q
<1>10. Len(r) = Len(q) /\ \A a \in 1 .. Len(r) : h[a] \in 1 .. Len(f) /\ all[h[a]] \notin gone /\ r[a] = all[h[a]] /\ q[a] = l[h[a]]
  BY <1>4, <1>9 DEF Paired
<1>11. \A a \in 1 .. Len(r) : Look(r[a]) = q[a] /\ q[a].trees # <<>>
  BY <1>3, <1>10, <1>a, <1>b
<1>12. Looks(r) = q
  <2>1. DOMAIN r = 1 .. Len(r) /\ q = [a \in 1 .. Len(r) |-> q[a]]
    BY <1>8, <1>10
  <2> QED
    BY <1>11, <2>1 DEF Looks
<1> DEFINE out == {x \in ToSet(q) : x.trees = <<>> \/ x.id \in {}}
<1>13. AllKept(q, out)
  BY <1>10, <1>11 DEF AllKept
<1>14. Shape(r, {}) = Without(q, out)
  BY <1>12 DEF Shape
<1> HIDE DEF out
<1>15. Without(q, out) = q
  BY <1>8, <1>13, WithoutNone
<1> QED
  BY <1>6, <1>14, <1>15

LEMMA SavedShape == ASSUME NEW fl, NEW sp, SpacesSound(sp, fl) PROVE FileShape(SnapshotSpaces(sp, fl)) = Shape(sp, {})
<1> DEFINE f == SnapshotSpaces(sp, fl)
<1>1. sp \in Seq(Space) /\ \A i \in 1 .. Len(sp) : SpaceSound(sp[i], fl)
  BY DEF SpacesSound
<1>2. DOMAIN sp = 1 .. Len(sp)
  BY <1>1
<1>3. DOMAIN f = 1 .. Len(sp) /\ \A i \in 1 .. Len(sp) : f[i] = SavedOf(sp[i], fl)
  BY <1>2 DEF SnapshotSpaces, SavedOf
<1> HIDE DEF f
<1>4. \A i \in 1 .. Len(sp) : LookOf(f[i]) = Look(sp[i])
  BY <1>1, <1>3, LookKept
<1>5. LooksOf(f) = Looks(sp)
  BY <1>2, <1>3, <1>4 DEF LooksOf, Looks
<1>6. {x \in ToSet(Looks(sp)) : x.trees = <<>>} = {x \in ToSet(Looks(sp)) : x.trees = <<>> \/ x.id \in {}}
  OBVIOUS
<1>7. FileShape(f) = Shape(sp, {})
  BY <1>5, <1>6, Zenon DEF FileShape, Shape
<1> QED
  BY <1>7 DEF f

-----------------------------------------------------------------------------
(* What the handlers do to what is shown.                                  *)

LEMMA FocusedLook ==
  ASSUME NEW s, SpaceSound(s, floating), NEW p
  PROVE  Look(Focused(s, p)) = Look(s)
<1>1. Live(<<s>>) = Of(s)
  BY LiveOne
<1>2. CASE p \notin Of(s)
  BY <1>1, <1>2 DEF Focused
<1>3. CASE p \in Of(s)
  <2> DEFINE j == TabOf(s, p)
             t == s.tabs[j]
             raised == Append(RemoveAt(t.panes, Place(t.panes, p)), p)
             u == IF p \in floating THEN [t EXCEPT !.panes = raised, !.selected = Len(raised)]
                  ELSE [t EXCEPT !.selected = Place(t.panes, p)]
             r == PutActive(s, j, u)
  <2>1. Focused(s, p) = r
    BY <1>1, <1>3, Zenon DEF Focused, PutActive
  <2>2. j \in 1 .. Len(s.tabs)
    BY <1>3, TabOfIn
  <2>3. t \in Tab /\ s \in Space /\ s.tabs \in Seq(Tab)
    <3> HIDE DEF j
    <3> QED
      BY <2>2, SpaceFields DEF TabSound
  <2> HIDE DEF j
  <2>4. u.layout = t.layout
    BY <2>3 DEF Tab
  <2> HIDE DEF u
  <2>5. r = [s EXCEPT !.active = j, !.tabs[j] = u]
    BY DEF PutActive
  <2>6. r.id = s.id /\ r.tabs = [s.tabs EXCEPT ![j] = u]
    BY <2>3, <2>5 DEF Space
  <2> HIDE DEF r
  <2>7. Layouts(r) = Layouts(s)
    BY <2>2, <2>4, <2>6 DEF Layouts
  <2>8. Look(r) = Look(s)
    BY <2>6, <2>7 DEF Look
  <2> QED
    BY <2>1, <2>8
<1> QED
  BY <1>2, <1>3

LEMMA LooksPut ==
  ASSUME NEW sp, NEW i, NEW s, Look(s) = Look(sp[i])
  PROVE  Looks([sp EXCEPT ![i] = s]) = Looks(sp)
<1> DEFINE r == [sp EXCEPT ![i] = s]
<1>1. DOMAIN r = DOMAIN sp /\ \A k \in DOMAIN sp : r[k] = IF k = i THEN s ELSE sp[k]
  OBVIOUS
<1> HIDE DEF r
<1>2. \A k \in DOMAIN sp : Look(r[k]) = Look(sp[k])
  BY <1>1
<1>3. Looks(r) = Looks(sp)
  BY <1>1, <1>2 DEF Looks
<1> QED
  BY <1>3 DEF r

(* A workspace that was named comes after what was restored.               *)
LEMMA LooksTyped == ASSUME NEW fl, NEW sp, SpacesSound(sp, fl) PROVE Looks(sp) \in Seq(LookType) /\ Len(Looks(sp)) = Len(sp)
<1>1. DOMAIN sp = 1 .. Len(sp) /\ Len(sp) \in Nat /\ \A i \in 1 .. Len(sp) : SpaceSound(sp[i], fl)
  BY DEF SpacesSound
<1>2. ASSUME NEW i \in 1 .. Len(sp) PROVE Look(sp[i]) \in LookType
  <2>1. Look(sp[i]).trees \in Seq(Seq(Node)) /\ Look(sp[i]).id \in Spaces
    BY <1>1, LookTyped
  <2>2. Look(sp[i]) = [id |-> Look(sp[i]).id, trees |-> Look(sp[i]).trees]
    BY DEF Look
  <2> QED
    BY <2>1, <2>2 DEF LookType
<1>3. Looks(sp) = [i \in 1 .. Len(sp) |-> Look(sp[i])]
  BY <1>1 DEF Looks
<1> QED
  BY <1>1, <1>2, <1>3

LEMMA NamedShape ==
  ASSUME NEW sp, Good(sp, {}), NEW id \in Spaces \ Ids(sp), NEW p \in Panes, p \notin Live(sp)
  PROVE  Shape(Append(sp, NewSpaceOf(id, p)), {id}) = Shape(sp, {})
<1> DEFINE s == NewSpaceOf(id, p)
           more == Append(sp, s)
           x == Look(s)
           list == Looks(sp)
           gone == {l \in ToSet(list) : l.trees = <<>> \/ l.id \in {}}
           gone2 == {l \in ToSet(Append(list, x)) : l.trees = <<>> \/ l.id \in {id}}
<1>1. Good(more, {}) /\ Len(more) = Len(sp) + 1
  BY NamedGood
<1>2. SpacesSound(sp, {}) /\ SpacesSound(more, {})
  BY <1>1 DEF Good
<1>3. list \in Seq(LookType) /\ Len(list) = Len(sp) /\ Looks(more) \in Seq(LookType) /\ Len(Looks(more)) = Len(sp) + 1
  BY <1>1, <1>2, LooksTyped
<1>4. sp \in Seq(Space) /\ s \in Space /\ s.id = id
  <2>1. SpaceSound(s, {})
    BY NewSpaceSound
  <2>2. s.id = id
    BY DEF NewSpaceOf
  <2> HIDE DEF s
  <2> QED
    BY <1>2, <2>1, <2>2 DEF SpacesSound, SpaceSound
<1>5. x.id = id
  BY <1>4 DEF Look
<1> HIDE DEF s
<1>6. /\ \A i \in 1 .. Len(sp) : more[i] = sp[i]
      /\ more[Len(sp) + 1] = s /\ DOMAIN more = 1 .. Len(sp) + 1 /\ DOMAIN sp = 1 .. Len(sp) /\ Len(sp) \in Nat
  BY <1>4
<1>7. Looks(more) = Append(list, x)
  <2>1. \A i \in 1 .. Len(sp) : Looks(more)[i] = list[i]
    BY <1>6 DEF Looks
  <2>2. Looks(more)[Len(sp) + 1] = x
    BY <1>6 DEF Looks
  <2>3. x \in LookType
    BY <1>3, <1>6, <2>2
  <2> HIDE DEF more, list, x
  <2>4. Append(list, x) \in Seq(LookType) /\ Len(Append(list, x)) = Len(sp) + 1
        /\ Append(list, x)[Len(sp) + 1] = x /\ \A i \in 1 .. Len(sp) : Append(list, x)[i] = list[i]
    BY <1>3, <2>3
  <2>5. \A i \in 1 .. Len(sp) + 1 : Looks(more)[i] = Append(list, x)[i]
    BY <1>6, <2>1, <2>2, <2>4
  <2> QED
    BY <1>3, <2>4, <2>5, SeqEqual
<1>8. x \in LookType
  <2>1. Looks(more)[Len(sp) + 1] = x
    BY <1>6 DEF Looks
  <2> QED
    BY <1>3, <1>6, <2>1
<1>9. ASSUME NEW i \in 1 .. Len(sp) PROVE list[i].id # id
  <2>1. list[i] = Look(sp[i])
    BY <1>6 DEF Looks
  <2>2. sp[i] \in ToSet(sp)
    BY <1>6 DEF ToSet
  <2>3. sp[i].id \in Ids(sp)
    BY <2>2 DEF Ids
  <2> QED
    BY <2>1, <2>3 DEF Look
<1> HIDE DEF more, list, x
<1>10. Append(list, x) \in Seq(LookType) /\ Len(Append(list, x)) = Len(sp) + 1
       /\ Append(list, x)[Len(sp) + 1] = x /\ \A i \in 1 .. Len(sp) : Append(list, x)[i] = list[i]
  BY <1>3, <1>8
<1>11. x \in gone2
  <2> DEFINE k == Len(sp) + 1
  <2>a. k \in 1 .. Len(Append(list, x)) /\ Append(list, x)[k] = x
    BY <1>6, <1>10
  <2> HIDE DEF k
  <2>1. x \in ToSet(Append(list, x))
    BY <1>10, <2>a, SetOf
  <2> QED
    BY <1>5, <2>1
<1>12. Alike(list, gone, list, gone2)
  <2>1. ASSUME NEW i \in 1 .. Len(sp) PROVE list[i] \in gone <=> list[i] \in gone2
    <3>1. list[i] \in ToSet(list)
      BY <1>3, SetOf
    <3>2. i \in 1 .. Len(Append(list, x))
      BY <1>6, <1>10
    <3>3. list[i] \in ToSet(Append(list, x))
      BY <1>10, <3>2, SetOf
    <3> QED
      BY <1>9, <3>1, <3>3
  <2> QED
    BY <1>3, <2>1 DEF Alike
<1>13. Shape(more, {id}) = Without(Append(list, x), gone2)
  BY <1>7 DEF Shape
<1>14. Shape(sp, {}) = Without(list, gone)
  BY DEF Shape, list
<1> HIDE DEF gone, gone2
<1>15. Without(Append(list, x), gone2) = Without(list, gone)
  BY <1>3, <1>8, <1>11, <1>12, WithoutLast
<1> QED
  BY <1>13, <1>14, <1>15 DEF more, s
(* The rough look of a workspace: the panes that its trees show.           *)
ShownTrees(s) == {PanesIn(n) : n \in ToSet(Layouts(s))} \ {{}}
RoughLook(s) == [id |-> s.id, trees |-> ShownTrees(s)]
RoughOfLook(l) == [id |-> l.id, trees |-> {PanesIn(n) : n \in ToSet(l.trees)}]

LEMMA RoughLooks ==
  ASSUME NEW fl, NEW s, SpaceSound(s, fl)
  PROVE  RoughOfLook(Look(s)) = RoughLook(s) /\ Look(s).id = s.id /\ (Look(s).trees = <<>> <=> ShownTrees(s) = {})
<1> DEFINE l == Layouts(s)
           gone == {n \in ToSet(l) : PanesIn(n) = {}}
           trees == Look(s).trees
<1>1. l \in Seq(Seq(Node)) /\ trees \in Seq(Seq(Node))
  BY LookTyped
<1>2. Look(s).id = s.id /\ trees = Without(l, gone)
  BY DEF Look
<1>3. ToSet(Without(l, gone)) = ToSet(l) \ gone
  BY <1>1, WithoutSet
<1>4. ToSet(trees) = {n \in ToSet(l) : PanesIn(n) # {}}
  BY <1>2, <1>3
<1>5. ShownTrees(s) = {PanesIn(n) : n \in ToSet(l)} \ {{}}
  BY DEF ShownTrees
<1> HIDE DEF l, trees
<1>6. {PanesIn(n) : n \in ToSet(trees)} = ShownTrees(s)
  BY <1>4, <1>5
<1>7. trees = <<>> <=> ToSet(trees) = {}
  <2>1. ASSUME trees # <<>> PROVE ToSet(trees) # {}
    <3>1. Len(trees) # 0 /\ Len(trees) \in Nat
      BY <1>1, <2>1, EmptySeq, Zenon
    <3>2. trees[1] \in ToSet(trees)
      BY <1>1, <3>1, SetOf
    <3> QED
      BY <3>2
  <2>2. ASSUME trees = <<>> PROVE ToSet(trees) = {}
    BY <2>2 DEF ToSet
  <2> QED
    BY <2>1, <2>2
<1>8. ToSet(trees) = {} <=> ShownTrees(s) = {}
  BY <1>6
<1>9. RoughOfLook(Look(s)) = [id |-> s.id, trees |-> {PanesIn(n) : n \in ToSet(trees)}]
  BY <1>2 DEF RoughOfLook, trees
<1> QED
  BY <1>2, <1>6, <1>7, <1>8, <1>9 DEF RoughLook, trees

LEMMA RoughOf ==
  ASSUME NEW fl, NEW sp, SpacesSound(sp, fl), NEW but, NEW x
  PROVE  x \in Rough(Shape(sp, but)) <=>
            \E k \in 1 .. Len(sp) : ShownTrees(sp[k]) # {} /\ sp[k].id \notin but /\ x = RoughLook(sp[k])
<1> DEFINE list == Looks(sp)
           gone == {l \in ToSet(list) : l.trees = <<>> \/ l.id \in but}
<1>1. list \in Seq(LookType) /\ Len(list) = Len(sp)
  BY LooksTyped
<1>2. ASSUME NEW k \in 1 .. Len(sp)
      PROVE  /\ list[k] = Look(sp[k]) /\ RoughOfLook(list[k]) = RoughLook(sp[k]) /\ list[k].id = sp[k].id
             /\ list[k].trees = <<>> <=> ShownTrees(sp[k]) = {}
  <2>1. list[k] = Look(sp[k]) /\ SpaceSound(sp[k], fl)
    BY DEF Looks, SpacesSound
  <2> HIDE DEF list
  <2> QED
    BY <2>1, RoughLooks
<1>3. Shape(sp, but) = Without(list, gone)
  BY DEF Shape
<1>4. Rough(Shape(sp, but)) = {RoughOfLook(l) : l \in ToSet(Shape(sp, but))}
  BY DEF Rough, RoughOfLook
<1> HIDE DEF list
<1>5. ToSet(Shape(sp, but)) = ToSet(list) \ gone
  BY <1>1, <1>3, WithoutSet
<1>6. \A l : l \in ToSet(list) <=> \E k \in 1 .. Len(sp) : list[k] = l
  BY <1>1, SetOf
<1>7. \A l : l \in ToSet(Shape(sp, but)) <=> \E k \in 1 .. Len(sp) : list[k] = l /\ ~(l.trees = <<>> \/ l.id \in but)
  BY <1>5, <1>6
<1>8. x \in Rough(Shape(sp, but)) <=> \E l \in ToSet(Shape(sp, but)) : x = RoughOfLook(l)
  BY <1>4
<1>9. x \in Rough(Shape(sp, but)) <=> \E k \in 1 .. Len(sp) : ~(list[k].trees = <<>> \/ list[k].id \in but) /\ x = RoughOfLook(list[k])
  BY <1>7, <1>8
<1> QED
  BY <1>2, <1>9

RoughlyIn(sp, sq) == \A k \in 1 .. Len(sp) : \E a \in 1 .. Len(sq) : RoughLook(sq[a]) = RoughLook(sp[k])

LEMMA RoughPart ==
  ASSUME NEW fl, NEW fm, NEW sp, NEW sq, SpacesSound(sp, fl), SpacesSound(sq, fm), NEW but, RoughlyIn(sp, sq)
  PROVE  Rough(Shape(sp, but)) \subseteq Rough(Shape(sq, but))
<1> SUFFICES ASSUME NEW x, x \in Rough(Shape(sp, but)) PROVE x \in Rough(Shape(sq, but))
  OBVIOUS
<1>1. PICK k \in 1 .. Len(sp) : ShownTrees(sp[k]) # {} /\ sp[k].id \notin but /\ x = RoughLook(sp[k])
  BY RoughOf
<1>2. PICK a \in 1 .. Len(sq) : RoughLook(sq[a]) = RoughLook(sp[k])
  BY DEF RoughlyIn
<1>3. sq[a].id = sp[k].id /\ ShownTrees(sq[a]) = ShownTrees(sp[k])
  BY <1>2 DEF RoughLook
<1> QED
  BY <1>1, <1>2, <1>3, RoughOf

LEMMA MovedMatches ==
  ASSUME NEW sp, NEW fl, Good(sp, fl), NEW from \in 1 .. Len(sp), NEW i \in 1 .. Len(sp)
  PROVE  LET r == InsertAt(RemoveAt(sp, from), i, sp[from]) IN RoughlyIn(r, sp) /\ RoughlyIn(sp, r)
<1>1. sp \in Seq(Space)
  BY GoodFields
<1> DEFINE r == InsertAt(RemoveAt(sp, from), i, sp[from])
<1>2. /\ r \in Seq(Space) /\ Len(r) = Len(sp)
      /\ \E h : Chosen(h, r, sp) /\ \A j \in 1 .. Len(sp) : \E a \in 1 .. Len(r) : h[a] = j
  BY <1>1, MovedAt
<1> HIDE DEF r
<1>3. PICK h : Chosen(h, r, sp) /\ \A j \in 1 .. Len(sp) : \E a \in 1 .. Len(r) : h[a] = j
  BY <1>2
<1>4. \A a \in 1 .. Len(r) : h[a] \in 1 .. Len(sp) /\ r[a] = sp[h[a]]
  BY <1>3 DEF Chosen
<1>5. RoughlyIn(r, sp)
  BY <1>4 DEF RoughlyIn
<1>6. RoughlyIn(sp, r)
  <2>1. ASSUME NEW k \in 1 .. Len(sp) PROVE \E a \in 1 .. Len(r) : RoughLook(r[a]) = RoughLook(sp[k])
    <3>1. PICK a \in 1 .. Len(r) : h[a] = k
      BY <1>3
    <3>2. r[a] = sp[k]
      BY <1>4, <3>1
    <3> QED
      BY <3>2
  <2> QED
    BY <2>1 DEF RoughlyIn
<1> QED
  BY <1>5, <1>6 DEF r

LEMMA MoveRough == ASSUME SpacesInv, SpacesInv', NEW i \in 1 .. Len(spaces), MoveSpaceTo(i)
  PROVE  Rough(Shape(spaces', fresh)) = Rough(Shape(spaces, fresh))
<1>1. PICK from \in DOMAIN spaces \ {i} : spaces' = InsertAt(RemoveAt(spaces, from), i, spaces[from])
  BY DEF MoveSpaceTo
<1>2. /\ from \in 1 .. Len(spaces) /\ Good(spaces, floating)
      /\ SpacesSound(spaces, floating) /\ SpacesSound(spaces', floating')
  BY GoodFields DEF SpacesInv
<1> DEFINE sp == InsertAt(RemoveAt(spaces, from), i, spaces[from])
<1>3. RoughlyIn(sp, spaces) /\ RoughlyIn(spaces, sp)
  BY <1>2, MovedMatches
<1>4. spaces' = sp
  BY <1>1
<1> HIDE DEF sp
<1>5. RoughlyIn(spaces', spaces) /\ RoughlyIn(spaces, spaces')
  BY <1>3, <1>4
<1>6. ASSUME NEW but PROVE Rough(Shape(spaces', but)) = Rough(Shape(spaces, but))
  <2>1. Rough(Shape(spaces', but)) \subseteq Rough(Shape(spaces, but))
    BY <1>2, <1>5, RoughPart
  <2>2. Rough(Shape(spaces, but)) \subseteq Rough(Shape(spaces', but))
    BY <1>2, <1>5, RoughPart
  <2> QED
    BY <2>1, <2>2
<1> QED
  BY <1>6

LEMMA DragRough == ASSUME SpacesInv, SpacesInv', NEW r \in Ratios, DragDivider(r)
  PROVE  Rough(Shape(spaces', fresh)) = Rough(Shape(spaces, fresh))
<1>a. PICK i \in DOMAIN spaces : \E j \in DOMAIN spaces[i].tabs : \E n \in Dragged(spaces[i].tabs[j].layout, r) :
         spaces' = [spaces EXCEPT ![i].tabs[j].layout = n]
  BY DEF DragDivider
<1>b. PICK j \in DOMAIN spaces[i].tabs : \E n \in Dragged(spaces[i].tabs[j].layout, r) :
         spaces' = [spaces EXCEPT ![i].tabs[j].layout = n]
  BY <1>a
<1>1. PICK n \in Dragged(spaces[i].tabs[j].layout, r) : spaces' = [spaces EXCEPT ![i].tabs[j].layout = n]
  BY <1>b
<1>2. i \in 1 .. Len(spaces) /\ SpacesSound(spaces, floating) /\ SpacesSound(spaces', floating')
  BY GoodFields DEF SpacesInv
<1>3. j \in 1 .. Len(spaces[i].tabs) /\ spaces[i].tabs \in Seq(Tab) /\ spaces[i] \in Space
  BY <1>2, TabPlaces, SpaceAt DEF SpaceSound
<1> DEFINE s == spaces[i]
           t == s.tabs[j]
           u == [t EXCEPT !.layout = n]
           q == PutTab(s, j, u)
<1>4. spaces' = [spaces EXCEPT ![i] = q]
  BY <1>1 DEF PutTab, Put
<1>5. TabSound(t, floating)
  BY <1>2, <1>3, SpaceAt
<1>6. Shows(t.layout, ToSet(t.panes) \ floating)
  BY <1>5, TabFields
<1>7. Shows(n, ToSet(t.panes) \ floating)
  BY <1>6, DraggedShows
<1>8. PanesIn(n) = PanesIn(t.layout)
  BY <1>6, <1>7 DEF Shows
<1>9. u.layout = n /\ u \in Tab
  BY <1>5, <1>7 DEF TabSound, Tab, Shows
<1>c. s.tabs[j] = t /\ s \in Space /\ SpaceSound(s, floating) /\ j \in 1 .. Len(s.tabs)
  BY <1>2, <1>3, SpaceAt
<1> HIDE DEF s, t, u
<1>10. q \in Space /\ q.tabs = Put(s.tabs, j, u)
  BY <1>9, <1>c, TabPut
<1>11. q.id = s.id
  BY <1>c DEF PutTab, Space
<1> HIDE DEF q
<1>12. RoughLook(q) = RoughLook(s)
  <2>1. DOMAIN s.tabs = DOMAIN q.tabs /\ q.tabs[j] = u /\ \A k \in DOMAIN s.tabs \ {j} : q.tabs[k] = s.tabs[k]
    BY <1>10, <1>c DEF Put, Space
  <2>2. \A k \in DOMAIN s.tabs : PanesIn(q.tabs[k].layout) = PanesIn(s.tabs[k].layout)
    BY <1>8, <1>9, <1>c, <2>1
  <2>3. \A z : {PanesIn(x) : x \in ToSet(Layouts(z))} = {PanesIn(z.tabs[k].layout) : k \in DOMAIN z.tabs}
    BY DEF Layouts, ToSet
  <2>4. {PanesIn(q.tabs[k].layout) : k \in DOMAIN q.tabs} = {PanesIn(s.tabs[k].layout) : k \in DOMAIN s.tabs}
    BY <2>1, <2>2
  <2>5. ShownTrees(q) = ShownTrees(s)
    BY <2>3, <2>4 DEF ShownTrees
  <2> QED
    BY <1>11, <2>5 DEF RoughLook
<1>13. /\ DOMAIN spaces = 1 .. Len(spaces) /\ DOMAIN spaces' = 1 .. Len(spaces')
       /\ DOMAIN spaces' = DOMAIN spaces
       /\ \A k \in DOMAIN spaces : RoughLook(spaces'[k]) = RoughLook(spaces[k])
  <2>1. DOMAIN spaces' = DOMAIN spaces /\ \A k \in DOMAIN spaces : spaces'[k] = IF k = i THEN q ELSE spaces[k]
    BY <1>4
  <2>2. DOMAIN spaces = 1 .. Len(spaces) /\ DOMAIN spaces' = 1 .. Len(spaces')
    BY <1>2 DEF SpacesSound
  <2> QED
    BY <1>12, <2>1, <2>2 DEF s
<1>14. RoughlyIn(spaces', spaces) /\ RoughlyIn(spaces, spaces')
  BY <1>13, Zenon DEF RoughlyIn
<1>15. ASSUME NEW but PROVE Rough(Shape(spaces', but)) = Rough(Shape(spaces, but))
  <2>1. Rough(Shape(spaces', but)) \subseteq Rough(Shape(spaces, but))
    BY <1>2, <1>14, RoughPart
  <2>2. Rough(Shape(spaces, but)) \subseteq Rough(Shape(spaces', but))
    BY <1>2, <1>14, RoughPart
  <2> QED
    BY <2>1, <2>2
<1> QED
  BY <1>15

(* What each step does to what is shown and to what a launch would show: a  *)
(* handler saves, or leaves both alone, or a drag moves what is shown but   *)
(* keeps it roughly, or hrdx is launched.                                  *)
LookStep == Unsaved /\ Looks(spaces') = Looks(spaces)
RoughStep == Moving /\ Rough(Shape(spaces', fresh)) = Rough(Shape(spaces, fresh))

LEMMA SameLook == ASSUME UNCHANGED spaces, Unsaved PROVE LookStep
  BY DEF LookStep

LEMMA FocusLook ==
  ASSUME SpacesInv, NEW i \in 1 .. Len(spaces), NEW p, spaces' = [spaces EXCEPT ![i] = Focused(spaces[i], p)]
  PROVE  Looks(spaces') = Looks(spaces)
<1> DEFINE s == Focused(spaces[i], p)
<1>1. Look(s) = Look(spaces[i])
  BY SpaceAt, FocusedLook
<1> HIDE DEF s
<1>2. Looks([spaces EXCEPT ![i] = s]) = Looks(spaces)
  BY <1>1, LooksPut
<1> QED
  BY <1>2 DEF s

LEMMA ClickLook == ASSUME SpacesInv, spaces # <<>>, NEW p, ClickPane(p) PROVE LookStep
<1>1. selected \in 1 .. Len(spaces)
  BY CurrentIn
<1>2. spaces' = [spaces EXCEPT ![selected] = Focused(spaces[selected], p)] /\ Unsaved
  BY DEF ClickPane
<1>3. Looks(spaces') = Looks(spaces)
  BY <1>1, <1>2, FocusLook
<1> QED
  BY <1>2, <1>3 DEF LookStep

LEMMA CycleLook == ASSUME SpacesInv, spaces # <<>>, NEW d, CyclePane(d) PROVE LookStep
<1>1. selected \in 1 .. Len(spaces)
  BY CurrentIn
<1>2. (\E p : spaces' = [spaces EXCEPT ![selected] = Focused(spaces[selected], p)]) /\ Unsaved
  BY DEF CyclePane
<1>3. Looks(spaces') = Looks(spaces)
  BY <1>1, <1>2, FocusLook
<1> QED
  BY <1>2, <1>3 DEF LookStep

(* A tab that becomes the active one shows nothing else of its workspace.  *)
LEMMA ActiveLook ==
  ASSUME NEW sp, NEW i \in 1 .. Len(sp), SpaceSound(sp[i], floating), NEW j
  PROVE  Looks([sp EXCEPT ![i].active = j]) = Looks(sp)
<1> DEFINE s == sp[i]
           r == [s EXCEPT !.active = j]
<1>1. s \in Space
  BY DEF SpaceSound
<1> HIDE DEF s
<1>2. r.tabs = s.tabs /\ r.id = s.id
  BY <1>1 DEF Space
<1> HIDE DEF r
<1>3. Look(r) = Look(s)
  BY <1>2 DEF Look, Layouts
<1>4. Looks([sp EXCEPT ![i] = r]) = Looks(sp)
  BY <1>3, LooksPut DEF s
<1> QED
  BY <1>4 DEF r, s

LEMMA OpenMenuLook == ASSUME SpacesInv, NEW i \in DOMAIN spaces, OpenMenu(i) PROVE Persist \/ LookStep
<1>1. i \in 1 .. Len(spaces) /\ SpaceSound(spaces[i], floating)
  BY GoodFields DEF SpacesInv
<1>2. Persist \/ Unsaved
  BY DEF OpenMenu
<1>3. \/ UNCHANGED spaces
      \/ \E j : spaces' = [spaces EXCEPT ![i].active = j]
      \/ \E p : spaces' = [spaces EXCEPT ![i] = Focused(spaces[i], p)]
  BY DEF OpenMenu
<1>4. CASE \E j : spaces' = [spaces EXCEPT ![i].active = j]
  <2>1. PICK j : spaces' = [spaces EXCEPT ![i].active = j]
    BY <1>4
  <2>2. Looks([spaces EXCEPT ![i].active = j]) = Looks(spaces)
    BY <1>1, ActiveLook
  <2>3. Looks(spaces') = Looks(spaces)
    BY <2>1, <2>2
  <2> QED
    BY <2>3, <1>2 DEF LookStep
<1>5. CASE \E p : spaces' = [spaces EXCEPT ![i] = Focused(spaces[i], p)]
  <2>1. Looks(spaces') = Looks(spaces)
    BY <1>1, <1>5, FocusLook
  <2> QED
    BY <2>1, <1>2 DEF LookStep
<1>6. CASE UNCHANGED spaces
  BY <1>2, <1>6 DEF LookStep
<1> QED
  BY <1>3, <1>4, <1>5, <1>6

(* Closing the focused pane of a workspace saves, but for one that has no  *)
(* pane.                                                                   *)
LEMMA CloseFocusedLook ==
  ASSUME SpacesInv, NEW i \in 1 .. Len(spaces), NEW p, CloseFocused(i, Focused(spaces[i], p))
  PROVE  Persist \/ LookStep
<1> DEFINE s == Focused(spaces[i], p)
<1>1. CASE FocusedPane(s) = None
  <2>1. spaces' = [spaces EXCEPT ![i] = s] /\ Unsaved
    BY <1>1, Zenon DEF CloseFocused
  <2>2. Looks(spaces') = Looks(spaces)
    BY <2>1, FocusLook
  <2> QED
    BY <2>1, <2>2 DEF LookStep
<1>2. CASE FocusedPane(s) # None
  BY <1>2, Zenon DEF CloseFocused
<1> QED
  BY <1>1, <1>2

LEMMA ClosePaneLook == ASSUME SpacesInv, NEW p, ClosePane(p) PROVE Persist \/ LookStep
<1>1. OwnerOf(p) \in 1 .. Len(spaces)
  BY Owner DEF ClosePane
<1> QED
  BY <1>1, CloseFocusedLook DEF ClosePane

LEMMA MenuRunsLook == ASSUME SpacesInv, MenuRuns PROVE Persist \/ LookStep
<1>1. spaces # <<>>
  BY DEF MenuRuns
<1>2. selected \in 1 .. Len(spaces)
  BY <1>1, CurrentIn
<1>3. CASE CloseSpace(Selected(menu.target))
  BY <1>3 DEF CloseSpace
<1>4. CASE CloseFocused(selected, Focused(Current, menu.target))
  BY <1>2, <1>4, CloseFocusedLook DEF Current
<1>5. CASE KindPicked
  BY <1>5 DEF KindPicked, SplitPane, NewTab
<1>6. CASE TabClosed
  BY <1>6 DEF TabClosed, CloseTab
<1> QED
  BY <1>3, <1>4, <1>5, <1>6 DEF MenuRuns

LEMMA PressLook == ASSUME NEW i, Press(i) PROVE LookStep
  BY DEF Press, LookStep

LEMMA ReleaseLook == ASSUME Release PROVE Persist \/ LookStep
  BY DEF Release, LookStep

LEMMA LookSteps ==
  ASSUME SpacesInv, SpacesInv', SpacesNext
  PROVE  Persist \/ LookStep \/ RoughStep \/ Relaunch
<1> DEFINE P == Persist \/ LookStep \/ RoughStep \/ Relaunch
<1>1. NewSpace \/ CloseMenu \/ DropDivider \/ Relaunch => P
  BY SameLook DEF NewSpace, CloseMenu, DropDivider
<1>2. MenuRuns \/ Release => P
  BY MenuRunsLook, ReleaseLook
<1>3. \A p : RemovePane(p) \/ ClosePane(p) => P
  BY ClosePaneLook DEF RemovePane
<1>4. \A r \in Ratios : DragDivider(r) => P
  BY DragRough DEF DragDivider, RoughStep
<1>5. ASSUME NEW i \in DOMAIN spaces,
             \/ NewTab(i) \/ (\E v \in BOOLEAN : SplitPane(i, v, FALSE)) \/ Float(i) \/ SelectSpace(i) \/ Press(i) \/ MoveSpaceTo(i)
             \/ OpenMenu(i) \/ CloseSpace(i) \/ (\E p : PickPane(i, p)) \/ (\E j : SelectTab(i, j))
      PROVE  P
  <2>1. NewTab(i) \/ (\E v \in BOOLEAN : SplitPane(i, v, FALSE)) \/ Float(i) \/ CloseSpace(i) \/ (\E p : PickPane(i, p)) \/ (\E j : SelectTab(i, j)) => P
    BY DEF NewTab, SplitPane, Float, CloseSpace, PickPane, SelectTab
  <2>2. SelectSpace(i) => P
    BY SameLook DEF SelectSpace
  <2>3. Press(i) => P
    BY PressLook
  <2>4. MoveSpaceTo(i) => P
    <3>1. i \in 1 .. Len(spaces)
      BY GoodFields DEF SpacesInv
    <3> QED
      BY <3>1, MoveRough DEF MoveSpaceTo, RoughStep
  <2>5. OpenMenu(i) => P
    BY OpenMenuLook
  <2> HIDE DEF P
  <2> QED
    BY <1>5, <2>1, <2>2, <2>3, <2>4, <2>5
<1>6. ASSUME spaces # <<>>,
             \/ OpenPicker \/ EqualizeCurrent \/ PressDivider \/ (\E d \in {1, -1} : CyclePane(d)) \/ (\E p \in Panes : ClickPane(p))
      PROVE  P
  <2>1. OpenPicker \/ PressDivider => P
    BY SameLook DEF OpenPicker, PressDivider
  <2>2. EqualizeCurrent => P
    BY DEF EqualizeCurrent
  <2>3. (\E d \in {1, -1} : CyclePane(d)) \/ (\E p \in Panes : ClickPane(p)) => P
    BY <1>6, CycleLook, ClickLook
  <2> HIDE DEF P
  <2> QED
    BY <1>6, <2>1, <2>2, <2>3
<1> HIDE DEF P
<1>7. P
  BY <1>1, <1>2, <1>3, <1>4, <1>5, <1>6 DEF SpacesNext
<1> QED
  BY <1>7 DEF P

LEMMA SavedLook == ASSUME SpacesInv', Persist PROVE RestoresAsShown'
<1>1. FileSound(file') /\ SpacesSound(spaces', floating') /\ file' = SnapshotSpaces(spaces', floating') /\ fresh' = {}
  BY DEF SpacesInv, Good, Persist
<1>2. Shape(Restored(file', 1), {}) = FileShape(file')
  BY <1>1, RestoredShape, 1 \in Int
<1>3. FileShape(file') = Shape(spaces', {})
  BY <1>1, SavedShape
<1>4. Shape(Restored(file', 1), {}) = Shape(spaces', fresh')
  BY <1>1, <1>2, <1>3
<1> QED
  BY <1>4, Zenon DEF RestoresAsShown

LEMMA SameShape == ASSUME RestoresAsShown, LookStep PROVE RestoresAsShown'
<1>1. Shape(spaces', fresh') = Shape(spaces, fresh) /\ file' = file /\ moved' = moved
  BY DEF LookStep, Unsaved, Shape
<1> QED
  BY <1>1 DEF RestoresAsShown

LEMMA RoughShape == ASSUME RestoresAsShown, RoughStep PROVE RestoresAsShown'
<1>1. Rough(Shape(spaces', fresh')) = Rough(Shape(spaces, fresh)) /\ file' = file /\ moved' = TRUE
  BY DEF RoughStep, Moving
<1>2. Rough(Shape(Restored(file, 1), {})) = Rough(Shape(spaces, fresh))
  BY DEF RestoresAsShown
<1> QED
  BY <1>1, <1>2 DEF RestoresAsShown

LEMMA LaunchLook == ASSUME SpacesInv, Relaunch PROVE RestoresAsShown'
<1>1. PICK f \in {file, SnapshotSpaces(spaces, floating)}, n \in 1 .. Cardinality(Panes) :
         /\ file' = f
         /\ \/ Restored(f, n) # <<>> /\ spaces' = Restored(f, n) /\ fresh' = {}
            \/ \E id \in Spaces \ Ids(Restored(f, n)), p \in Panes \ Live(Restored(f, n)) :
                  spaces' = Append(Restored(f, n), NewSpaceOf(id, p)) /\ fresh' = {id}
  BY DEF Relaunch
<1>2. FileSound(f) /\ n \in Int
  BY SnapshotSound DEF SpacesInv, Good
<1> DEFINE sp == Restored(f, n)
<1>3. Good(sp, {})
  BY <1>2, RestoredSound DEF Good
<1>4. Shape(Restored(f, 1), {}) = Shape(sp, {})
  <2>1. Shape(sp, {}) = FileShape(f)
    BY <1>2, RestoredShape
  <2>2. Shape(Restored(f, 1), {}) = FileShape(f)
    BY <1>2, RestoredShape, 1 \in Int
  <2> QED
    BY <2>1, <2>2
<1>5. Shape(spaces', fresh') = Shape(sp, {})
  <2>1. CASE spaces' = sp /\ fresh' = {}
    BY <2>1
  <2>2. CASE \E id \in Spaces \ Ids(sp), p \in Panes \ Live(sp) : spaces' = Append(sp, NewSpaceOf(id, p)) /\ fresh' = {id}
    <3> HIDE DEF sp
    <3> QED
      BY <1>3, <2>2, NamedShape
  <2> QED
    BY <1>1, <2>1, <2>2
<1> QED
  BY <1>1, <1>4, <1>5, Zenon DEF RestoresAsShown

LEMMA FirstLook == ASSUME SpacesInit PROVE RestoresAsShown
<1>1. PICK id \in Spaces, p \in Panes : spaces = <<NewSpaceOf(id, p)>> /\ fresh = {id}
  BY DEF SpacesInit
<1>2. file = <<>>
  BY DEF SpacesInit
<1>3. FileSound(<<>>)
  <2>1. <<>> \in Seq(SavedSpace) /\ Len(<<>>) = 0
    OBVIOUS
  <2> QED
    BY <2>1 DEF FileSound
<1>4. Shape(Restored(<<>>, 1), {}) = FileShape(<<>>)
  BY <1>3, RestoredShape, 1 \in Int
<1>5. FileShape(<<>>) = Shape(<<>>, {})
  <2>1. DOMAIN <<>> = {}
    OBVIOUS
  <2>2. LooksOf(<<>>) = Looks(<<>>)
    BY <2>1 DEF LooksOf, Looks
  <2>3. {x \in ToSet(Looks(<<>>)) : x.trees = <<>>} = {x \in ToSet(Looks(<<>>)) : x.trees = <<>> \/ x.id \in {}}
    OBVIOUS
  <2> QED
    BY <2>2, <2>3, Zenon DEF FileShape, Shape
<1>6. p \notin Live(<<>>) /\ id \notin Ids(<<>>)
  BY DEF Live, Ids, ToSet
<1> DEFINE s == NewSpaceOf(id, p)
<1>7. Shape(Append(<<>>, s), {id}) = Shape(<<>>, {})
  BY <1>6, EmptyGood, NamedShape
<1> HIDE DEF s
<1>8. Append(<<>>, s) = <<s>>
  OBVIOUS
<1>9. Shape(spaces, fresh) = Shape(Restored(file, 1), {})
  BY <1>1, <1>2, <1>4, <1>5, <1>7, <1>8 DEF s
<1> QED
  BY <1>9, Zenon DEF RestoresAsShown

LEMMA ShownStep ==
  SpacesInv /\ SpacesInv' /\ RestoresAsShown /\ [SpacesNext]_spacesVars => RestoresAsShown'
<1> SUFFICES ASSUME SpacesInv, SpacesInv', RestoresAsShown, [SpacesNext]_spacesVars PROVE RestoresAsShown'
  OBVIOUS
<1>1. CASE UNCHANGED spacesVars
  BY <1>1, SameLook, SameShape DEF spacesVars, Unsaved
<1>2. CASE SpacesNext
  BY <1>2, LookSteps, SavedLook, SameShape, RoughShape, LaunchLook
<1> QED
  BY <1>1, <1>2

(* A launch from the state file shows the same trees of the same panes in  *)
(* the same order (RestoresAsShown), whatever was opened, split, dragged,  *)
(* moved and closed since, and after a crash as well as after a quit: but  *)
(* for a ratio or an order that a drag moved and that is not saved yet.    *)
THEOREM LaunchShowsTheSame == SpacesSpec => []RestoresAsShown
<1>1. SpacesInit => RestoresAsShown
  BY FirstLook
<1> QED
  BY <1>1, ShownStep, SpacesStaySound, PTL DEF SpacesSpec

-----------------------------------------------------------------------------
(* Where the panes of a tree are placed.                                   *)

(* Where the nodes of a tree are placed: LayoutNode computes every one from *)
(* its parent, which stands before it.                                     *)
Computed(n, area, parent, f, k) ==
  IF k = 1 THEN area
  ELSE LET j == parent[k] IN IF k = j + 1 THEN RectA(n[j], f[j]) ELSE RectB(n[j], f[j])

ComputedTo(n, area, parent, f, m) == \A k \in 1 .. m : f[k] = Computed(n, area, parent, f, k)
Solves(n, area, parent, f) == f = [k \in DOMAIN n |-> Computed(n, area, parent, f, k)]
ParentIn(n) == [k \in 2 .. Len(n) |-> CHOOSE j \in Parents(n, k) : TRUE]

LEMMA LayoutSolves ==
  ASSUME NEW n, NEW area
  PROVE  LayoutNode(n, area) = LET f == CHOOSE f : Solves(n, area, ParentIn(n), f) IN [k \in DOMAIN n |-> f[k]]
  BY DEF LayoutNode, Solves, Computed, ParentIn

LEMMA ComputedStep ==
  ASSUME NEW n, NEW area, NEW len \in Nat, NEW parent, \A k \in 2 .. len : parent[k] \in 1 .. k - 1,
         NEW m \in 1 .. len, NEW g, ComputedTo(n, area, parent, g, m - 1)
  PROVE  \E h : ComputedTo(n, area, parent, h, m)
<1> DEFINE h == [k \in 1 .. m |-> IF k < m THEN g[k] ELSE Computed(n, area, parent, g, m)]
<1>1. ASSUME NEW k \in 1 .. m PROVE h[k] = Computed(n, area, parent, h, k)
  <2>1. Computed(n, area, parent, h, k) = Computed(n, area, parent, g, k)
    <3>1. CASE k = 1
      BY <3>1 DEF Computed
    <3>2. CASE k # 1
      <4>1. parent[k] \in 1 .. k - 1
        BY <3>2
      <4>2. h[parent[k]] = g[parent[k]]
        BY <4>1
      <4> HIDE DEF h
      <4> QED
        BY <4>2 DEF Computed
    <3> QED
      BY <3>1, <3>2
  <2>2. CASE k < m
    <3>1. k \in 1 .. m - 1 /\ h[k] = g[k]
      BY <2>2
    <3> HIDE DEF h
    <3>2. g[k] = Computed(n, area, parent, g, k)
      BY <3>1 DEF ComputedTo
    <3> QED
      BY <2>1, <3>1, <3>2
  <2>3. CASE k = m
    <3>1. h[k] = Computed(n, area, parent, g, k)
      BY <2>3
    <3> HIDE DEF h
    <3> QED
      BY <2>1, <3>1
  <2> QED
    BY <2>2, <2>3
<1> HIDE DEF h
<1>2. ComputedTo(n, area, parent, h, m)
  BY <1>1 DEF ComputedTo
<1> QED
  BY <1>2

LEMMA ComputedAll ==
  ASSUME NEW n, NEW area, NEW len \in Nat, NEW parent, \A k \in 2 .. len : parent[k] \in 1 .. k - 1
  PROVE  \E g : ComputedTo(n, area, parent, g, len)
<1> DEFINE Can(m) == \E g : ComputedTo(n, area, parent, g, m)
           S == {m \in 0 .. len : ~Can(m)}
<1>1. SUFFICES S = {}
  <2> HIDE DEF Can
  <2>1. len \in 0 .. len
    OBVIOUS
  <2>2. Can(len)
    BY <1>1, <2>1
  <2> QED
    BY <2>2 DEF Can
<1>2. SUFFICES ASSUME S # {} PROVE FALSE
  OBVIOUS
<1> HIDE DEF Can
<1>3. S \in SUBSET Nat
  OBVIOUS
<1>4. PICK m \in S : \A d \in S : m <= d
  BY <1>2, <1>3, LeastNatural
<1>5. m \in 0 .. len /\ ~Can(m) /\ \A d \in 0 .. len : Can(d) \/ m <= d
  BY <1>4
<1> HIDE DEF S
<1>6. Can(0)
  BY DEF Can, ComputedTo
<1>7. m \in 1 .. len /\ m - 1 \in 0 .. len /\ ~(m <= m - 1)
  <2>1. m # 0
    BY <1>5, <1>6
  <2> QED
    BY <1>5, <2>1
<1>8. PICK g : ComputedTo(n, area, parent, g, m - 1)
  BY <1>5, <1>7 DEF Can
<1>9. \E h : ComputedTo(n, area, parent, h, m)
  BY <1>7, <1>8, ComputedStep
<1> QED
  BY <1>5, <1>9 DEF Can

LEMMA LayoutComputed ==
  ASSUME NEW T, NEW n \in Seq(T), NEW area, \A k \in 2 .. Len(n) : ParentIn(n)[k] \in 1 .. k - 1
  PROVE  \A k \in 1 .. Len(n) : LayoutNode(n, area)[k] = Computed(n, area, ParentIn(n), LayoutNode(n, area), k)
<1> DEFINE parent == ParentIn(n)
           f == CHOOSE f : Solves(n, area, parent, f)
           l == LayoutNode(n, area)
<1>1. DOMAIN n = 1 .. Len(n) /\ Len(n) \in Nat
  OBVIOUS
<1>2. l = [k \in DOMAIN n |-> f[k]]
  BY LayoutSolves
<1>3. \A k \in 2 .. Len(n) : parent[k] \in 1 .. k - 1
  OBVIOUS
<1> HIDE DEF parent, l
<1>4. PICK g : ComputedTo(n, area, parent, g, Len(n))
  BY <1>1, <1>3, ComputedAll
<1> DEFINE h == [k \in DOMAIN n |-> g[k]]
<1>5. Solves(n, area, parent, h)
  <2>1. ASSUME NEW k \in DOMAIN n PROVE g[k] = Computed(n, area, parent, h, k)
    <3>1. g[k] = Computed(n, area, parent, g, k)
      BY <1>1, <1>4 DEF ComputedTo
    <3>2. CASE k = 1
      BY <3>1, <3>2 DEF Computed
    <3>3. CASE k # 1
      <4>1. parent[k] \in DOMAIN n
        BY <1>1, <1>3, <3>3
      <4>2. h[parent[k]] = g[parent[k]]
        BY <4>1
      <4> HIDE DEF h
      <4> QED
        BY <3>1, <4>2 DEF Computed
    <3> QED
      BY <3>2, <3>3
  <2>2. h = [k \in DOMAIN n |-> Computed(n, area, parent, h, k)]
    BY <2>1
  <2> HIDE DEF h
  <2> QED
    BY <2>2 DEF Solves
<1> HIDE DEF h
<1>6. Solves(n, area, parent, f)
  BY <1>5
<1> HIDE DEF f
<1>7. f = [k \in DOMAIN n |-> Computed(n, area, parent, f, k)]
  BY <1>6 DEF Solves
<1>8. l = f
  BY <1>2, <1>7
<1>9. \A k \in 1 .. Len(n) : f[k] = Computed(n, area, parent, f, k)
  BY <1>1, <1>7
<1> QED
  BY <1>8, <1>9 DEF l, parent

(* Every node but the first is one half of its split.                      *)
Half(n, l, j, k) == IF k = j + 1 THEN RectA(n[j], l[j]) ELSE RectB(n[j], l[j])
Placed(n, l) == \A k \in 2 .. Len(n) : \E j \in 1 .. k - 1 : Above(n, k, j) /\ l[k] = Half(n, l, j, k)

LEMMA LayoutPlaced ==
  ASSUME NEW T, NEW n \in Seq(T), IsTree(n), n # Nil, NEW area
  PROVE  LayoutNode(n, area)[1] = area /\ Placed(n, LayoutNode(n, area))
<1> DEFINE l == LayoutNode(n, area)
<1>1. \A k \in 2 .. Len(n) : \E j \in 1 .. k - 1 : ParentIn(n)[k] = j /\ Above(n, k, j)
  <2> SUFFICES ASSUME NEW k \in 2 .. Len(n) PROVE \E j \in 1 .. k - 1 : ParentIn(n)[k] = j /\ Above(n, k, j)
    OBVIOUS
  <2>1. PICK j \in 1 .. k - 1 : Parents(n, k) = {j} /\ Above(n, k, j)
    BY OneParent
  <2>2. ParentIn(n)[k] = j
    BY <2>1 DEF ParentIn
  <2> QED
    BY <2>1, <2>2
<1>2. \A k \in 2 .. Len(n) : ParentIn(n)[k] \in 1 .. k - 1
  BY <1>1
<1>3. \A k \in 1 .. Len(n) : l[k] = Computed(n, area, ParentIn(n), l, k)
  BY <1>2, LayoutComputed
<1> HIDE DEF l
<1>4. 1 \in 1 .. Len(n)
  BY DEF Nil
<1>5. l[1] = area
  BY <1>3, <1>4 DEF Computed
<1>6. Placed(n, l)
  <2> SUFFICES ASSUME NEW k \in 2 .. Len(n) PROVE \E j \in 1 .. k - 1 : Above(n, k, j) /\ l[k] = Half(n, l, j, k)
    BY DEF Placed
  <2>1. PICK j \in 1 .. k - 1 : ParentIn(n)[k] = j /\ Above(n, k, j)
    BY <1>1
  <2>2. l[k] = Computed(n, area, ParentIn(n), l, k) /\ k # 1
    BY <1>3
  <2>3. l[k] = Half(n, l, j, k)
    BY <2>1, <2>2 DEF Computed, Half
  <2> QED
    BY <2>1, <2>3
<1> QED
  BY <1>5, <1>6 DEF l

LEMMA SecondPlaced ==
  ASSUME NEW T, NEW n \in Seq(T), IsTree(n), NEW l, Placed(n, l), NEW j \in 1 .. Len(n), ~IsLeaf(n[j])
  PROVE  /\ j + 1 \in 1 .. Len(n) /\ l[j + 1] = RectA(n[j], l[j])
         /\ End(n, j + 1) + 1 \in j + 2 .. Len(n) /\ l[End(n, j + 1) + 1] = RectB(n[j], l[j])
<1> DEFINE k == End(n, j + 1) + 1
<1>1. j + 1 \in 1 .. Len(n) /\ End(n, j + 1) \in j + 1 .. Len(n) - 1
  BY SplitHasTwo
<1>2. k \in 2 .. Len(n) /\ k \in j + 2 .. Len(n) /\ k # j + 1 /\ j \in 1 .. k - 1 /\ j + 1 \in 2 .. Len(n) /\ j \in 1 .. (j + 1) - 1
  BY <1>1
<1>3. Above(n, j + 1, j)
  BY <1>2 DEF Above
<1>4. Above(n, k, j)
  BY <1>2 DEF Above
<1> HIDE DEF k
<1>5. ASSUME NEW i \in 2 .. Len(n), Above(n, i, j) PROVE l[i] = Half(n, l, j, i)
  <2>1. PICK a \in 1 .. i - 1 : Above(n, i, a) /\ l[i] = Half(n, l, a, i)
    BY DEF Placed
  <2>2. PICK b \in 1 .. i - 1 : Parents(n, i) = {b}
    BY OneParent
  <2>3. j \in Parents(n, i) /\ a \in Parents(n, i)
    BY <1>5, <2>1 DEF Above, Parents
  <2> QED
    BY <2>1, <2>2, <2>3
<1>6. l[j + 1] = Half(n, l, j, j + 1)
  BY <1>2, <1>3, <1>5
<1>7. l[k] = Half(n, l, j, k)
  BY <1>2, <1>4, <1>5
<1> QED
  BY <1>1, <1>2, <1>6, <1>7 DEF Half, k

(* Halves of a rectangle that has room for both.                           *)
Rects == [x : Int, y : Int, w : Int, h : Int]
HasRoom(s, r) == IF s.vertical THEN r.w >= 2 * MinPaneCols ELSE r.h >= 2 * MinPaneRows

LEMMA FirstBounds ==
  ASSUME NEW s, s.vertical \in BOOLEAN, s.ratio \in 1 .. 9, NEW r \in Rects, HasRoom(s, r)
  PROVE  /\ First(s, r) \in Int
         /\ s.vertical => MinPaneCols <= First(s, r) /\ First(s, r) <= r.w - MinPaneCols
         /\ ~s.vertical => MinPaneRows <= First(s, r) /\ First(s, r) <= r.h - MinPaneRows
<1>1. r.w \in Int /\ r.h \in Int
  BY DEF Rects
<1>2. \A v \in Int, low \in Int, high \in Int :
         low <= high => Clamp(v, low, high) \in Int /\ low <= Clamp(v, low, high) /\ Clamp(v, low, high) <= high
  BY DEF Clamp
<1>3. CASE s.vertical
  <2> DEFINE v == (r.w * s.ratio) \div 10
             high == r.w - MinPaneCols
  <2>1. v \in Int /\ MinPaneCols \in Int /\ high \in Int /\ MinPaneCols <= high
    BY <1>1, <1>3 DEF HasRoom, MinPaneCols
  <2>2. First(s, r) = Clamp(v, MinPaneCols, high)
    BY <1>3 DEF First
  <2> HIDE DEF v, high
  <2>3. First(s, r) \in Int /\ MinPaneCols <= First(s, r) /\ First(s, r) <= high
    BY <1>2, <2>1, <2>2
  <2> QED
    BY <1>3, <2>3 DEF high
<1>4. CASE ~s.vertical
  <2> DEFINE v == (r.h * s.ratio) \div 10
             high == r.h - MinPaneRows
  <2>1. v \in Int /\ MinPaneRows \in Int /\ high \in Int /\ MinPaneRows <= high
    BY <1>1, <1>4 DEF HasRoom, MinPaneRows
  <2>2. First(s, r) = Clamp(v, MinPaneRows, high)
    BY <1>4 DEF First
  <2> HIDE DEF v, high
  <2>3. First(s, r) \in Int /\ MinPaneRows <= First(s, r) /\ First(s, r) <= high
    BY <1>2, <2>1, <2>2
  <2> QED
    BY <1>4, <2>3 DEF high
<1> QED
  BY <1>3, <1>4

(* A pane's least size, within the terminal.                               *)
Fitting(r) ==
  /\ r \in Rects /\ r.w >= MinPaneCols /\ r.h >= MinPaneRows
  /\ r.x >= 0 /\ r.y >= 0 /\ r.x + r.w <= Width /\ r.y + r.h <= Height
Halved(r, a, b) ==
  \A x, y \in Int : /\ Covers(r, x, y) <=> Covers(a, x, y) \/ Covers(b, x, y)
                    /\ ~(Covers(a, x, y) /\ Covers(b, x, y))

LEMMA Halves ==
  ASSUME NEW s, s.vertical \in BOOLEAN, s.ratio \in 1 .. 9, NEW r, Fitting(r), HasRoom(s, r)
  PROVE  Fitting(RectA(s, r)) /\ Fitting(RectB(s, r)) /\ Halved(r, RectA(s, r), RectB(s, r))
<1> DEFINE f == First(s, r)
           a == RectA(s, r)
           b == RectB(s, r)
<1>1. r \in Rects /\ r.x \in Int /\ r.y \in Int /\ r.w \in Int /\ r.h \in Int
  BY DEF Fitting, Rects
<1>2. /\ f \in Int
      /\ s.vertical => MinPaneCols <= f /\ f <= r.w - MinPaneCols
      /\ ~s.vertical => MinPaneRows <= f /\ f <= r.h - MinPaneRows
  BY <1>1, FirstBounds
<1>3. Width \in Int /\ Height \in Int
  BY WorkspacesAssumption
<1>4. CASE s.vertical
  <2>1. a = [r EXCEPT !.w = f] /\ b = [r EXCEPT !.x = @ + f, !.w = @ - f]
    BY <1>4 DEF RectA, RectB
  <2> HIDE DEF f, a, b
  <2>2. /\ a \in Rects /\ a.x = r.x /\ a.y = r.y /\ a.w = f /\ a.h = r.h
        /\ b \in Rects /\ b.x = r.x + f /\ b.y = r.y /\ b.w = r.w - f /\ b.h = r.h
    <3>1. r = Rect(r.x, r.y, r.w, r.h)
      BY <1>1 DEF Rects, Rect
    <3>2. a = Rect(r.x, r.y, f, r.h)
      BY <2>1, <3>1 DEF Rect
    <3>3. b = Rect(r.x + f, r.y, r.w - f, r.h)
      BY <2>1, <3>1 DEF Rect
    <3>4. \A i, j, v, u \in Int : Rect(i, j, v, u) \in Rects
      BY DEF Rect, Rects
    <3>5. a \in Rects /\ b \in Rects
      BY <1>1, <1>2, <3>2, <3>3, <3>4
    <3> QED
      BY <3>2, <3>3, <3>5 DEF Rect
  <2>3. Fitting(a) /\ Fitting(b)
    BY <1>1, <1>2, <1>3, <1>4, <2>2 DEF Fitting, MinPaneCols, MinPaneRows
  <2>4. Halved(r, a, b)
    BY <1>1, <1>2, <1>4, <2>2 DEF Halved, Covers, MinPaneCols
  <2> QED
    BY <2>3, <2>4 DEF a, b
<1>5. CASE ~s.vertical
  <2>1. a = [r EXCEPT !.h = f] /\ b = [r EXCEPT !.y = @ + f, !.h = @ - f]
    BY <1>5 DEF RectA, RectB
  <2> HIDE DEF f, a, b
  <2>2. /\ a \in Rects /\ a.x = r.x /\ a.y = r.y /\ a.w = r.w /\ a.h = f
        /\ b \in Rects /\ b.x = r.x /\ b.y = r.y + f /\ b.w = r.w /\ b.h = r.h - f
    <3>1. r = Rect(r.x, r.y, r.w, r.h)
      BY <1>1 DEF Rects, Rect
    <3>2. a = Rect(r.x, r.y, r.w, f)
      BY <2>1, <3>1 DEF Rect
    <3>3. b = Rect(r.x, r.y + f, r.w, r.h - f)
      BY <2>1, <3>1 DEF Rect
    <3>4. \A i, j, v, u \in Int : Rect(i, j, v, u) \in Rects
      BY DEF Rect, Rects
    <3>5. a \in Rects /\ b \in Rects
      BY <1>1, <1>2, <3>2, <3>3, <3>4
    <3> QED
      BY <3>2, <3>3, <3>5 DEF Rect
  <2>3. Fitting(a) /\ Fitting(b)
    BY <1>1, <1>2, <1>3, <1>5, <2>2 DEF Fitting, MinPaneCols, MinPaneRows
  <2>4. Halved(r, a, b)
    BY <1>1, <1>2, <1>5, <2>2 DEF Halved, Covers, MinPaneRows
  <2> QED
    BY <2>3, <2>4 DEF a, b
<1> QED
  BY <1>4, <1>5

(* A layout with room: each node fits, and those of a split are its halves. *)
Laid(n, l) ==
  /\ \A k \in 1 .. Len(n) : Fitting(l[k])
  /\ \A k \in 2 .. Len(n) : \E j \in 1 .. k - 1 :
        Above(n, k, j) /\ \A x, y \in Int : Covers(l[k], x, y) => Covers(l[j], x, y)
  /\ \A j \in 1 .. Len(n) : ~IsLeaf(n[j]) =>
        /\ j + 1 \in 1 .. Len(n) /\ End(n, j + 1) + 1 \in j + 2 .. Len(n)
        /\ Halved(l[j], l[j + 1], l[End(n, j + 1) + 1])

LEMMA SplitOfTree ==
  ASSUME NEW n \in Seq(Node), NEW j \in 1 .. Len(n), ~IsLeaf(n[j])
  PROVE  n[j].vertical \in BOOLEAN /\ n[j].ratio \in 1 .. 9
<1>1. n[j] \in Node /\ n[j].pane = None
  BY DEF IsLeaf
<1> QED
  BY <1>1, NodeIs

LEMMA LayoutLaid ==
  ASSUME NEW n \in Seq(Node), IsTree(n), NEW l, Placed(n, l), Fitting(l[1]),
         \A j \in 1 .. Len(n) : ~IsLeaf(n[j]) => HasRoom(n[j], l[j])
  PROVE  Laid(n, l)
<1> DEFINE S == {k \in 1 .. Len(n) : ~Fitting(l[k])}
<1>1. ASSUME NEW j \in 1 .. Len(n), ~IsLeaf(n[j]), Fitting(l[j])
      PROVE  Fitting(RectA(n[j], l[j])) /\ Fitting(RectB(n[j], l[j])) /\ Halved(l[j], RectA(n[j], l[j]), RectB(n[j], l[j]))
  <2>1. n[j].vertical \in BOOLEAN /\ n[j].ratio \in 1 .. 9 /\ HasRoom(n[j], l[j])
    BY <1>1, SplitOfTree
  <2> QED
    BY <1>1, <2>1, Halves
<1>2. \A k \in 2 .. Len(n) : \E j \in 1 .. k - 1 : Above(n, k, j) /\ l[k] = Half(n, l, j, k) /\ j \in 1 .. Len(n) /\ ~IsLeaf(n[j])
  BY DEF Placed, Above
<1>3. \A k \in 1 .. Len(n) : Fitting(l[k])
  <2> SUFFICES ASSUME S # {} PROVE FALSE
    OBVIOUS
  <2>1. S \in SUBSET Nat
    OBVIOUS
  <2>2. PICK k \in S : \A d \in S : k <= d
    BY <2>1, LeastNatural
  <2>3. k \in 1 .. Len(n) /\ ~Fitting(l[k]) /\ \A d \in 1 .. Len(n) : Fitting(l[d]) \/ k <= d
    BY <2>2
  <2> HIDE DEF S
  <2>4. k \in 2 .. Len(n)
    <3>1. k # 1
      BY <2>3
    <3> QED
      BY <2>3, <3>1
  <2>5. PICK j \in 1 .. k - 1 : l[k] = Half(n, l, j, k) /\ j \in 1 .. Len(n) /\ ~IsLeaf(n[j])
    BY <1>2, <2>4
  <2>6. Fitting(l[j])
    <3>1. ~(k <= j)
      BY <2>4
    <3> QED
      BY <2>3, <2>5, <3>1
  <2>7. Fitting(l[k])
    BY <1>1, <2>5, <2>6 DEF Half
  <2> QED
    BY <2>3, <2>7
<1>4. ASSUME NEW k \in 2 .. Len(n)
      PROVE  \E j \in 1 .. k - 1 : Above(n, k, j) /\ \A x, y \in Int : Covers(l[k], x, y) => Covers(l[j], x, y)
  <2>1. PICK j \in 1 .. k - 1 : Above(n, k, j) /\ l[k] = Half(n, l, j, k) /\ j \in 1 .. Len(n) /\ ~IsLeaf(n[j])
    BY <1>2
  <2>2. Halved(l[j], RectA(n[j], l[j]), RectB(n[j], l[j]))
    BY <1>1, <1>3, <2>1
  <2>3. l[k] = RectA(n[j], l[j]) \/ l[k] = RectB(n[j], l[j])
    BY <2>1 DEF Half
  <2>4. \A x, y \in Int : Covers(l[k], x, y) => Covers(l[j], x, y)
    BY <2>2, <2>3 DEF Halved
  <2> QED
    BY <2>1, <2>4
<1>5. ASSUME NEW j \in 1 .. Len(n), ~IsLeaf(n[j])
      PROVE  /\ j + 1 \in 1 .. Len(n) /\ End(n, j + 1) + 1 \in j + 2 .. Len(n)
             /\ Halved(l[j], l[j + 1], l[End(n, j + 1) + 1])
  <2>1. /\ j + 1 \in 1 .. Len(n) /\ l[j + 1] = RectA(n[j], l[j])
        /\ End(n, j + 1) + 1 \in j + 2 .. Len(n) /\ l[End(n, j + 1) + 1] = RectB(n[j], l[j])
    BY <1>5, SecondPlaced
  <2>2. Halved(l[j], RectA(n[j], l[j]), RectB(n[j], l[j]))
    BY <1>1, <1>3, <1>5
  <2> QED
    BY <2>1, <2>2
<1> QED
  BY <1>3, <1>4, <1>5 DEF Laid

(* A node's rectangle is within that of every tree the node is in ...      *)
LEMMA CoveredAbove ==
  ASSUME NEW n \in Seq(Node), IsTree(n), NEW l, Laid(n, l), NEW x \in Int, NEW y \in Int,
         NEW c \in 1 .. Len(n), NEW i \in c .. End(n, c), Covers(l[i], x, y)
  PROVE  Covers(l[c], x, y)
<1> DEFINE S == {k \in c .. End(n, c) : Covers(l[k], x, y) /\ ~Covers(l[c], x, y)}
<1> SUFFICES ASSUME S # {} PROVE FALSE
  OBVIOUS
<1>1. End(n, c) \in c .. Len(n)
  BY EndOf
<1>2. S \in SUBSET Nat
  BY <1>1
<1>3. PICK k \in S : \A d \in S : k <= d
  BY <1>2, LeastNatural
<1>4. k \in c .. End(n, c) /\ Covers(l[k], x, y) /\ ~Covers(l[c], x, y)
      /\ \A d \in c .. End(n, c) : ~Covers(l[d], x, y) \/ k <= d
  BY <1>3
<1> HIDE DEF S
<1>5. k # c
  BY <1>4
<1>6. k \in 2 .. Len(n)
  BY <1>1, <1>4, <1>5
<1>7. PICK j \in 1 .. k - 1 : Above(n, k, j) /\ \A u, v \in Int : Covers(l[k], u, v) => Covers(l[j], u, v)
  BY <1>6 DEF Laid
<1>8. Covers(l[j], x, y) /\ ~IsLeaf(n[j]) /\ (k = j + 1 \/ k = End(n, j + 1) + 1) /\ j \in 1 .. Len(n)
  BY <1>4, <1>6, <1>7 DEF Above
<1>9. j >= c
  <2> SUFFICES ASSUME j < c PROVE FALSE
    BY <1>7
  <2>1. k = End(n, j + 1) + 1
    BY <1>4, <1>5, <1>8
  <2>2. j + 1 \in 1 .. Len(n) /\ End(n, j + 1) \in j + 1 .. Len(n) - 1
    BY <1>8, SplitHasTwo
  <2>3. c \in j + 1 .. End(n, j + 1)
    BY <1>4, <1>5, <2>1, <2>2
  <2>4. End(n, c) <= End(n, j + 1)
    BY <2>2, <2>3, EndWithin
  <2> QED
    BY <1>1, <1>4, <2>1, <2>2, <2>4
<1>10. j \in c .. End(n, c) /\ ~(k <= j)
  BY <1>1, <1>4, <1>6, <1>9
<1> QED
  BY <1>4, <1>8, <1>10

(* ... so two nodes that show a cell are one within the other.             *)
LEMMA CoveredWithin ==
  ASSUME NEW n \in Seq(Node), IsTree(n), NEW l, Laid(n, l), NEW x \in Int, NEW y \in Int,
         NEW i \in 1 .. Len(n), NEW m \in i + 1 .. Len(n), Covers(l[i], x, y), Covers(l[m], x, y)
  PROVE  m <= End(n, i)
<1> DEFINE S == {k \in i + 1 .. Len(n) : Covers(l[k], x, y) /\ ~(k <= End(n, i))}
<1>1. End(n, i) \in i .. Len(n)
  BY EndOf
<1> SUFFICES ASSUME S # {} PROVE FALSE
  OBVIOUS
<1>2. S \in SUBSET Nat
  OBVIOUS
<1>3. PICK k \in S : \A d \in S : k <= d
  BY <1>2, LeastNatural
<1>4. k \in i + 1 .. Len(n) /\ Covers(l[k], x, y) /\ ~(k <= End(n, i))
      /\ \A d \in i + 1 .. Len(n) : ~Covers(l[d], x, y) \/ d <= End(n, i) \/ k <= d
  BY <1>3
<1> HIDE DEF S
<1>5. k \in 2 .. Len(n)
  BY <1>4
<1>6. PICK j \in 1 .. k - 1 : Above(n, k, j) /\ \A u, v \in Int : Covers(l[k], u, v) => Covers(l[j], u, v)
  BY <1>5 DEF Laid
<1>7. Covers(l[j], x, y) /\ ~IsLeaf(n[j]) /\ (k = j + 1 \/ k = End(n, j + 1) + 1) /\ j \in 1 .. Len(n)
  BY <1>4, <1>5, <1>6 DEF Above
<1>8. j + 1 \in 1 .. Len(n) /\ End(n, j + 1) \in j + 1 .. Len(n) - 1 /\ End(n, j + 1) < End(n, j) /\ End(n, j) \in j .. Len(n)
  BY <1>7, SplitHasTwo, EndOf
<1>9. k <= End(n, j)
  BY <1>7, <1>8
<1>10. CASE j = i
  BY <1>4, <1>9, <1>10
<1>11. CASE i < j
  <2>1. j \in i + 1 .. Len(n) /\ ~(k <= j)
    BY <1>5, <1>7, <1>11
  <2>2. j <= End(n, i)
    BY <1>4, <1>7, <2>1
  <2>3. j \in i .. End(n, i)
    BY <1>1, <1>11, <2>1, <2>2
  <2>4. End(n, j) <= End(n, i)
    BY <2>3, EndWithin
  <2> QED
    BY <1>1, <1>4, <1>8, <1>9, <2>4
<1>12. CASE j < i
  <2>1. k = End(n, j + 1) + 1
    BY <1>4, <1>7, <1>12
  <2>2. i \in j + 1 .. End(n, j + 1)
    BY <1>4, <1>8, <1>12, <2>1
  <2>3. Covers(l[j + 1], x, y)
    BY <1>8, <2>2, CoveredAbove
  <2>4. Halved(l[j], l[j + 1], l[k])
    BY <1>7, <2>1 DEF Laid
  <2> QED
    BY <1>4, <2>3, <2>4 DEF Halved
<1> QED
  BY <1>10, <1>11, <1>12

(* Every cell of the whole is in the rectangle of one leaf.                *)
LEMMA CellOnce ==
  ASSUME NEW n \in Seq(Node), IsTree(n), n # Nil, NEW l, Laid(n, l), NEW x \in Int, NEW y \in Int, Covers(l[1], x, y)
  PROVE  \E i \in Leaves(n) : \A k \in Leaves(n) : Covers(l[k], x, y) <=> k = i
<1>1. Leaves(n) = {k \in 1 .. Len(n) : IsLeaf(n[k])} /\ 1 \in 1 .. Len(n) /\ Len(n) \in Nat
  BY DEF Leaves, Nil
<1> DEFINE S == {d \in 0 .. Len(n) - 1 : Covers(l[Len(n) - d], x, y)}
<1>2. Len(n) - 1 \in S
  <2>1. Len(n) - 1 \in 0 .. Len(n) - 1 /\ Len(n) - (Len(n) - 1) = 1
    BY <1>1
  <2> QED
    BY <2>1
<1>3. S \in SUBSET Nat /\ S # {}
  <2>1. S \subseteq Nat
    <3> SUFFICES ASSUME NEW m \in S PROVE m \in Nat
      OBVIOUS
    <3>1. m \in 0 .. Len(n) - 1
      OBVIOUS
    <3> HIDE DEF S
    <3> QED
      BY <1>1, <3>1
  <2> HIDE DEF S
  <2> QED
    BY <1>2, <2>1
<1>4. PICK d \in S : \A e \in S : d <= e
  BY <1>3, LeastNatural
<1> DEFINE i == Len(n) - d
<1>5. i \in 1 .. Len(n) /\ Covers(l[i], x, y)
  BY <1>1, <1>4
<1>6. ASSUME NEW k \in 1 .. Len(n), Covers(l[k], x, y) PROVE k <= i
  <2>1. Len(n) - k \in 0 .. Len(n) - 1 /\ Len(n) - (Len(n) - k) = k
    BY <1>1
  <2>2. Len(n) - k \in S
    BY <1>6, <2>1
  <2>3. d <= Len(n) - k /\ d \in Nat
    BY <1>3, <1>4, <2>2
  <2> QED
    BY <1>1, <2>3
<1> HIDE DEF S, i
<1>7. IsLeaf(n[i])
  <2> SUFFICES ASSUME ~IsLeaf(n[i]) PROVE FALSE
    OBVIOUS
  <2>1. i + 1 \in 1 .. Len(n) /\ End(n, i + 1) + 1 \in i + 2 .. Len(n) /\ Halved(l[i], l[i + 1], l[End(n, i + 1) + 1])
    BY <1>5 DEF Laid
  <2>2. Covers(l[i + 1], x, y) \/ Covers(l[End(n, i + 1) + 1], x, y)
    BY <1>5, <2>1 DEF Halved
  <2>3. End(n, i + 1) + 1 \in 1 .. Len(n)
    BY <1>5, <2>1
  <2>4. i + 1 <= i \/ End(n, i + 1) + 1 <= i
    BY <1>6, <2>1, <2>2, <2>3
  <2> QED
    BY <1>5, <2>1, <2>4
<1>8. ASSUME NEW k \in 1 .. Len(n), IsLeaf(n[k]), Covers(l[k], x, y) PROVE k = i
  <2>1. k <= i
    BY <1>6, <1>8
  <2> SUFFICES ASSUME k < i PROVE FALSE
    BY <1>5, <2>1
  <2>2. i \in k + 1 .. Len(n)
    BY <1>5
  <2>3. i <= End(n, k)
    BY <1>5, <1>8, <2>2, CoveredWithin
  <2>4. End(n, k) = k
    BY <1>8, EndOfLeaf
  <2> QED
    BY <1>5, <2>3, <2>4
<1> QED
  BY <1>1, <1>5, <1>7, <1>8

(* The panes of a layout with room tile the terminal area.                 *)
LEMMA AreaFits ==
  ASSUME Width >= MinPaneCols, Height >= MinPaneRows
  PROVE  /\ Fitting(Area)
         /\ \A x \in 0 .. Width - 1, y \in 0 .. Height - 1 : x \in Int /\ y \in Int /\ Covers(Area, x, y)
<1>1. Width \in Int /\ Height \in Int
  BY WorkspacesAssumption
<1>2. Area \in Rects /\ Area.x = 0 /\ Area.y = 0 /\ Area.w = Width /\ Area.h = Height
  BY <1>1 DEF Area, Rect, Rects
<1>3. Fitting(Area)
  BY <1>1, <1>2 DEF Fitting
<1>4. \A x \in 0 .. Width - 1, y \in 0 .. Height - 1 : x \in Int /\ y \in Int /\ Covers(Area, x, y)
  BY <1>1, <1>2 DEF Covers
<1> QED
  BY <1>3, <1>4

LEMMA TreeTiles ==
  ASSUME NEW n \in Seq(Node), IsTree(n), NEW xs, xs \subseteq 0 .. Width - 1, NEW ys, ys \subseteq 0 .. Height - 1
  PROVE  Tiles(n, LayoutNode(n, Area), xs, ys)
<1> DEFINE l == LayoutNode(n, Area)
<1> SUFFICES ASSUME n # Nil, Roomy(n, l)
             PROVE  /\ \A i \in Leaves(n) : Fitting(l[i])
                    /\ \A x \in xs, y \in ys : \E i \in Leaves(n) : \A k \in Leaves(n) : Covers(l[k], x, y) <=> k = i
  BY DEF Tiles, Fitting
<1>1. l[1] = Area /\ Placed(n, l)
  BY LayoutPlaced
<1> HIDE DEF l
<1>2. DOMAIN n = 1 .. Len(n)
  OBVIOUS
<1>3. Width >= MinPaneCols /\ Height >= MinPaneRows
  BY DEF Roomy
<1>4. \A j \in 1 .. Len(n) : ~IsLeaf(n[j]) => HasRoom(n[j], l[j])
  BY <1>2 DEF Roomy, HasRoom, Leaves
<1>5. Laid(n, l)
  BY <1>1, <1>3, <1>4, AreaFits, LayoutLaid
<1>6. \A i \in Leaves(n) : Fitting(l[i])
  BY <1>2, <1>5 DEF Laid, Leaves
<1>7. ASSUME NEW x \in xs, NEW y \in ys
      PROVE  \E i \in Leaves(n) : \A k \in Leaves(n) : Covers(l[k], x, y) <=> k = i
  <2>1. x \in 0 .. Width - 1 /\ y \in 0 .. Height - 1
    OBVIOUS
  <2>2. x \in Int /\ y \in Int /\ Covers(l[1], x, y)
    BY <1>1, <1>3, <2>1, AreaFits
  <2> QED
    BY <1>5, <2>2, CellOnce
<1> QED
  BY <1>6, <1>7

LEMMA TreesShow ==
  ASSUME SpacesInv, NEW n \in Trees(spaces)
  PROVE  n \in Seq(Node) /\ IsTree(n)
<1>1. PICK s \in ToSet(spaces) : n \in {t.layout : t \in ToSet(s.tabs)}
  BY DEF Trees
<1>2. PICK t \in ToSet(s.tabs) : n = t.layout
  BY <1>1
<1>3. SpaceSound(s, floating)
  BY <1>1 DEF SpacesInv, Good, SpacesSound, ToSet
<1>4. TabSound(t, floating)
  BY <1>3, <1>2, SpaceFields DEF ToSet
<1> QED
  BY <1>2, <1>4, TabFields DEF Shows

(* The panes of every layout tile the terminal area, if it has room for    *)
(* them (PanesTile), whatever is split, closed, dragged and restored: each *)
(* node has room for its least size, a split's children are its halves,    *)
(* and of the nodes that show a cell the last is a leaf ...                *)
THEOREM PanesAlwaysTile == SpacesSpec => []PanesTile
<1>1. SpacesInv => PanesTile
  <2> SUFFICES ASSUME SpacesInv, NEW n \in Trees(spaces) PROVE LET l == LayoutNode(n, Area) IN Tiles(n, l, Cols(n, l), Rows(n, l))
    BY DEF PanesTile
  <2>1. n \in Seq(Node) /\ IsTree(n)
    BY TreesShow
  <2> DEFINE l == LayoutNode(n, Area)
             xs == Cols(n, l)
             ys == Rows(n, l)
  <2>2. xs \subseteq 0 .. Width - 1 /\ ys \subseteq 0 .. Height - 1
    BY DEF Cols, Rows
  <2> HIDE DEF xs, ys
  <2>3. Tiles(n, LayoutNode(n, Area), xs, ys)
    BY <2>1, <2>2, TreeTiles
  <2> QED
    BY <2>3 DEF xs, ys
<1> QED
  BY <1>1, SpacesStaySound, PTL

(* ... and so for every cell, not only those where a pane begins or ends   *)
(* (CellsTile).                                                            *)
THEOREM CellsAlwaysTile == SpacesSpec => []CellsTile
<1>1. SpacesInv => CellsTile
  <2> SUFFICES ASSUME SpacesInv, NEW n \in Trees(spaces) PROVE Tiles(n, LayoutNode(n, Area), 0 .. Width - 1, 0 .. Height - 1)
    BY DEF CellsTile
  <2>1. n \in Seq(Node) /\ IsTree(n)
    BY TreesShow
  <2> QED
    BY <2>1, TreeTiles
<1> QED
  BY <1>1, SpacesStaySound, PTL
=============================================================================
