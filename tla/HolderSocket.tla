---------------------------- MODULE HolderSocket ----------------------------
(***************************************************************************)
(* Who listens at the holder socket.  A terminal interface connects to the *)
(* holder that listens there, or clears the way and spawns one             *)
(* (internal/holder/client.go ConnectOrSpawn, Spawn); `hrdx stop` lists    *)
(* the sessions, asks, and shuts the holder down (cmd/hrdx/stop.go,        *)
(* internal/holder/manage.go); holders listen, serve one connection at a   *)
(* time, and unlink the socket by its path when they end                   *)
(* (internal/holder/server.go Run, shutdown).                              *)
(*                                                                         *)
(* The module is about the path and the processes.  What travels on an     *)
(* accepted connection is the subject of Holder; here a request and its    *)
(* response are one step.  Spawn's trial connection is closed at once and  *)
(* leaves no trace.                                                        *)
(***************************************************************************)
EXTENDS Integers, Sequences, FiniteSets

CONSTANTS
  Tui,          \* terminal interfaces: launches of hrdx with persistence on
  Stopper,      \* runs of `hrdx stop`
  HolderProc,   \* holder processes
  Old,          \* those of an older binary, with another protocol
  Initial,      \* the holder that runs at the start, or None
  None,         \* no process
  MaxSession,   \* bound: sessions one holder ever starts
  MaxCrash,     \* bound: holder crashes
  MaxLaunching  \* bound: launches and stops under way at the same time

ASSUME HolderSocketAssumption ==
  /\ Tui \cap Stopper = {} /\ None \notin Tui \cup Stopper \cup HolderProc
  /\ Old \subseteq HolderProc
  /\ Initial \in HolderProc \cup {None}
  /\ MaxSession \in Nat /\ MaxCrash \in Nat /\ MaxLaunching \in Nat

Proc == Tui \cup Stopper

VARIABLES
  path,     \* the holder whose socket the path names, dead or alive, or None
  holder,   \* the state of each holder process
  held,     \* Server.sessions: ids of its sessions
  nextID,   \* Server.nextID
  slot,     \* the connection it serves
  backlog,  \* connections waiting in its listener
  pc,       \* where each launch or stop is
  conn,     \* the holder it is connected to, or None
  found,    \* stop: the sessions it showed to the user, and whose they were
  killed,   \* stop: the sessions its shutdown ended, and whose they were
  crashes   \* holder crashes so far

vars == <<path, holder, held, nextID, slot, backlog, pc, conn, found, killed, crashes>>

Nothing == [of |-> None, ids |-> {}]

Init ==
  /\ path = Initial
  /\ holder = [h \in HolderProc |-> IF h = Initial THEN "listening" ELSE "unborn"]
  /\ held = [h \in HolderProc |-> {}]
  /\ nextID = [h \in HolderProc |-> 1]
  /\ slot = [h \in HolderProc |-> None]
  /\ backlog = [h \in HolderProc |-> <<>>]
  /\ pc = [p \in Proc |-> "idle"]
  /\ conn = [p \in Proc |-> None]
  /\ found = [p \in Stopper |-> Nothing]
  /\ killed = [p \in Stopper |-> Nothing]
  /\ crashes = 0

Goto(p, where) == pc' = [pc EXCEPT ![p] = where]

Listening == path # None /\ holder[path] \in {"listening", "stopping"}

(* Launches and stops that are under way.                                  *)
UnderWay == {p \in Proc : pc[p] \notin {"idle", "attached", "alone"}}

-----------------------------------------------------------------------------
(* Connections.                                                            *)

(* A connection is made as soon as a listener takes it into its backlog.   *)
Connects(p) ==
  /\ Listening
  /\ conn' = [conn EXCEPT ![p] = path]
  /\ backlog' = [backlog EXCEPT ![path] = Append(@, p)]

Closes(p) ==
  /\ conn' = [conn EXCEPT ![p] = None]
  /\ backlog' = [h \in HolderProc |-> SelectSeq(backlog[h], LAMBDA q : q # p)]
  /\ slot' = [h \in HolderProc |-> IF slot[h] = p THEN None ELSE slot[h]]

(* The holder serves p: it answers what p asks.                            *)
Served(p) ==
  conn[p] # None /\ slot[conn[p]] = p /\ holder[conn[p]] \in {"listening", "stopping", "closed"}

-----------------------------------------------------------------------------
(* A holder process.                                                       *)

(* net.Listen fails when the path exists, a dead socket included.          *)
Listen(h) ==
  /\ holder[h] = "starting"
  /\ IF path = None
     THEN path' = h /\ holder' = [holder EXCEPT ![h] = "listening"]
     ELSE holder' = [holder EXCEPT ![h] = "exited"] /\ UNCHANGED path
  /\ UNCHANGED <<held, nextID, slot, backlog, pc, conn, found, killed, crashes>>

(* Mutant of Accept: a new connection replaces the one being served.       *)
AcceptReplaces(h) ==
  /\ holder[h] \in {"listening", "stopping"} /\ backlog[h] # <<>>
  /\ slot' = [slot EXCEPT ![h] = Head(backlog[h])]
  /\ backlog' = [backlog EXCEPT ![h] = Tail(@)]
  /\ UNCHANGED <<path, holder, held, nextID, pc, conn, found, killed, crashes>>

(* Accept, one connection at a time: serveClient runs until it ends.  A    *)
(* holder that was told to stop accepts, too, until its listener is closed *)
(* by another goroutine, and serves whom it accepted.                      *)
Accept(h) ==
  /\ holder[h] \in {"listening", "stopping"} /\ slot[h] = None /\ backlog[h] # <<>>
  /\ slot' = [slot EXCEPT ![h] = Head(backlog[h])]
  /\ backlog' = [backlog EXCEPT ![h] = Tail(@)]
  /\ UNCHANGED <<path, holder, held, nextID, pc, conn, found, killed, crashes>>

(* Closing the listener after a shutdown unlinks the path and resets the   *)
(* connections nobody accepted yet; the one being served goes on ...       *)
CloseListener(h) ==
  /\ holder[h] = "stopping"
  /\ holder' = [holder EXCEPT ![h] = "closed"]
  /\ path' = None
  /\ conn' = [p \in Proc |-> IF \E i \in DOMAIN backlog[h] : backlog[h][i] = p THEN None ELSE conn[p]]
  /\ backlog' = [backlog EXCEPT ![h] = <<>>]
  /\ UNCHANGED <<held, nextID, slot, pc, found, killed, crashes>>

(* ... until it ends.  Then Accept fails, Run's deferred os.Remove unlinks *)
(* the path once more, and the process ends with whatever was started on   *)
(* it meanwhile.                                                           *)
RunReturns(h) ==
  /\ holder[h] = "closed" /\ slot[h] = None
  /\ holder' = [holder EXCEPT ![h] = "exited"]
  /\ held' = [held EXCEPT ![h] = {}]
  /\ path' = None
  /\ UNCHANGED <<nextID, slot, backlog, pc, conn, found, killed, crashes>>

(* A holder dies: its PTYs go with it and its socket file stays.           *)
Crash(h) ==
  /\ holder[h] \in {"starting", "listening", "stopping", "closed"} /\ crashes < MaxCrash
  /\ crashes' = crashes + 1
  /\ holder' = [holder EXCEPT ![h] = "exited"]
  /\ held' = [held EXCEPT ![h] = {}]
  /\ slot' = [slot EXCEPT ![h] = None]
  /\ backlog' = [backlog EXCEPT ![h] = <<>>]
  /\ conn' = [p \in Proc |-> IF conn[p] = h THEN None ELSE conn[p]]
  /\ UNCHANGED <<path, nextID, pc, found, killed>>

-----------------------------------------------------------------------------
(* Dialling and the handshake, which launch and stop have in common.  pc   *)
(* is "dial", "connect" or "redial" before, and names the answer awaited   *)
(* afterwards.                                                             *)

Begin(p) ==
  /\ pc[p] = "idle" /\ Cardinality(UnderWay) < MaxLaunching
  /\ Goto(p, "dial")
  /\ found' = IF p \in Stopper THEN [found EXCEPT ![p] = Nothing] ELSE found
  /\ killed' = IF p \in Stopper THEN [killed EXCEPT ![p] = Nothing] ELSE killed
  /\ UNCHANGED <<path, holder, held, nextID, slot, backlog, conn, crashes>>

Hello == [dial |-> "hello", connect |-> "helloNew", redial |-> "helloAgain"]

DialConnects(p) ==
  /\ pc[p] \in DOMAIN Hello
  /\ Connects(p)
  /\ Goto(p, Hello[pc[p]])
  /\ UNCHANGED <<path, holder, held, nextID, slot, found, killed, crashes>>

(* Nothing listens: a launch goes on to clear the path, once; a stop is    *)
(* done, and a second dial that fails ends either.                         *)
DialRefused(p) ==
  /\ pc[p] \in DOMAIN Hello /\ ~Listening
  /\ Goto(p, CASE p \in Tui /\ pc[p] = "dial" -> "remove"
               [] p \in Tui /\ pc[p] = "connect" -> "alone"
               [] p \in Stopper -> "idle")
  /\ UNCHANGED <<path, holder, held, nextID, slot, backlog, conn, found, killed, crashes>>

HelloAnswered(p) ==
  /\ Served(p)
  /\ \/ /\ pc[p] = "hello"
        /\ \/ p \in Tui /\ Goto(p, IF conn[p] \in Old THEN "replace" ELSE "attached")
           \/ p \in Stopper /\ Goto(p, "list")
     \/ /\ pc[p] = "helloNew" /\ conn[p] \notin Old /\ Goto(p, "attached")
     \/ /\ pc[p] = "helloAgain" /\ Goto(p, "relist")
  /\ UNCHANGED <<path, holder, held, nextID, slot, backlog, conn, found, killed, crashes>>

(* Mutant of HelloFails: a busy holder is waited for.                      *)
HelloFailsWhenReset(p) ==
  /\ pc[p] \in {"hello", "helloNew", "helloAgain"} /\ conn[p] = None
  /\ Closes(p)
  /\ Goto(p, IF pc[p] = "helloNew" THEN "alone" ELSE "idle")
  /\ UNCHANGED <<path, holder, held, nextID, found, killed, crashes>>

(* The answer does not come in time, or the connection ends: a launch that *)
(* reached a holder reports it busy and ends; one that spawned goes on     *)
(* without.                                                                *)
HelloFails(p) ==
  /\ pc[p] \in {"hello", "helloNew", "helloAgain"}
  /\ Closes(p)
  /\ Goto(p, IF pc[p] = "helloNew" THEN "alone" ELSE "idle")
  /\ UNCHANGED <<path, holder, held, nextID, found, killed, crashes>>

(* The holder answers a shutdown, kills every session it has and closes    *)
(* done, once; its serve loop goes back to Accept while a goroutine closes *)
(* the listener.  A shutdown whose answer comes too late is carried out    *)
(* all the same: nobody else is served before it.                          *)
StopsHolder(p) ==
  /\ Served(p)
  /\ holder' = [holder EXCEPT ![conn[p]] = IF @ = "listening" THEN "stopping" ELSE @]
  /\ held' = [held EXCEPT ![conn[p]] = {}]
  /\ Closes(p)

-----------------------------------------------------------------------------
(* A launch.                                                               *)

(* A holder with another protocol is told to shut down; that it did is     *)
(* neither checked nor waited for.                                         *)
ReplaceOld(p) ==
  /\ pc[p] = "replace"
  /\ \/ StopsHolder(p)
     \/ Closes(p) /\ UNCHANGED <<holder, held>>
  /\ Goto(p, "remove")
  /\ UNCHANGED <<path, nextID, found, killed, crashes>>

RemoveSocket(p) ==
  /\ pc[p] = "remove"
  /\ path' = None
  /\ Goto(p, "spawn")
  /\ UNCHANGED <<holder, held, nextID, slot, backlog, conn, found, killed, crashes>>

Spawn(p) ==
  /\ pc[p] = "spawn"
  /\ \/ \E h \in HolderProc \ Old :
          /\ holder[h] = "unborn"
          /\ holder' = [holder EXCEPT ![h] = "starting"]
          /\ Goto(p, "await")
     \/ Goto(p, "alone") /\ UNCHANGED holder
  /\ UNCHANGED <<path, held, nextID, slot, backlog, conn, found, killed, crashes>>

(* Spawn dials until somebody listens, whoever it is, or gives up.         *)
AwaitSocket(p) ==
  /\ pc[p] = "await"
  /\ \/ Listening /\ Goto(p, "connect")
     \/ Goto(p, "alone")
  /\ UNCHANGED <<path, holder, held, nextID, slot, backlog, conn, found, killed, crashes>>

(* An attached terminal starts and kills sessions, and quits.              *)
StartSession(p) ==
  /\ p \in Tui /\ pc[p] = "attached" /\ Served(p)
  /\ LET h == conn[p] IN
       /\ nextID[h] <= MaxSession
       /\ nextID' = [nextID EXCEPT ![h] = @ + 1]
       /\ held' = [held EXCEPT ![h] = @ \cup {nextID[h]}]
  /\ UNCHANGED <<path, holder, slot, backlog, pc, conn, found, killed, crashes>>

KillSession(p) ==
  /\ p \in Tui /\ pc[p] = "attached" /\ Served(p)
  /\ \E id \in held[conn[p]] : held' = [held EXCEPT ![conn[p]] = @ \ {id}]
  /\ UNCHANGED <<path, holder, nextID, slot, backlog, pc, conn, found, killed, crashes>>

Quit(p) ==
  /\ pc[p] \in {"attached", "alone"}
  /\ Closes(p)
  /\ Goto(p, "idle")
  /\ UNCHANGED <<path, holder, held, nextID, found, killed, crashes>>

-----------------------------------------------------------------------------
(* A stop.                                                                 *)

(* The sessions are listed.  When there are none the holder is stopped     *)
(* over the same connection, else the connection is given up for the       *)
(* prompt.  A holder with another protocol cannot be listed.               *)
ListSessions(p) ==
  /\ pc[p] = "list" /\ Served(p) /\ conn[p] \notin Old
  /\ found' = [found EXCEPT ![p] = [of |-> conn[p], ids |-> held[conn[p]]]]
  /\ IF held[conn[p]] = {}
     THEN Goto(p, "kill") /\ UNCHANGED <<conn, backlog, slot>>
     ELSE Goto(p, "ask") /\ Closes(p)
  /\ UNCHANGED <<path, holder, held, nextID, killed, crashes>>

Answer(p) ==
  /\ pc[p] = "ask"
  /\ Goto(p, "redial") \/ Goto(p, "idle")
  /\ UNCHANGED <<path, holder, held, nextID, slot, backlog, conn, found, killed, crashes>>

(* Mutant of CompareSessions: only new sessions count as a change.         *)
CompareAdded(p) ==
  /\ pc[p] = "relist" /\ Served(p) /\ conn[p] \notin Old
  /\ IF held[conn[p]] \subseteq found[p].ids
     THEN Goto(p, "kill") /\ UNCHANGED <<conn, backlog, slot>>
     ELSE Goto(p, "idle") /\ Closes(p)
  /\ UNCHANGED <<path, holder, held, nextID, found, killed, crashes>>

(* sameHeldSessions compares ids, commands and directories; restarted      *)
(* panes have the same ones again.                                         *)
CompareSessions(p) ==
  /\ pc[p] = "relist" /\ Served(p) /\ conn[p] \notin Old
  /\ IF held[conn[p]] = found[p].ids
     THEN Goto(p, "kill") /\ UNCHANGED <<conn, backlog, slot>>
     ELSE Goto(p, "idle") /\ Closes(p)
  /\ UNCHANGED <<path, holder, held, nextID, found, killed, crashes>>

StopHolder(p) ==
  /\ pc[p] = "kill"
  /\ StopsHolder(p)
  /\ killed' = [killed EXCEPT ![p] = [of |-> conn[p], ids |-> held[conn[p]]]]
  /\ Goto(p, "idle")
  /\ UNCHANGED <<path, nextID, found, crashes>>

(* An error, or no answer within two seconds.                              *)
StopFails(p) ==
  /\ pc[p] \in {"list", "relist", "kill"}
  /\ Closes(p)
  /\ Goto(p, "idle")
  /\ UNCHANGED <<path, holder, held, nextID, found, killed, crashes>>

-----------------------------------------------------------------------------
HolderStep(h) == Listen(h) \/ Accept(h) \/ CloseListener(h) \/ RunReturns(h)

LaunchStep(p) ==
  \/ DialConnects(p) \/ DialRefused(p) \/ HelloAnswered(p) \/ HelloFails(p)
  \/ ReplaceOld(p) \/ RemoveSocket(p) \/ Spawn(p) \/ AwaitSocket(p)

StopStep(p) ==
  \/ DialConnects(p) \/ DialRefused(p) \/ HelloAnswered(p) \/ HelloFails(p)
  \/ ListSessions(p) \/ CompareSessions(p) \/ StopHolder(p) \/ StopFails(p)

Next ==
  \/ \E h \in HolderProc : HolderStep(h) \/ Crash(h)
  \/ \E p \in Proc : Begin(p)
  \/ \E p \in Tui : LaunchStep(p) \/ StartSession(p) \/ KillSession(p) \/ Quit(p)
  \/ \E p \in Stopper : StopStep(p) \/ Answer(p)

Spec == Init /\ [][Next]_vars

(* Processes run, and every wait of a launch or a stop has a deadline.     *)
FairSpec == /\ Spec
            /\ \A h \in HolderProc : WF_vars(HolderStep(h))
            /\ \A p \in Tui : WF_vars(LaunchStep(p))
            /\ \A p \in Stopper : WF_vars(StopStep(p))

-----------------------------------------------------------------------------
TypeOK ==
  /\ path \in HolderProc \cup {None}
  /\ holder \in [HolderProc ->
       {"unborn", "starting", "listening", "stopping", "closed", "exited"}]
  /\ held \in [HolderProc -> SUBSET (1..MaxSession)]
  /\ nextID \in [HolderProc -> 1..(MaxSession + 1)]
  /\ slot \in [HolderProc -> Proc \cup {None}]
  /\ backlog \in [HolderProc -> Seq(Proc)]
  /\ pc \in [Proc -> {"idle", "dial", "connect", "redial", "hello", "helloNew",
                      "helloAgain", "replace", "remove", "spawn", "await", "attached",
                      "alone", "list", "ask", "relist", "kill"}]
  /\ conn \in [Proc -> HolderProc \cup {None}]
  /\ found \in [Stopper -> [of : HolderProc \cup {None}, ids : SUBSET (1..MaxSession)]]
  /\ killed \in [Stopper -> [of : HolderProc \cup {None}, ids : SUBSET (1..MaxSession)]]
  /\ crashes \in 0..MaxCrash

(* A holder has one terminal at a time, and nobody stops it or lists its   *)
(* sessions while it has: whoever got an answer holds its only slot        *)
(* (server.go Run and serveClient, manage.go ErrHolderBusy).               *)
OneTerminal ==
  \A p, q \in Proc :
    /\ pc[p] \in {"attached", "replace", "list", "relist", "kill"}
    /\ pc[q] \in {"attached", "replace", "list", "relist", "kill"}
    /\ conn[p] # None /\ conn[p] = conn[q]
    => p = q

(* A running holder with sessions can be found at the socket.  "Replacing  *)
(* it would orphan the running holder and its sessions" (client.go         *)
(* ConnectOrSpawn).                                                        *)
NoSessionsOrphaned ==
  \A h \in HolderProc : holder[h] = "listening" /\ held[h] # {} => path = h

(* As long as it is the same holder, what hrdx stop kills is what it       *)
(* listed: nothing comes in between the second listing and the shutdown,   *)
(* which share one connection (stop.go sameHeldSessions).                  *)
KillsAsListed ==
  \A s \in Stopper : killed[s].of = found[s].of /\ killed[s] # Nothing
                       => killed[s].ids = found[s].ids

(* What a process does to a holder it does alone, and to the sessions it   *)
(* saw: one terminal or stop at a time, also on a holder that is stopping, *)
(* and a stop kills what it listed.                                        *)
Exclusive == OneTerminal /\ KillsAsListed

(* Expected to fail: what hrdx stop kills is what the user reviewed.       *)
(* sameHeldSessions "refuses to kill sessions added, removed, or changed   *)
(* after the user reviewed the list" (stop.go:94), but ids start again at  *)
(* 1 when the holder was replaced: the sessions of a new holder look the   *)
(* same.                                                                   *)
KillsOnlyReviewed == \A s \in Stopper : killed[s] # Nothing => killed[s] = found[s]

(* Expected to fail: only a shutdown or a kill over the served connection  *)
(* ends a session, or the crash of its holder: when the terminal quits,    *)
(* "running commands keep running" (README.md:499).  A terminal that       *)
(* waited while a stop was answered is served by the stopping holder; what *)
(* it starts ends with that process.                                       *)
EndsOnlyWhenAsked ==
  [][\A h \in HolderProc : held'[h] # held[h] /\ held[h] \ held'[h] # {} =>
       \/ crashes' # crashes
       \/ slot[h] # None /\ conn[slot[h]] = h]_vars

(* Every launch ends up attached, without a holder, or told it is busy;    *)
(* and every stop ends or waits for its user.                              *)
LaunchEnds ==
  /\ \A p \in Tui : p \in UnderWay ~> p \notin UnderWay
  /\ \A p \in Stopper : (p \in UnderWay /\ pc[p] # "ask") ~> (p \notin UnderWay \/ pc[p] = "ask")
=============================================================================
