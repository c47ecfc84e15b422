------------------------------- MODULE Holder -------------------------------
(***************************************************************************)
(* The session holder: the process that owns every PTY of hrdx, so that    *)
(* the programs in the panes outlive the terminal interface.  The module   *)
(* models internal/holder/server.go (the serve loop and one pump goroutine *)
(* per session), the two directions of the unix socket, and the receiving  *)
(* side of internal/holder/client.go.                                      *)
(*                                                                         *)
(* Output is modelled by the chunk: what one read of a PTY returns.  Chunk *)
(* n of a session is the number n, so that order, loss and duplication are *)
(* visible; what is in a chunk is not.  A socket write either takes place  *)
(* at once or fails because the peer has closed.                           *)
(***************************************************************************)
EXTENDS Integers, Sequences

CONSTANTS
  Conn,          \* connections clients may ever open to this holder
  NoConn,        \* the nil connection
  MaxSession,    \* bound: sessions the holder starts
  RingCapacity,  \* chunks a detached session keeps (ringCapacity)
  MaxOutput,     \* bound: chunks each session's program writes
  MaxRequests,   \* bound: requests sent on one connection
  ClientOps      \* which requests, besides attach, the clients make

ASSUME HolderAssumption ==
  /\ NoConn \notin Conn
  /\ MaxSession \in Nat
  /\ RingCapacity \in Nat \ {0}
  /\ MaxOutput \in Nat
  /\ MaxRequests \in Nat
  /\ ClientOps \subseteq {"start", "kill", "query", "shutdown"}

Session == 1..MaxSession

VARIABLES
  up,        \* the holder process is running
  \* -- the sessions ------------------------------------------------------
  nextID,    \* Server.nextID
  sessions,  \* Server.sessions: the ids the holder can still look up
  process,   \* whether a session's process is alive
  ptOpen,    \* whether a session's PTY is open
  running,   \* session.running
  pump,      \* where a session's pump goroutine is
  handled,   \* chunks the pump has forwarded or buffered so far
  ring,      \* session.buffer
  \* -- the serve loop ----------------------------------------------------
  backlog,   \* dialled connections waiting for Accept
  serving,   \* the connection serveClient is running for
  client,    \* Server.client
  attached,  \* Server.attached
  pc,        \* where the serve loop is in the handling of one request
  resp,      \* the response being prepared
  \* -- the sockets -------------------------------------------------------
  cOpen,     \* connections whose client end is open
  sOpen,     \* connections whose holder end is open
  c2s,       \* requests on their way to the holder
  s2c,       \* frames on their way to the client
  \* -- the clients -------------------------------------------------------
  dialled,   \* connections opened so far
  sent,      \* requests sent on each connection
  asked,     \* sessions for which Attach was called
  waiting,   \* sessions whose Attach call has not returned
  sink,      \* Client.outputs: sessions with an output sink
  live,      \* sessions whose Attach returned running = true
  gone,      \* sessions reported to the exit handler
  screen     \* what the sink of each session was given, in order

holderVars == <<nextID, sessions, process, ptOpen, running, pump, handled, ring>>
serveVars  == <<backlog, serving, client, attached, pc, resp>>
sockVars   == <<cOpen, sOpen, c2s, s2c>>
clientVars == <<dialled, sent, asked, waiting, sink, live, gone, screen>>
vars == <<up, holderVars, serveVars, sockVars, clientVars>>

Request == [op : {"attach", "kill"}, id : Session]
           \cup [op : {"start", "query", "shutdown"}, id : {0}]

(* A frame to the client: output of a session, the exit event, or the      *)
(* response to a request.  Fields a kind does not use are blank.           *)
Out(s, chunks)   == [kind |-> "out", id |-> s, data |-> chunks, running |-> FALSE]
Exited(s)        == [kind |-> "exited", id |-> s, data |-> <<>>, running |-> FALSE]
Attached(s, run) == [kind |-> "attached", id |-> s, data |-> <<>>, running |-> run]
NoSession(s)     == [kind |-> "nosession", id |-> s, data |-> <<>>, running |-> FALSE]
Answer           == [kind |-> "answer", id |-> 0, data |-> <<>>, running |-> FALSE]

Frame == [kind : {"out"}, id : Session, data : Seq(Nat), running : BOOLEAN]
         \cup [kind : {"exited", "attached", "nosession"}, id : Session,
               data : {<<>>}, running : BOOLEAN]
         \cup {Answer}

Response == [kind : {"attached", "nosession"}, id : Session,
             data : {<<>>}, running : BOOLEAN] \cup {Answer}

-----------------------------------------------------------------------------
Init ==
  /\ up = TRUE
  /\ nextID = 1
  /\ sessions = {}
  /\ process = [s \in Session |-> FALSE]
  /\ ptOpen = [s \in Session |-> FALSE]
  /\ running = [s \in Session |-> FALSE]
  /\ pump = [s \in Session |-> "none"]
  /\ handled = [s \in Session |-> 0]
  /\ ring = [s \in Session |-> <<>>]
  /\ backlog = <<>> /\ serving = NoConn
  /\ client = NoConn /\ attached = {}
  /\ pc = "accept" /\ resp = Answer
  /\ cOpen = {} /\ sOpen = {}
  /\ c2s = [c \in Conn |-> <<>>]
  /\ s2c = [c \in Conn |-> <<>>]
  /\ dialled = {}
  /\ sent = [c \in Conn |-> 0]
  /\ asked = [c \in Conn |-> {}]
  /\ waiting = [c \in Conn |-> {}]
  /\ sink = [c \in Conn |-> {}]
  /\ live = [c \in Conn |-> {}]
  /\ gone = [c \in Conn |-> {}]
  /\ screen = [c \in Conn |-> [s \in Session |-> <<>>]]

-----------------------------------------------------------------------------
(* Writing to the current client.  Whoever calls it holds clientMu.        *)

(* writeToClientLocked succeeds: there is a client and its end is open.    *)
CanWrite == client \in cOpen \cap sOpen

WriteToClient(f) ==
  /\ s2c' = [s2c EXCEPT ![client] = Append(@, f)]
  /\ UNCHANGED <<client, attached, sOpen>>

(* The write finds no client, or fails and drops the client with all its   *)
(* subscriptions.                                                          *)
WriteFails ==
  /\ IF client = NoConn
     THEN UNCHANGED <<client, attached, sOpen>>
     ELSE client' = NoConn /\ attached' = {} /\ sOpen' = sOpen \ {client}
  /\ UNCHANGED s2c

-----------------------------------------------------------------------------
(* Mutant of RingWrite: a full buffer drops the newest chunk.              *)
RingWriteDrops(r, chunk) == IF Len(r) < RingCapacity THEN Append(r, chunk) ELSE r

(* ring.Write: append, evicting the oldest on overflow.                    *)
RingWrite(r, chunk) ==
  IF Len(r) < RingCapacity THEN Append(r, chunk) ELSE Append(Tail(r), chunk)

(* The program of session s ends on its own.                               *)
ProcessExits(s) ==
  /\ up /\ process[s]
  /\ process' = [process EXCEPT ![s] = FALSE]
  /\ UNCHANGED <<up, nextID, sessions, ptOpen, running, pump, handled, ring,
                 serveVars, sockVars, clientVars>>

(* Mutant of WaitClosesPt: it reports the exit itself, ahead of the pump.   *)
WaitReportsExit(s) ==
  /\ up /\ pump[s] # "none" /\ ~process[s] /\ ptOpen[s]
  /\ ptOpen' = [ptOpen EXCEPT ![s] = FALSE]
  /\ CanWrite /\ WriteToClient(Exited(s))
  /\ UNCHANGED <<up, nextID, sessions, process, running, pump, handled, ring, backlog,
                 serving, pc, resp, cOpen, c2s, clientVars>>

(* The goroutine in pump that waits for the process, then closes the PTY.  *)
WaitClosesPt(s) ==
  /\ up /\ pump[s] # "none" /\ ~process[s] /\ ptOpen[s]
  /\ ptOpen' = [ptOpen EXCEPT ![s] = FALSE]
  /\ UNCHANGED <<up, nextID, sessions, process, running, pump, handled, ring,
                 serveVars, sockVars, clientVars>>

(* pt.Read returns the next chunk; the pump now holds it without a lock.   *)
PumpRead(s) ==
  /\ up /\ pump[s] = "reading" /\ ptOpen[s]
  /\ handled[s] < MaxOutput
  /\ pump' = [pump EXCEPT ![s] = "holding"]
  /\ UNCHANGED <<up, nextID, sessions, process, ptOpen, running, handled, ring,
                 serveVars, sockVars, clientVars>>

(* Mutant of PumpForward: it sends whenever there is a client.             *)
PumpForwardAlways(s) ==
  /\ up /\ pump[s] = "holding"
  /\ pump' = [pump EXCEPT ![s] = "reading"]
  /\ handled' = [handled EXCEPT ![s] = @ + 1]
  /\ \/ /\ CanWrite
        /\ WriteToClient(Out(s, <<handled[s] + 1>>))
        /\ UNCHANGED ring
     \/ /\ ~CanWrite
        /\ WriteFails
        /\ ring' = [ring EXCEPT ![s] = RingWrite(@, handled[s] + 1)]
  /\ UNCHANGED <<up, nextID, sessions, process, ptOpen, running, backlog, serving,
                 pc, resp, cOpen, c2s, clientVars>>

(* Under session.mu the pump sends the chunk to a subscribed client, or    *)
(* else buffers it.                                                        *)
PumpForward(s) ==
  /\ up /\ pump[s] = "holding"
  /\ pump' = [pump EXCEPT ![s] = "reading"]
  /\ handled' = [handled EXCEPT ![s] = @ + 1]
  /\ \/ /\ s \in attached /\ CanWrite
        /\ WriteToClient(Out(s, <<handled[s] + 1>>))
        /\ UNCHANGED ring
     \/ /\ s \in attached /\ ~CanWrite
        /\ WriteFails
        /\ ring' = [ring EXCEPT ![s] = RingWrite(@, handled[s] + 1)]
     \/ /\ s \notin attached
        /\ ring' = [ring EXCEPT ![s] = RingWrite(@, handled[s] + 1)]
        /\ UNCHANGED <<client, attached, sOpen, s2c>>
  /\ UNCHANGED <<up, nextID, sessions, process, ptOpen, running, backlog, serving,
                 pc, resp, cOpen, c2s, clientVars>>

(* pt.Read fails: the program is gone and drained, or the PTY was closed.  *)
PumpEOF(s) ==
  /\ up /\ pump[s] = "reading" /\ (~process[s] \/ ~ptOpen[s])
  /\ pump' = [pump EXCEPT ![s] = "ended"]
  /\ UNCHANGED <<up, nextID, sessions, process, ptOpen, running, handled, ring,
                 serveVars, sockVars, clientVars>>

(* Mutant of PumpStops: running stays set.                                 *)
PumpStopsRunning(s) ==
  /\ up /\ pump[s] = "ended" /\ ~process[s]
  /\ pump' = [pump EXCEPT ![s] = "stopped"]
  /\ UNCHANGED <<up, nextID, sessions, process, ptOpen, running, handled, ring,
                 serveVars, sockVars, clientVars>>

(* The process has been waited for: running.Store(false).                  *)
PumpStops(s) ==
  /\ up /\ pump[s] = "ended" /\ ~process[s]
  /\ pump' = [pump EXCEPT ![s] = "stopped"]
  /\ running' = [running EXCEPT ![s] = FALSE]
  /\ UNCHANGED <<up, nextID, sessions, process, ptOpen, handled, ring,
                 serveVars, sockVars, clientVars>>

(* The exit event goes to whichever client there is, or is lost.           *)
PumpReports(s) ==
  /\ up /\ pump[s] = "stopped"
  /\ pump' = [pump EXCEPT ![s] = "done"]
  /\ \/ CanWrite /\ WriteToClient(Exited(s))
     \/ ~CanWrite /\ WriteFails
  /\ UNCHANGED <<up, nextID, sessions, process, ptOpen, running, handled, ring,
                 backlog, serving, pc, resp, cOpen, c2s, clientVars>>

-----------------------------------------------------------------------------
(* The serve loop: Run accepts one connection at a time and serveClient    *)
(* handles its requests in order.                                          *)

Accept ==
  /\ up /\ pc = "accept" /\ backlog # <<>>
  /\ serving' = Head(backlog)
  /\ client' = Head(backlog)
  /\ sOpen' = sOpen \ {client}
  /\ attached' = {}
  /\ backlog' = Tail(backlog)
  /\ pc' = "read"
  /\ UNCHANGED <<up, holderVars, resp, cOpen, c2s, s2c, clientVars>>

(* readFrame fails: the client closed its end and everything it sent has   *)
(* been read, or a failed write already closed ours.                       *)
ServeEnds ==
  /\ up /\ pc = "read"
  /\ \/ serving \notin sOpen
     \/ serving \notin cOpen /\ c2s[serving] = <<>>
  /\ IF client = serving
     THEN client' = NoConn /\ attached' = {}
     ELSE UNCHANGED <<client, attached>>
  /\ sOpen' = sOpen \ {serving}
  /\ serving' = NoConn
  /\ pc' = "accept"
  /\ UNCHANGED <<up, holderVars, backlog, resp, cOpen, c2s, s2c, clientVars>>

(* The request readFrame returns next, when it is of the given kind.       *)
Reads(op) ==
  /\ up /\ pc = "read"
  /\ serving \in sOpen
  /\ c2s[serving] # <<>> /\ Head(c2s[serving]).op = op
  /\ c2s' = [c2s EXCEPT ![serving] = Tail(@)]

Prepares(r) == pc' = "reply" /\ resp' = r

(* start: a process on a fresh PTY, with the next id.                      *)
HandleStart ==
  /\ Reads("start")
  /\ nextID \in Session
  /\ nextID' = nextID + 1
  /\ sessions' = sessions \cup {nextID}
  /\ process' = [process EXCEPT ![nextID] = TRUE]
  /\ ptOpen' = [ptOpen EXCEPT ![nextID] = TRUE]
  /\ running' = [running EXCEPT ![nextID] = TRUE]
  /\ pump' = [pump EXCEPT ![nextID] = "reading"]
  /\ Prepares(Answer)
  /\ UNCHANGED <<up, handled, ring, backlog, serving, client, attached,
                 cOpen, sOpen, s2c, clientVars>>

(* start fails before a session exists: no PTY, or no such command.        *)
HandleStartFails ==
  /\ Reads("start")
  /\ Prepares(Answer)
  /\ UNCHANGED <<up, holderVars, backlog, serving, client, attached,
                 cOpen, sOpen, s2c, clientVars>>

(* attach of a session the holder does not have.                           *)
AttachUnknown(s) ==
  /\ s \notin sessions
  /\ Prepares(NoSession(s))
  /\ UNCHANGED <<ring, client, attached, sOpen, s2c>>

(* Mutant of AttachReplays: it does not start an empty buffer.             *)
AttachKeepsBuffer(s) ==
  /\ s \in sessions
  /\ pc' = "attached" /\ resp' = Attached(s, FALSE)
  /\ attached' = attached \cup {s}
  /\ s2c' = IF CanWrite THEN [s2c EXCEPT ![client] = Append(@, Out(s, ring[s]))] ELSE s2c
  /\ UNCHANGED <<ring, client, sOpen>>

(* attach: under session.mu and clientMu, subscribe, replay what was       *)
(* buffered, and start an empty buffer once the replay has been written.   *)
(* A replay that cannot be written drops the client and keeps the buffer.  *)
AttachReplays(s) ==
  /\ s \in sessions
  /\ pc' = "attached" /\ resp' = Attached(s, FALSE)
  /\ \/ /\ ring[s] = <<>>
        /\ attached' = attached \cup {s}
        /\ UNCHANGED <<ring, client, sOpen, s2c>>
     \/ /\ ring[s] # <<>> /\ CanWrite
        /\ attached' = attached \cup {s}
        /\ s2c' = [s2c EXCEPT ![client] = Append(@, Out(s, ring[s]))]
        /\ ring' = [ring EXCEPT ![s] = <<>>]
        /\ UNCHANGED <<client, sOpen>>
     \/ /\ ring[s] # <<>> /\ ~CanWrite
        /\ attached' = IF client = NoConn THEN attached \cup {s} ELSE {}
        /\ client' = NoConn
        /\ sOpen' = sOpen \ {client}
        /\ UNCHANGED <<ring, s2c>>

HandleAttach ==
  /\ Reads("attach")
  /\ LET s == Head(c2s[serving]).id IN AttachUnknown(s) \/ AttachReplays(s)
  /\ UNCHANGED <<up, nextID, sessions, process, ptOpen, running, pump, handled,
                 backlog, serving, cOpen, clientVars>>

(* attach, last line: running is read after the locks are released.        *)
AttachReadsRunning ==
  /\ up /\ pc = "attached"
  /\ Prepares(Attached(resp.id, running[resp.id]))
  /\ UNCHANGED <<up, holderVars, backlog, serving, client, attached,
                 sockVars, clientVars>>

(* kill: end the process, close the PTY, forget the session.               *)
HandleKill ==
  /\ Reads("kill")
  /\ LET s == Head(c2s[serving]).id IN
     IF s \in sessions
     THEN /\ process' = [process EXCEPT ![s] = @ /\ ~running[s]]
          /\ ptOpen' = [ptOpen EXCEPT ![s] = FALSE]
          /\ sessions' = sessions \ {s}
     ELSE UNCHANGED <<process, ptOpen, sessions>>
  /\ Prepares(Answer)
  /\ UNCHANGED <<up, nextID, running, pump, handled, ring, backlog, serving,
                 client, attached, cOpen, sOpen, s2c, clientVars>>

(* hello, list, fg, resize: answered without a change of state.            *)
HandleQuery ==
  /\ Reads("query")
  /\ Prepares(Answer)
  /\ UNCHANGED <<up, holderVars, backlog, serving, client, attached,
                 cOpen, sOpen, s2c, clientVars>>

(* reply: an error is ignored, and leaves the client in place.             *)
ServeReplies ==
  /\ up /\ pc = "reply"
  /\ IF serving \in cOpen \cap sOpen
     THEN s2c' = [s2c EXCEPT ![serving] = Append(@, resp)]
     ELSE UNCHANGED s2c
  /\ pc' = "read"
  /\ UNCHANGED <<up, holderVars, backlog, serving, client, attached, resp,
                 cOpen, sOpen, c2s, clientVars>>

(* shutdown is answered first; then every session is killed and the        *)
(* process ends, taking the pumps and the connections with it.             *)
HandleShutdown ==
  /\ Reads("shutdown")
  /\ IF serving \in cOpen
     THEN s2c' = [s2c EXCEPT ![serving] = Append(@, Answer)]
     ELSE UNCHANGED s2c
  /\ pc' = "shutdown"
  /\ UNCHANGED <<up, holderVars, backlog, serving, client, attached, resp,
                 cOpen, sOpen, clientVars>>

Shutdown ==
  /\ up /\ pc = "shutdown"
  /\ up' = FALSE
  /\ process' = [s \in Session |-> FALSE]
  /\ ptOpen' = [s \in Session |-> FALSE]
  /\ sessions' = {}
  /\ serving' = NoConn /\ client' = NoConn /\ attached' = {}
  /\ backlog' = <<>> /\ sOpen' = {} /\ pc' = "accept"
  /\ UNCHANGED <<nextID, running, pump, handled, ring, resp, cOpen, c2s, s2c,
                 clientVars>>

-----------------------------------------------------------------------------
(* The clients: a TUI or a command, one connection each.                   *)

Dial(c) ==
  /\ up /\ c \notin dialled
  /\ dialled' = dialled \cup {c}
  /\ cOpen' = cOpen \cup {c}
  /\ sOpen' = sOpen \cup {c}
  /\ backlog' = Append(backlog, c)
  /\ UNCHANGED <<up, holderVars, serving, client, attached, pc, resp, c2s, s2c,
                 sent, asked, waiting, sink, live, gone, screen>>

(* call writes a request; on a broken connection the write just fails.     *)
Sends(c, req) ==
  /\ c \in cOpen \cap sOpen
  /\ sent[c] < MaxRequests
  /\ sent' = [sent EXCEPT ![c] = @ + 1]
  /\ c2s' = [c2s EXCEPT ![c] = Append(@, req)]

SendRequest(c) ==
  /\ \/ \E op \in ClientOps \ {"kill"} : Sends(c, [op |-> op, id |-> 0])
     \/ "kill" \in ClientOps /\ \E s \in Session : Sends(c, [op |-> "kill", id |-> s])
  /\ UNCHANGED <<up, holderVars, serveVars, cOpen, sOpen, s2c, dialled, asked,
                 waiting, sink, live, gone, screen>>

(* Attach registers the sink before it sends the request.  A pane attaches *)
(* once in the life of its TUI.                                            *)
SendAttach(c, s) ==
  /\ s \notin asked[c]
  /\ Sends(c, [op |-> "attach", id |-> s])
  /\ asked' = [asked EXCEPT ![c] = @ \cup {s}]
  /\ waiting' = [waiting EXCEPT ![c] = @ \cup {s}]
  /\ sink' = [sink EXCEPT ![c] = @ \cup {s}]
  /\ UNCHANGED <<up, holderVars, serveVars, cOpen, sOpen, s2c, dialled, live,
                 gone, screen>>

(* readLoop takes the next frame: output goes to the sink of its session,  *)
(* if it has one ...                                                       *)
TakesOutput(c, f) ==
  /\ f.kind = "out"
  /\ screen' = IF f.id \in sink[c]
               THEN [screen EXCEPT ![c][f.id] = @ \o f.data]
               ELSE screen
  /\ UNCHANGED <<waiting, sink, live, gone>>

(* ... an exit event to the exit handler ...                               *)
TakesExit(c, f) ==
  /\ f.kind = "exited"
  /\ gone' = [gone EXCEPT ![c] = @ \cup {f.id}]
  /\ UNCHANGED <<waiting, sink, live, screen>>

(* ... and a response to the call that waits for it, if one still does.    *)
TakesAttached(c, f) ==
  /\ f.kind = "attached"
  /\ live' = IF f.id \in waiting[c] /\ f.running
             THEN [live EXCEPT ![c] = @ \cup {f.id}]
             ELSE live
  /\ waiting' = [waiting EXCEPT ![c] = @ \ {f.id}]
  /\ UNCHANGED <<sink, gone, screen>>

TakesNoSession(c, f) ==
  /\ f.kind = "nosession"
  /\ waiting' = [waiting EXCEPT ![c] = @ \ {f.id}]
  /\ sink' = [sink EXCEPT ![c] = @ \ {f.id}]
  /\ UNCHANGED <<live, gone, screen>>

TakesAnswer(f) ==
  /\ f = Answer
  /\ UNCHANGED <<waiting, sink, live, gone, screen>>

ClientReads(c) ==
  /\ c \in cOpen /\ s2c[c] # <<>>
  /\ s2c' = [s2c EXCEPT ![c] = Tail(@)]
  /\ LET f == Head(s2c[c]) IN
       \/ TakesOutput(c, f) \/ TakesExit(c, f) \/ TakesAttached(c, f)
       \/ TakesNoSession(c, f) \/ TakesAnswer(f)
  /\ UNCHANGED <<up, holderVars, serveVars, cOpen, sOpen, c2s, dialled, sent, asked>>

(* The answer to Attach does not come within ten seconds: the call fails   *)
(* and takes its sink away, whatever the holder still does.                *)
AttachTimesOut(c, s) ==
  /\ c \in cOpen /\ s \in waiting[c]
  /\ waiting' = [waiting EXCEPT ![c] = @ \ {s}]
  /\ sink' = [sink EXCEPT ![c] = @ \ {s}]
  /\ UNCHANGED <<up, holderVars, serveVars, sockVars, dialled, sent, asked, live,
                 gone, screen>>

(* The TUI quits or dies; frames it had not read are lost.                 *)
ClientCloses(c) ==
  /\ c \in cOpen
  /\ cOpen' = cOpen \ {c}
  /\ s2c' = [s2c EXCEPT ![c] = <<>>]
  /\ UNCHANGED <<up, holderVars, serveVars, sOpen, c2s, clientVars>>

-----------------------------------------------------------------------------
PumpStep(s) == \/ PumpRead(s) \/ PumpForward(s) \/ PumpEOF(s)
               \/ PumpStops(s) \/ PumpReports(s)

ServeStep == \/ Accept \/ ServeEnds \/ HandleStart \/ HandleStartFails
             \/ HandleAttach \/ AttachReadsRunning \/ HandleKill \/ HandleQuery
             \/ ServeReplies \/ HandleShutdown \/ Shutdown

ClientStep(c) == \/ Dial(c) \/ SendRequest(c) \/ ClientReads(c) \/ ClientCloses(c)
                 \/ \E s \in Session : SendAttach(c, s) \/ AttachTimesOut(c, s)

Next == \/ \E s \in Session : ProcessExits(s) \/ WaitClosesPt(s) \/ PumpStep(s)
        \/ ServeStep
        \/ \E c \in Conn : ClientStep(c)

Spec == Init /\ [][Next]_vars

(* Goroutines that can run do run: the pumps, the serve loop and every     *)
(* client's read loop.  Nothing obliges a user to quit, a program to end   *)
(* or a request to be sent.                                                *)
FairSpec == /\ Spec
            /\ \A s \in Session : WF_vars(PumpStep(s))
            /\ WF_vars(ServeStep)
            /\ \A c \in Conn : WF_vars(ClientReads(c))

-----------------------------------------------------------------------------
TypeOK ==
  /\ up \in BOOLEAN
  /\ nextID \in 1..(MaxSession + 1)
  /\ sessions \subseteq Session
  /\ process \in [Session -> BOOLEAN]
  /\ ptOpen \in [Session -> BOOLEAN]
  /\ running \in [Session -> BOOLEAN]
  /\ pump \in [Session -> {"none", "reading", "holding", "ended", "stopped", "done"}]
  /\ handled \in [Session -> Nat]
  /\ ring \in [Session -> Seq(Nat)]
  /\ backlog \in Seq(Conn)
  /\ serving \in Conn \cup {NoConn}
  /\ client \in Conn \cup {NoConn}
  /\ attached \subseteq Session
  /\ pc \in {"accept", "read", "attached", "reply", "shutdown"}
  /\ resp \in Response /\ (pc = "attached" => resp # Answer)
  /\ cOpen \subseteq Conn /\ sOpen \subseteq Conn
  /\ c2s \in [Conn -> Seq(Request)]
  /\ s2c \in [Conn -> Seq(Frame)]
  /\ dialled \subseteq Conn
  /\ sent \in [Conn -> Nat]
  /\ asked \in [Conn -> SUBSET Session]
  /\ waiting \in [Conn -> SUBSET Session]
  /\ sink \in [Conn -> SUBSET Session]
  /\ live \in [Conn -> SUBSET Session]
  /\ gone \in [Conn -> SUBSET Session]
  /\ screen \in [Conn -> [Session -> Seq(Nat)]]
-----------------------------------------------------------------------------
(* Frame f is output of session s.                                         *)
IsOut(f, s) == f.kind = "out" /\ f.id = s

(* r holds the numbers up to n, without a gap.                             *)
Newest(r, n) == \A i \in 1..Len(r) : r[i] = n - Len(r) + i

(* The buffer of a session is the newest part of what its pump handled:    *)
(* consecutive chunks, up to the last one, never more than the capacity    *)
(* (server.go pump, ring.go Write).                                        *)
RingIsNewest ==
  \A s \in Session :
    /\ Len(ring[s]) <= RingCapacity
    /\ Len(ring[s]) <= handled[s]
    /\ Newest(ring[s], handled[s])

(* Chunks q on the screen, then those of the frames w on the wire, are in  *)
(* the order the program wrote them, none twice and none above bound.      *)
Increasing(q) == \A i, j \in DOMAIN q : i < j => q[i] < q[j]

AllBelow(q, r) == \A i \in DOMAIN q, j \in DOMAIN r : q[i] < r[j]

AtMost(q, bound) == \A i \in DOMAIN q : q[i] <= bound

StreamOrdered(q, w, s, bound) ==
  /\ Increasing(q) /\ AtMost(q, bound)
  /\ \A i \in DOMAIN w : IsOut(w[i], s) =>
       /\ Increasing(w[i].data) /\ AtMost(w[i].data, bound)
       /\ AllBelow(q, w[i].data)
       /\ \A j \in DOMAIN w : i < j /\ IsOut(w[j], s) => AllBelow(w[i].data, w[j].data)

(* Live output never overtakes a replay and nothing is written twice: on   *)
(* every connection the chunks of a session appear in the order the        *)
(* program wrote them, first on the screen, then on the wire, and what is  *)
(* buffered is newer than all of them (the locks of handle's attach and    *)
(* of pump).                                                               *)
InOrder ==
  \A c \in Conn, s \in Session :
    StreamOrdered(screen[c][s], s2c[c], s, handled[s] - Len(ring[s]))

(* Output only travels to a client that asked for the session.             *)
OnlySubscribed ==
  \A c \in Conn : \A i \in DOMAIN s2c[c] :
    s2c[c][i].kind = "out" => s2c[c][i].id \in asked[c]

(* c was told that s is running, or is about to be.                        *)
ToldRunning(c, s) ==
  \/ s \in live[c]
  \/ \E i \in DOMAIN s2c[c] : s2c[c][i] = Attached(s, TRUE)
  \/ pc = "reply" /\ serving = c /\ resp = Attached(s, TRUE)

(* The exit event of a session its client was told is running comes after  *)
(* the last of its output.                                                 *)
ExitAfterOutput ==
  \A c \in Conn, s \in Session :
    ToldRunning(c, s) =>
      \A i, j \in DOMAIN s2c[c] :
        s2c[c][i] = Exited(s) /\ IsOut(s2c[c][j], s) => j < i

(* A pane that attached to a running session learns of the program's end.  *)
ExitEventuallyKnown ==
  \A c \in Conn, s \in Session :
    (s \in live[c] /\ ~process[s]) ~> (s \in gone[c] \/ c \notin cOpen \/ ~up)
=============================================================================
