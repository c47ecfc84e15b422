---------------------------- MODULE HolderProofs ----------------------------
(***************************************************************************)
(* Theorems about Holder, for any number of connections, sessions,         *)
(* requests and chunks, and any buffer capacity.                           *)
(***************************************************************************)
EXTENDS HolderRefinement, SequenceTheorems, WellFoundedInduction, TLAPS

USE HolderAssumption

(* Every step leaves each variable in its set.                             *)
LEMMA FramesTyped ==
  ASSUME NEW s \in Session, NEW q \in Seq(Nat), NEW b \in BOOLEAN
  PROVE  /\ Out(s, q) \in Frame /\ Exited(s) \in Frame
         /\ Attached(s, b) \in Response /\ NoSession(s) \in Response
  BY DEF Out, Exited, Attached, NoSession, Response, Frame

(* A response is a frame, and no output.                                   *)
LEMMA ResponsesAreFrames ==
  ASSUME NEW f \in Response
  PROVE  f \in Frame /\ f.kind # "out"
<1>1. CASE f = Answer
  BY <1>1 DEF Frame, Answer
<1>2. CASE f # Answer
  <2>1. /\ f = [kind |-> f.kind, id |-> f.id, data |-> f.data, running |-> f.running]
        /\ f.kind \in {"attached", "nosession"} /\ f.id \in Session
        /\ f.data = <<>> /\ f.running \in BOOLEAN
    BY <1>2 DEF Response
  <2>2. f.data \in Seq(Nat)
    BY <2>1
  <2> QED BY <2>1, <2>2 DEF Frame
<1> QED BY <1>1, <1>2

LEMMA InitTyped == Init => TypeOK
  BY DEF Init, TypeOK, Session, Response

LEMMA PumpTyped ==
  ASSUME TypeOK, NEW s \in Session,
         \/ ProcessExits(s) \/ WaitClosesPt(s) \/ PumpRead(s)
         \/ PumpEOF(s) \/ PumpStops(s)
  PROVE  TypeOK'
<1> USE DEF TypeOK, serveVars, sockVars, clientVars
<1>1. CASE ProcessExits(s)  BY <1>1 DEF ProcessExits
<1>2. CASE WaitClosesPt(s)  BY <1>2 DEF WaitClosesPt
<1>3. CASE PumpRead(s)  BY <1>3 DEF PumpRead
<1>4. CASE PumpEOF(s)  BY <1>4 DEF PumpEOF
<1>5. CASE PumpStops(s)  BY <1>5 DEF PumpStops
<1> QED BY <1>1, <1>2, <1>3, <1>4, <1>5

LEMMA RingWriteTyped ==
  ASSUME NEW r \in Seq(Nat), NEW n \in Nat
  PROVE  RingWrite(r, n) \in Seq(Nat)
  BY DEF RingWrite

(* What the two outcomes of a write leave behind.                          *)
WriteTyped ==
  /\ client' \in Conn \cup {NoConn} /\ attached' \subseteq Session
  /\ sOpen' \subseteq Conn /\ s2c' \in [Conn -> Seq(Frame)]

LEMMA AppendTyped ==
  ASSUME s2c \in [Conn -> Seq(Frame)], NEW c \in Conn, NEW f \in Frame
  PROVE  [s2c EXCEPT ![c] = Append(@, f)] \in [Conn -> Seq(Frame)]
<1>1. s2c[c] \in Seq(Frame) /\ Append(s2c[c], f) \in Seq(Frame)
  OBVIOUS
<1> QED BY <1>1

LEMMA WriteToClientTyped ==
  ASSUME TypeOK, CanWrite, NEW f \in Frame, WriteToClient(f)
  PROVE  WriteTyped
<1>1. client \in Conn /\ s2c \in [Conn -> Seq(Frame)]
  BY DEF CanWrite, TypeOK
<1>2. s2c' \in [Conn -> Seq(Frame)]
  BY <1>1, AppendTyped DEF WriteToClient
<1> QED BY <1>2 DEF WriteTyped, WriteToClient, TypeOK

LEMMA WriteFailsTyped ==
  ASSUME TypeOK, WriteFails
  PROVE  WriteTyped
  BY DEF TypeOK, WriteFails, WriteTyped

LEMMA PumpForwardTyped ==
  ASSUME TypeOK, NEW s \in Session, PumpForward(s)
  PROVE  TypeOK'
<1>1. handled[s] + 1 \in Nat /\ ring[s] \in Seq(Nat)
  BY DEF TypeOK
<1>2. RingWrite(ring[s], handled[s] + 1) \in Seq(Nat)
  BY <1>1, RingWriteTyped
<1>3. Out(s, <<handled[s] + 1>>) \in Frame
  <2>1. <<handled[s] + 1>> \in Seq(Nat)
    BY <1>1
  <2> QED BY <2>1, FramesTyped
<1>4. WriteTyped /\ ring' \in [Session -> Seq(Nat)]
  <2>1. CASE CanWrite /\ WriteToClient(Out(s, <<handled[s] + 1>>)) /\ UNCHANGED ring
    BY <1>3, <2>1, WriteToClientTyped DEF TypeOK
  <2>2. CASE /\ WriteFails
             /\ ring' = [ring EXCEPT ![s] = RingWrite(@, handled[s] + 1)]
    BY <1>2, <2>2, WriteFailsTyped DEF TypeOK
  <2>3. CASE /\ ring' = [ring EXCEPT ![s] = RingWrite(@, handled[s] + 1)]
             /\ UNCHANGED <<client, attached, sOpen, s2c>>
    BY <1>2, <2>3 DEF TypeOK, WriteTyped
  <2> QED BY <2>1, <2>2, <2>3 DEF PumpForward
<1> QED BY <1>1, <1>4 DEF PumpForward, TypeOK, WriteTyped, clientVars

LEMMA PumpReportsTyped ==
  ASSUME TypeOK, NEW s \in Session, PumpReports(s)
  PROVE  TypeOK'
<1>1. Exited(s) \in Frame
  BY DEF Exited, Frame
<1>2. WriteTyped
  BY <1>1, WriteToClientTyped, WriteFailsTyped DEF PumpReports
<1> QED BY <1>2 DEF PumpReports, TypeOK, WriteTyped, clientVars

(* The request a handler takes off the wire.                               *)
LEMMA ReadsTyped ==
  ASSUME TypeOK, NEW op, Reads(op)
  PROVE  /\ serving \in Conn /\ Head(c2s[serving]) \in Request
         /\ c2s' \in [Conn -> Seq(Request)]
<1>1. serving \in Conn
  BY DEF Reads, TypeOK
<1>2. c2s[serving] \in Seq(Request) /\ c2s[serving] # <<>>
  BY <1>1 DEF Reads, TypeOK
<1>3. Head(c2s[serving]) \in Request /\ Tail(c2s[serving]) \in Seq(Request)
  BY <1>2
<1> QED BY <1>1, <1>3 DEF Reads, TypeOK

LEMMA AcceptTyped ==
  ASSUME TypeOK, Accept
  PROVE  TypeOK'
<1>1. Head(backlog) \in Conn /\ Tail(backlog) \in Seq(Conn)
  BY DEF Accept, TypeOK
<1> QED BY <1>1 DEF Accept, TypeOK, holderVars, clientVars

LEMMA ServeEndsTyped ==
  ASSUME TypeOK, ServeEnds
  PROVE  TypeOK'
  BY DEF ServeEnds, TypeOK, holderVars, clientVars

LEMMA HandleStartTyped ==
  ASSUME TypeOK, HandleStart
  PROVE  TypeOK'
<1>1. c2s' \in [Conn -> Seq(Request)]
  BY ReadsTyped DEF HandleStart
<1>2. nextID + 1 \in 1..(MaxSession + 1)
  BY DEF HandleStart, Session
<1>3. Answer \in Response
  BY DEF Response
<1> QED BY <1>1, <1>2, <1>3 DEF HandleStart, Prepares, TypeOK, clientVars

LEMMA HandleStartFailsTyped ==
  ASSUME TypeOK, HandleStartFails
  PROVE  TypeOK'
<1>1. c2s' \in [Conn -> Seq(Request)] /\ Answer \in Response
  BY ReadsTyped DEF HandleStartFails, Response
<1> QED BY <1>1 DEF HandleStartFails, Prepares, TypeOK, holderVars, clientVars

LEMMA HandleQueryTyped ==
  ASSUME TypeOK, HandleQuery
  PROVE  TypeOK'
<1>1. c2s' \in [Conn -> Seq(Request)] /\ Answer \in Response
  BY ReadsTyped DEF HandleQuery, Response
<1> QED BY <1>1 DEF HandleQuery, Prepares, TypeOK, holderVars, clientVars

LEMMA HandleKillTyped ==
  ASSUME TypeOK, HandleKill
  PROVE  TypeOK'
<1>1. c2s' \in [Conn -> Seq(Request)] /\ Answer \in Response
  BY ReadsTyped DEF HandleKill, Response
<1>2. /\ process' \in [Session -> BOOLEAN] /\ ptOpen' \in [Session -> BOOLEAN]
      /\ sessions' \subseteq Session
  BY DEF HandleKill, TypeOK
<1> QED BY <1>1, <1>2 DEF HandleKill, Prepares, TypeOK, clientVars

(* An attach request names a session, and is handled for it in one of two  *)
(* ways.                                                                   *)
LEMMA AttachCases ==
  ASSUME TypeOK, HandleAttach
  PROVE  /\ c2s' \in [Conn -> Seq(Request)]
         /\ UNCHANGED <<up, nextID, sessions, process, ptOpen, running, pump, handled,
                        backlog, serving, cOpen, clientVars>>
         /\ pc = "read"
         /\ \E s \in Session : AttachUnknown(s) \/ AttachReplays(s)
<1>1. c2s' \in [Conn -> Seq(Request)] /\ Head(c2s[serving]) \in Request
  BY ReadsTyped DEF HandleAttach
<1>2. Head(c2s[serving]).op = "attach" /\ pc = "read"
  BY DEF HandleAttach, Reads
<1>3. PICK s \in Session : s = Head(c2s[serving]).id
  BY <1>1, <1>2 DEF Request
<1>4. AttachUnknown(s) \/ AttachReplays(s)
  BY <1>3 DEF HandleAttach
<1> QED BY <1>1, <1>2, <1>4 DEF HandleAttach

(* A replay is written, or there is none, or it fails.                     *)
LEMMA ReplayCases ==
  ASSUME TypeOK, NEW s \in Session, AttachReplays(s)
  PROVE  \/ /\ ring[s] = <<>> /\ attached' = attached \cup {s}
            /\ UNCHANGED <<ring, client, sOpen, s2c>>
         \/ /\ client \in Conn /\ CanWrite /\ attached' = attached \cup {s}
            /\ Out(s, ring[s]) \in Frame
            /\ s2c' = [s2c EXCEPT ![client] = Append(@, Out(s, ring[s]))]
            /\ ring' = [ring EXCEPT ![s] = <<>>]
            /\ ring' \in [Session -> Seq(Nat)]
            /\ UNCHANGED <<client, sOpen>>
         \/ /\ attached' \subseteq attached \cup {s} /\ client' = NoConn
            /\ sOpen' = sOpen \ {client} /\ UNCHANGED <<ring, s2c>>
<1>1. CASE ring[s] = <<>>
  BY <1>1 DEF AttachReplays
<1>2. CASE ring[s] # <<>> /\ CanWrite
  <2>1. client \in Conn /\ Out(s, ring[s]) \in Frame
    BY <1>2 DEF CanWrite, TypeOK, Out, Frame
  <2>2. ring' = [ring EXCEPT ![s] = <<>>] /\ ring \in [Session -> Seq(Nat)]
    BY <1>2 DEF AttachReplays, TypeOK
  <2>3. ring' \in [Session -> Seq(Nat)]
    <3>1. <<>> \in Seq(Nat)
      OBVIOUS
    <3> QED BY <2>2, <3>1
  <2> QED BY <1>2, <2>1, <2>2, <2>3 DEF AttachReplays
<1>3. CASE ring[s] # <<>> /\ ~CanWrite
  BY <1>3 DEF AttachReplays
<1> QED BY <1>1, <1>2, <1>3

LEMMA HandleAttachTyped ==
  ASSUME TypeOK, HandleAttach
  PROVE  TypeOK'
<1>1. PICK s \in Session : AttachUnknown(s) \/ AttachReplays(s)
  BY AttachCases
<1>2. /\ NoSession(s) \in Response /\ Attached(s, FALSE) \in Response
      /\ NoSession(s) # Answer /\ Attached(s, FALSE) # Answer
  BY DEF NoSession, Attached, Response, Answer
<1>3. pc' \in {"attached", "reply"} /\ resp' \in Response /\ resp' # Answer
  BY <1>1, <1>2 DEF AttachUnknown, AttachReplays, Prepares
<1>4. ring' \in [Session -> Seq(Nat)] /\ WriteTyped
  <2>1. CASE AttachUnknown(s)
    BY <2>1 DEF AttachUnknown, TypeOK, WriteTyped
  <2>2. CASE AttachReplays(s)
    <3>1. CASE /\ ring[s] = <<>> /\ attached' = attached \cup {s}
               /\ UNCHANGED <<ring, client, sOpen, s2c>>
      BY <3>1 DEF TypeOK, WriteTyped
    <3>2. CASE /\ client \in Conn /\ attached' = attached \cup {s}
               /\ Out(s, ring[s]) \in Frame
               /\ s2c' = [s2c EXCEPT ![client] = Append(@, Out(s, ring[s]))]
               /\ ring' \in [Session -> Seq(Nat)]
               /\ UNCHANGED <<client, sOpen>>
      <4>1. s2c' \in [Conn -> Seq(Frame)]
        BY <3>2, AppendTyped DEF TypeOK
      <4> QED BY <3>2, <4>1 DEF TypeOK, WriteTyped
    <3>3. CASE /\ attached' \subseteq attached \cup {s} /\ client' = NoConn
               /\ sOpen' = sOpen \ {client} /\ UNCHANGED <<ring, s2c>>
      BY <3>3 DEF TypeOK, WriteTyped
    <3> QED BY <2>2, <3>1, <3>2, <3>3, ReplayCases
  <2> QED BY <1>1, <2>1, <2>2
<1> QED BY <1>3, <1>4, AttachCases DEF TypeOK, WriteTyped, clientVars

LEMMA AttachReadsRunningTyped ==
  ASSUME TypeOK, AttachReadsRunning
  PROVE  TypeOK'
<1>1. resp.id \in Session /\ running[resp.id] \in BOOLEAN
  BY DEF AttachReadsRunning, TypeOK, Response
<1>2. Attached(resp.id, running[resp.id]) \in Response
  BY <1>1 DEF Attached, Response
<1> QED BY <1>2 DEF AttachReadsRunning, Prepares, TypeOK, holderVars, sockVars, clientVars

LEMMA ServeRepliesTyped ==
  ASSUME TypeOK, ServeReplies
  PROVE  TypeOK'
<1>1. s2c' \in [Conn -> Seq(Frame)]
  <2>1. CASE serving \in cOpen \cap sOpen
    <3>1. serving \in Conn /\ resp \in Frame /\ s2c \in [Conn -> Seq(Frame)]
      BY <2>1, ResponsesAreFrames DEF TypeOK
    <3>2. s2c' = [s2c EXCEPT ![serving] = Append(@, resp)]
      BY <2>1 DEF ServeReplies
    <3> QED BY <3>1, <3>2, AppendTyped
  <2>2. CASE serving \notin cOpen \cap sOpen
    BY <2>2 DEF ServeReplies, TypeOK
  <2> QED BY <2>1, <2>2
<1> QED BY <1>1 DEF ServeReplies, TypeOK, holderVars, clientVars

LEMMA HandleShutdownTyped ==
  ASSUME TypeOK, HandleShutdown
  PROVE  TypeOK'
<1>1. c2s' \in [Conn -> Seq(Request)] /\ Answer \in Response
  BY ReadsTyped DEF HandleShutdown, Response
<1>2. s2c' \in [Conn -> Seq(Frame)]
  <2>1. CASE serving \in cOpen
    <3>1. serving \in Conn /\ s2c \in [Conn -> Seq(Frame)]
      BY <2>1 DEF TypeOK
    <3>2. s2c' = [s2c EXCEPT ![serving] = Append(@, Answer)]
      BY <2>1 DEF HandleShutdown
    <3> QED BY <1>1, <3>1, <3>2, AppendTyped, ResponsesAreFrames
  <2>2. CASE serving \notin cOpen
    BY <2>2 DEF HandleShutdown, TypeOK
  <2> QED BY <2>1, <2>2
<1> QED BY <1>1, <1>2 DEF HandleShutdown, TypeOK, holderVars, clientVars

LEMMA ShutdownTyped ==
  ASSUME TypeOK, Shutdown
  PROVE  TypeOK'
<1>1. backlog' \in Seq(Conn)
  BY DEF Shutdown
<1>2. process' \in [Session -> BOOLEAN] /\ ptOpen' \in [Session -> BOOLEAN]
  BY DEF Shutdown
<1> QED BY <1>1, <1>2 DEF Shutdown, TypeOK, clientVars

(* The requests a client may send.                                         *)
LEMMA SendsTyped ==
  ASSUME TypeOK, NEW c \in Conn, NEW req \in Request, Sends(c, req)
  PROVE  sent' \in [Conn -> Nat] /\ c2s' \in [Conn -> Seq(Request)]
<1>1. c2s[c] \in Seq(Request) /\ Append(c2s[c], req) \in Seq(Request)
  BY DEF TypeOK
<1> QED BY <1>1, SMTT(30) DEF Sends, TypeOK

LEMMA DialTyped ==
  ASSUME TypeOK, NEW c \in Conn, Dial(c)
  PROVE  TypeOK'
<1>1. Append(backlog, c) \in Seq(Conn)
  BY DEF TypeOK
<1> QED BY <1>1 DEF Dial, TypeOK, holderVars

LEMMA SendRequestTyped ==
  ASSUME TypeOK, NEW c \in Conn, SendRequest(c)
  PROVE  TypeOK'
<1>1. \E req \in Request : Sends(c, req)
  <2>1. CASE \E op \in ClientOps \ {"kill"} : Sends(c, [op |-> op, id |-> 0])
    BY <2>1, HolderAssumption DEF Request
  <2>2. CASE \E s \in Session : Sends(c, [op |-> "kill", id |-> s])
    BY <2>2 DEF Request
  <2> QED BY <2>1, <2>2 DEF SendRequest
<1>2. sent' \in [Conn -> Nat] /\ c2s' \in [Conn -> Seq(Request)]
  BY <1>1, SendsTyped
<1> QED BY <1>2 DEF SendRequest, TypeOK, holderVars, serveVars

LEMMA SendAttachTyped ==
  ASSUME TypeOK, NEW c \in Conn, NEW s \in Session, SendAttach(c, s)
  PROVE  TypeOK'
<1>1. [op |-> "attach", id |-> s] \in Request
  BY DEF Request
<1>2. sent' \in [Conn -> Nat] /\ c2s' \in [Conn -> Seq(Request)]
  BY <1>1, SendsTyped DEF SendAttach
<1> QED BY <1>2, ZenonT(30) DEF SendAttach, TypeOK, holderVars, serveVars

(* A frame is the answer to a kill, or names a session and carries bytes.  *)
LEMMA FrameShape ==
  ASSUME NEW f \in Frame
  PROVE  f = Answer \/ (f.id \in Session /\ f.data \in Seq(Nat))
<1>1. CASE f \in [kind : {"out"}, id : Session, data : Seq(Nat), running : BOOLEAN]
  BY <1>1
<1>2. CASE f \in [kind : {"exited", "attached", "nosession"}, id : Session,
                  data : {<<>>}, running : BOOLEAN]
  <2>1. <<>> \in Seq(Nat)
    OBVIOUS
  <2>2. f.data = <<>> /\ f.id \in Session
    BY <1>2
  <2> QED BY <2>1, <2>2
<1>3. CASE f = Answer
  BY <1>3
<1> QED BY <1>1, <1>2, <1>3 DEF Frame

(* The frames of a session's output carry its bytes.                       *)
LEMMA OutData ==
  ASSUME NEW f \in Frame, NEW s \in Session, IsOut(f, s)
  PROVE  f.data \in Seq(Nat)
<1>1. f # Answer
  BY DEF IsOut, Answer
<1> QED BY <1>1, FrameShape

(* A client reads one frame, of one of the five kinds.                     *)
LEMMA FrameRead ==
  ASSUME TypeOK, NEW c \in Conn, ClientReads(c)
  PROVE  /\ s2c[c] \in Seq(Frame) /\ s2c[c] # <<>>
         /\ s2c' = [s2c EXCEPT ![c] = Tail(@)]
         /\ s2c' \in [Conn -> Seq(Frame)]
         /\ UNCHANGED <<up, holderVars, serveVars, cOpen, sOpen, c2s, dialled, sent, asked>>
         /\ \E f \in Frame :
              /\ f = Head(s2c[c])
              /\ f = Answer \/ (f.id \in Session /\ f.data \in Seq(Nat))
              /\ \/ TakesOutput(c, f) \/ TakesExit(c, f) \/ TakesAttached(c, f)
                 \/ TakesNoSession(c, f) \/ TakesAnswer(f)
<1>1. s2c[c] \in Seq(Frame) /\ s2c[c] # <<>> /\ Tail(s2c[c]) \in Seq(Frame)
  BY DEF ClientReads, TypeOK
<1>2. s2c' = [s2c EXCEPT ![c] = Tail(@)] /\ s2c' \in [Conn -> Seq(Frame)]
  BY <1>1 DEF ClientReads, TypeOK
<1>3. PICK f \in Frame : f = Head(s2c[c])
  BY <1>1
<1>4. f = Answer \/ (f.id \in Session /\ f.data \in Seq(Nat))
  BY FrameShape
<1>5. \/ TakesOutput(c, f) \/ TakesExit(c, f) \/ TakesAttached(c, f)
      \/ TakesNoSession(c, f) \/ TakesAnswer(f)
  BY <1>3 DEF ClientReads
<1> QED BY <1>1, <1>2, <1>3, <1>4, <1>5 DEF ClientReads

LEMMA ClientReadsTyped ==
  ASSUME TypeOK, NEW c \in Conn, ClientReads(c)
  PROVE  TypeOK'
<1>1. PICK f \in Frame :
        /\ f = Answer \/ (f.id \in Session /\ f.data \in Seq(Nat))
        /\ \/ TakesOutput(c, f) \/ TakesExit(c, f) \/ TakesAttached(c, f)
           \/ TakesNoSession(c, f) \/ TakesAnswer(f)
  BY FrameRead
<1>2. /\ waiting' \in [Conn -> SUBSET Session] /\ sink' \in [Conn -> SUBSET Session]
      /\ live' \in [Conn -> SUBSET Session] /\ gone' \in [Conn -> SUBSET Session]
      /\ screen' \in [Conn -> [Session -> Seq(Nat)]]
  <2>1. CASE TakesOutput(c, f)
    <3>1. f.id \in Session /\ f.data \in Seq(Nat)
      BY <1>1, <2>1 DEF TakesOutput, Answer
    <3>2. screen[c][f.id] \o f.data \in Seq(Nat)
      BY <3>1 DEF TypeOK
    <3> QED BY <2>1, <3>1, <3>2 DEF TakesOutput, TypeOK
  <2>2. CASE TakesExit(c, f)
    <3>1. f.id \in Session
      BY <1>1, <2>2 DEF TakesExit, Answer
    <3> QED BY <2>2, <3>1 DEF TakesExit, TypeOK
  <2>3. CASE TakesAttached(c, f)
    <3>1. f.id \in Session
      BY <1>1, <2>3 DEF TakesAttached, Answer
    <3> QED BY <2>3, <3>1 DEF TakesAttached, TypeOK
  <2>4. CASE TakesNoSession(c, f)
    BY <2>4 DEF TakesNoSession, TypeOK
  <2>5. CASE TakesAnswer(f)
    BY <2>5 DEF TakesAnswer, TypeOK
  <2> QED BY <1>1, <2>1, <2>2, <2>3, <2>4, <2>5
<1> QED BY <1>2, FrameRead DEF TypeOK, holderVars, serveVars

LEMMA AttachTimesOutTyped ==
  ASSUME TypeOK, NEW c \in Conn, NEW s \in Session, AttachTimesOut(c, s)
  PROVE  TypeOK'
  BY DEF AttachTimesOut, TypeOK, holderVars, serveVars, sockVars

LEMMA ClientClosesTyped ==
  ASSUME TypeOK, NEW c \in Conn, ClientCloses(c)
  PROVE  TypeOK'
<1>1. s2c' \in [Conn -> Seq(Frame)]
  BY DEF ClientCloses, TypeOK
<1> QED BY <1>1 DEF ClientCloses, TypeOK, holderVars, serveVars, clientVars

LEMMA StepTyped == TypeOK /\ [Next]_vars => TypeOK'
<1> SUFFICES ASSUME TypeOK, [Next]_vars PROVE TypeOK'
  OBVIOUS
<1>1. ASSUME NEW s \in Session, ProcessExits(s) \/ WaitClosesPt(s) \/ PumpStep(s)
      PROVE  TypeOK'
  BY <1>1, PumpTyped, PumpForwardTyped, PumpReportsTyped DEF PumpStep
<1>2. ASSUME ServeStep
      PROVE  TypeOK'
  BY <1>2, AcceptTyped, ServeEndsTyped, HandleStartTyped, HandleStartFailsTyped,
     HandleAttachTyped, AttachReadsRunningTyped, HandleKillTyped, HandleQueryTyped,
     ServeRepliesTyped, HandleShutdownTyped, ShutdownTyped DEF ServeStep
<1>3. ASSUME NEW c \in Conn, ClientStep(c)
      PROVE  TypeOK'
  BY <1>3, DialTyped, SendRequestTyped, SendAttachTyped, ClientReadsTyped,
     AttachTimesOutTyped, ClientClosesTyped DEF ClientStep
<1>4. CASE UNCHANGED vars
  BY <1>4 DEF TypeOK, vars, holderVars, serveVars, sockVars, clientVars
<1> QED BY <1>1, <1>2, <1>3, <1>4 DEF Next

(* The variables of the holder and its clients keep their types.           *)
THEOREM TypeInvariance == Spec => []TypeOK
  BY InitTyped, StepTyped, PTL DEF Spec

-----------------------------------------------------------------------------
(***************************************************************************)
(* The order of output.  The locks of attach and pump show in one fact     *)
(* about the server: nothing is buffered for a session the current client  *)
(* is subscribed to.  With it, what is buffered is always the newest part  *)
(* of the output, and everything delivered is older.                       *)
(***************************************************************************)

SubscribedNothingKept ==
  client # NoConn => \A s \in attached : ring[s] = <<>>

OrderInv == TypeOK /\ SubscribedNothingKept /\ RingIsNewest /\ InOrder

(* Adding a frame that is no output of s.                                  *)
LEMMA AppendOther ==
  ASSUME NEW q \in Seq(Nat), NEW w \in Seq(Frame), NEW s \in Session, NEW b \in Int,
         NEW f \in Frame, ~IsOut(f, s), StreamOrdered(q, w, s, b)
  PROVE  StreamOrdered(q, Append(w, f), s, b)
<1> DEFINE v == Append(w, f)
<1>1. \A i \in DOMAIN v : IsOut(v[i], s) => i \in DOMAIN w /\ v[i] = w[i]
  OBVIOUS
<1>2. \A i \in DOMAIN w : v[i] = w[i]
  OBVIOUS
<1> HIDE DEF v
<1> QED BY <1>1, <1>2 DEF StreamOrdered

(* Adding output that is newer than the bound raises the bound.            *)
LEMMA AppendOutput ==
  ASSUME NEW q \in Seq(Nat), NEW w \in Seq(Frame), NEW s \in Session,
         NEW b \in Int, NEW top \in Int, b <= top,
         NEW d \in Seq(Nat), Increasing(d), AtMost(d, top),
         \A i \in DOMAIN d : b < d[i],
         StreamOrdered(q, w, s, b)
  PROVE  StreamOrdered(q, Append(w, Out(s, d)), s, top)
<1> DEFINE v == Append(w, Out(s, d))
<1>1. /\ DOMAIN v = 1..(Len(w) + 1) /\ DOMAIN w = 1..Len(w)
      /\ v[Len(w) + 1] = Out(s, d) /\ Len(w) \in Nat
      /\ \A i \in DOMAIN w : v[i] = w[i]
  BY FramesTyped
<1>2. \A i \in DOMAIN w : IsOut(w[i], s) => w[i].data \in Seq(Nat)
  <2>1. \A i \in DOMAIN w : w[i] \in Frame
    OBVIOUS
  <2> QED BY <2>1, OutData
<1>3. ASSUME NEW r \in Seq(Nat), AtMost(r, b)
      PROVE  AtMost(r, top) /\ AllBelow(r, d)
  BY <1>3, SMTT(30) DEF AtMost, AllBelow
<1>4. Out(s, d).data = d
  BY DEF Out
<1> HIDE DEF v
<1>5. Increasing(q) /\ AtMost(q, top)
  BY <1>3 DEF StreamOrdered
<1>6. ASSUME NEW i \in DOMAIN v, IsOut(v[i], s)
      PROVE  /\ Increasing(v[i].data) /\ AtMost(v[i].data, top)
             /\ AllBelow(q, v[i].data)
             /\ \A j \in DOMAIN v :
                  i < j /\ IsOut(v[j], s) => AllBelow(v[i].data, v[j].data)
  <2>1. CASE i = Len(w) + 1
    <3>1. v[i].data = d /\ ~\E j \in DOMAIN v : i < j
      BY <1>1, <1>4, <2>1
    <3> QED BY <1>3, <3>1 DEF StreamOrdered
  <2>2. CASE i \in DOMAIN w
    <3>1. /\ v[i] = w[i] /\ IsOut(w[i], s) /\ w[i].data \in Seq(Nat)
          /\ Increasing(w[i].data) /\ AtMost(w[i].data, b) /\ AllBelow(q, w[i].data)
      BY <1>1, <1>2, <1>6, <2>2 DEF StreamOrdered
    <3>2. ASSUME NEW j \in DOMAIN v, i < j, IsOut(v[j], s)
          PROVE  AllBelow(w[i].data, v[j].data)
      <4>1. CASE j = Len(w) + 1
        BY <1>1, <1>3, <1>4, <3>1, <4>1
      <4>2. CASE j \in DOMAIN w
        BY <1>1, <2>2, <3>1, <3>2, <4>2 DEF StreamOrdered
      <4> QED BY <1>1, <4>1, <4>2
    <3> QED BY <1>3, <3>1, <3>2
  <2> QED BY <1>1, <2>1, <2>2
<1> QED BY <1>5, <1>6 DEF StreamOrdered, v

(* Dropping the first frame.                                               *)
LEMMA DropFirst ==
  ASSUME NEW q \in Seq(Nat), NEW w \in Seq(Frame), w # <<>>, NEW s \in Session,
         NEW b \in Int, StreamOrdered(q, w, s, b)
  PROVE  StreamOrdered(q, Tail(w), s, b)
<1> DEFINE v == Tail(w)
<1>1. \A i \in DOMAIN v : i + 1 \in DOMAIN w /\ v[i] = w[i + 1] /\ i \in Nat
  OBVIOUS
<1> HIDE DEF v
<1> QED BY <1>1 DEF StreamOrdered, v

(* Moving the first frame, output of s, to the screen.                     *)
LEMMA TakeFirst ==
  ASSUME NEW q \in Seq(Nat), NEW w \in Seq(Frame), w # <<>>, NEW s \in Session,
         NEW b \in Int, StreamOrdered(q, w, s, b), IsOut(Head(w), s)
  PROVE  StreamOrdered(q \o Head(w).data, Tail(w), s, b)
<1>1. PICK d \in Seq(Nat) : d = Head(w).data
  BY DEF IsOut, Frame, Answer
<1>2. PICK r \in Seq(Nat) : r = q \o d
  <2>1. q \o d \in Seq(Nat)
    OBVIOUS
  <2> QED BY <2>1
<1>3. 1 \in DOMAIN w /\ w[1] = Head(w)
  OBVIOUS
<1>4. Increasing(d) /\ AtMost(d, b) /\ AllBelow(q, d) /\ Increasing(q) /\ AtMost(q, b)
  BY <1>1, <1>3 DEF StreamOrdered
<1>5. /\ \A i \in DOMAIN r : \/ i \in DOMAIN q /\ r[i] = q[i]
                             \/ i - Len(q) \in DOMAIN d /\ r[i] = d[i - Len(q)]
      /\ DOMAIN q = 1..Len(q) /\ DOMAIN d = 1..Len(d) /\ DOMAIN r = 1..(Len(q) + Len(d))
      /\ Len(q) \in Nat /\ Len(d) \in Nat
  BY <1>2, SMTT(30)
<1>6. Increasing(r)
  <2> SUFFICES ASSUME NEW i \in DOMAIN r, NEW j \in DOMAIN r, i < j
               PROVE  r[i] < r[j]
    BY DEF Increasing
  <2>1. CASE i \in DOMAIN q /\ r[i] = q[i] /\ j \in DOMAIN q /\ r[j] = q[j]
    BY <1>4, <2>1 DEF Increasing
  <2>2. CASE i \in DOMAIN q /\ r[i] = q[i] /\ j - Len(q) \in DOMAIN d /\ r[j] = d[j - Len(q)]
    BY <1>4, <2>2 DEF AllBelow
  <2>3. CASE /\ i - Len(q) \in DOMAIN d /\ r[i] = d[i - Len(q)]
             /\ j - Len(q) \in DOMAIN d /\ r[j] = d[j - Len(q)]
    <3>1. i - Len(q) < j - Len(q)
      BY <1>5
    <3> QED BY <1>4, <2>3, <3>1 DEF Increasing
  <2>4. ~(i - Len(q) \in DOMAIN d /\ j \in DOMAIN q)
    BY <1>5
  <2> QED BY <1>5, <2>1, <2>2, <2>3, <2>4
<1>7. AtMost(r, b)
  BY <1>4, <1>5 DEF AtMost
<1>8. \A i \in DOMAIN Tail(w) : i + 1 \in DOMAIN w /\ Tail(w)[i] = w[i + 1] /\ i \in Nat
  OBVIOUS
<1>9. ASSUME NEW i \in DOMAIN Tail(w), IsOut(Tail(w)[i], s)
      PROVE  AllBelow(r, Tail(w)[i].data)
  <2>1. AllBelow(q, w[i + 1].data) /\ AllBelow(d, w[i + 1].data)
    BY <1>1, <1>3, <1>8, <1>9 DEF StreamOrdered
  <2> QED BY <1>5, <1>8, <2>1 DEF AllBelow
<1> QED BY <1>1, <1>2, <1>6, <1>7, <1>9, DropFirst DEF StreamOrdered

(* Nothing on the wire, or a higher bound.                                 *)
LEMMA NothingOnWire ==
  ASSUME NEW q \in Seq(Nat), NEW w \in Seq(Frame), NEW s \in Session, NEW b \in Int,
         StreamOrdered(q, w, s, b)
  PROVE  StreamOrdered(q, <<>>, s, b)
  BY DEF StreamOrdered

LEMMA HigherBound ==
  ASSUME NEW q \in Seq(Nat), NEW w \in Seq(Frame), NEW s \in Session,
         NEW b \in Int, NEW top \in Int, b <= top, StreamOrdered(q, w, s, b)
  PROVE  StreamOrdered(q, w, s, top)
<1>1. ASSUME NEW r \in Seq(Nat), AtMost(r, b)
      PROVE  AtMost(r, top)
  BY <1>1 DEF AtMost
<1>2. \A i \in DOMAIN w : IsOut(w[i], s) => w[i].data \in Seq(Nat)
  <2>1. \A i \in DOMAIN w : w[i] \in Frame
    OBVIOUS
  <2> QED BY <2>1, OutData
<1> QED BY <1>1, <1>2 DEF StreamOrdered

-----------------------------------------------------------------------------
LEMMA InitOrder == Init => OrderInv
<1> SUFFICES ASSUME Init PROVE OrderInv
  OBVIOUS
<1>1. TypeOK /\ SubscribedNothingKept /\ RingIsNewest
  BY InitTyped DEF Init, SubscribedNothingKept, RingIsNewest, Newest
<1>2. InOrder
  BY DEF Init, InOrder, StreamOrdered, Increasing, AtMost
<1> QED BY <1>1, <1>2 DEF OrderInv

(* Steps that leave output, buffers and sockets alone and subscribe        *)
(* nobody.                                                                 *)
LEMMA QuietOrder ==
  ASSUME OrderInv, TypeOK', UNCHANGED <<handled, ring, screen, s2c>>,
         UNCHANGED <<client, attached>> \/ attached' = {}
  PROVE  OrderInv'
<1>1. RingIsNewest' /\ InOrder'
  BY DEF OrderInv, RingIsNewest, InOrder
<1>2. SubscribedNothingKept'
  BY DEF OrderInv, SubscribedNothingKept
<1> QED BY <1>1, <1>2 DEF OrderInv

(* The types of what InOrder relates.                                      *)
LEMMA StreamTyped ==
  ASSUME TypeOK, RingIsNewest, NEW c \in Conn, NEW s \in Session
  PROVE  /\ screen[c][s] \in Seq(Nat) /\ s2c[c] \in Seq(Frame)
         /\ handled[s] \in Nat /\ ring[s] \in Seq(Nat) /\ Len(ring[s]) \in Nat
         /\ handled[s] - Len(ring[s]) \in Nat
<1>1. /\ screen[c][s] \in Seq(Nat) /\ s2c[c] \in Seq(Frame)
      /\ handled[s] \in Nat /\ ring[s] \in Seq(Nat)
  BY DEF TypeOK
<1>2. Len(ring[s]) \in Nat /\ Len(ring[s]) <= handled[s]
  BY <1>1 DEF RingIsNewest
<1> QED BY <1>1, <1>2

(* Steps that write one frame that is no output.                           *)
LEMMA FrameOrder ==
  ASSUME OrderInv, TypeOK', UNCHANGED <<handled, ring, screen>>,
         UNCHANGED <<client, attached>> \/ attached' = {},
         NEW c \in Conn, NEW f \in Frame, f.kind # "out",
         s2c' = [s2c EXCEPT ![c] = Append(@, f)]
  PROVE  OrderInv'
<1>1. RingIsNewest' /\ SubscribedNothingKept'
  BY DEF OrderInv, RingIsNewest, SubscribedNothingKept
<1>2. ASSUME NEW d \in Conn, NEW s \in Session
      PROVE  StreamOrdered(screen[d][s], s2c'[d], s, handled[s] - Len(ring[s]))
  <2>1. /\ screen[d][s] \in Seq(Nat) /\ s2c[d] \in Seq(Frame)
        /\ handled[s] - Len(ring[s]) \in Int
        /\ StreamOrdered(screen[d][s], s2c[d], s, handled[s] - Len(ring[s]))
    BY StreamTyped DEF OrderInv, InOrder
  <2>2. s2c'[d] = IF d = c THEN Append(s2c[d], f) ELSE s2c[d]
    BY DEF OrderInv, TypeOK
  <2>3. ~IsOut(f, s)
    BY DEF IsOut
  <2> QED BY <2>1, <2>2, <2>3, AppendOther
<1>3. InOrder'
  BY <1>2 DEF InOrder
<1> QED BY <1>1, <1>3 DEF OrderInv

(* Steps that write output of s, newer than all that was delivered.        *)
LEMMA OutputOrder ==
  ASSUME OrderInv, TypeOK', UNCHANGED screen,
         NEW c \in Conn, NEW s \in Session, NEW d \in Seq(Nat),
         s2c' = [s2c EXCEPT ![c] = Append(@, Out(s, d))],
         \A r \in Session \ {s} : ring'[r] = ring[r] /\ handled'[r] = handled[r],
         ring'[s] = <<>>, handled[s] <= handled'[s],
         Increasing(d), AtMost(d, handled'[s]),
         \A i \in DOMAIN d : handled[s] - Len(ring[s]) < d[i]
  PROVE  InOrder'
<1> SUFFICES ASSUME NEW e \in Conn, NEW r \in Session
             PROVE  StreamOrdered(screen[e][r], s2c'[e], r, handled'[r] - Len(ring'[r]))
  BY DEF InOrder
<1>1. /\ screen[e][r] \in Seq(Nat) /\ s2c[e] \in Seq(Frame)
      /\ handled[r] \in Nat /\ Len(ring[r]) \in Nat
      /\ StreamOrdered(screen[e][r], s2c[e], r, handled[r] - Len(ring[r]))
  BY StreamTyped DEF OrderInv, InOrder
<1>2. s2c'[e] = IF e = c THEN Append(s2c[e], Out(s, d)) ELSE s2c[e]
  BY DEF OrderInv, TypeOK
<1>3. CASE r # s
  <2>1. Out(s, d) \in Frame /\ ~IsOut(Out(s, d), r)
    BY <1>3, FramesTyped DEF IsOut, Out
  <2>2. handled'[r] - Len(ring'[r]) = handled[r] - Len(ring[r])
    BY <1>3
  <2> QED BY <1>1, <1>2, <2>1, <2>2, AppendOther
<1>4. CASE r = s
  <2> DEFINE old == handled[s] - Len(ring[s])
             top == handled'[s]
  <2>1. /\ top \in Int /\ old \in Int /\ old <= top
        /\ StreamOrdered(screen[e][s], s2c[e], s, old)
    <3>1. top \in Nat
      BY DEF TypeOK
    <3>2. handled[s] \in Nat /\ Len(ring[s]) \in Nat
      BY <1>1, <1>4
    <3> QED BY <1>1, <1>4, <3>1, <3>2
  <2>2. handled'[s] - Len(ring'[s]) = top
    <3>1. Len(ring'[s]) = 0
      OBVIOUS
    <3> QED BY <2>1, <3>1
  <2>3. /\ screen[e][s] \in Seq(Nat) /\ s2c[e] \in Seq(Frame)
        /\ AtMost(d, top) /\ \A i \in DOMAIN d : old < d[i]
    BY <1>1, <1>4
  <2> HIDE DEF old, top
  <2>4. CASE e = c
    <3>1. StreamOrdered(screen[e][s], Append(s2c[e], Out(s, d)), s, top)
      BY <2>1, <2>3, AppendOutput
    <3> QED BY <1>2, <1>4, <2>2, <2>4, <3>1
  <2>5. CASE e # c
    <3>1. StreamOrdered(screen[e][s], s2c[e], s, top)
      BY <2>1, <2>3, HigherBound
    <3> QED BY <1>2, <1>4, <2>2, <2>5, <3>1
  <2> QED BY <2>4, <2>5
<1> QED BY <1>3, <1>4

(* A buffer of the newest keeps its shape when the next is appended and    *)
(* when the oldest is dropped.                                             *)
LEMMA AppendNewest ==
  ASSUME NEW r \in Seq(Nat), NEW n \in Nat, Newest(r, n)
  PROVE  Newest(Append(r, n + 1), n + 1) /\ Len(Append(r, n + 1)) = Len(r) + 1
<1>1. PICK q \in Seq(Nat) : q = Append(r, n + 1)
  <2>1. Append(r, n + 1) \in Seq(Nat)
    OBVIOUS
  <2> QED BY <2>1
<1>2. PICK k \in Nat : k = Len(r)
  OBVIOUS
<1>3. Len(q) = k + 1
  BY <1>1, <1>2
<1>4. q[k + 1] = n + 1
  BY <1>1, <1>2
<1>5. \A i \in 1..k : q[i] = n - k + i
  <2>1. \A i \in 1..k : q[i] = r[i]
    BY <1>1, <1>2
  <2> QED BY <1>2, <2>1 DEF Newest
<1>6. ASSUME NEW i \in 1..(k + 1)
      PROVE  q[i] = (n + 1) - (k + 1) + i
  <2>1. CASE i = k + 1
    BY <1>4, <2>1
  <2>2. CASE i # k + 1
    <3>1. i \in 1..k
      BY <2>2
    <3> QED BY <1>5, <3>1
  <2> QED BY <2>1, <2>2
<1> QED BY <1>1, <1>2, <1>3, <1>6 DEF Newest

LEMMA TailNewest ==
  ASSUME NEW r \in Seq(Nat), NEW n \in Nat, Newest(r, n), r # <<>>
  PROVE  Newest(Tail(r), n) /\ Len(Tail(r)) = Len(r) - 1 /\ Tail(r) \in Seq(Nat)
<1>1. PICK q \in Seq(Nat) : q = Tail(r)
  <2>1. Tail(r) \in Seq(Nat)
    OBVIOUS
  <2> QED BY <2>1
<1>2. PICK k \in Nat : k = Len(q) /\ Len(r) = k + 1
  BY <1>1
<1>3. ASSUME NEW i \in 1..k
      PROVE  q[i] = n - k + i
  <2>1. q[i] = r[i + 1] /\ i + 1 \in 1..Len(r)
    BY <1>1, <1>2
  <2>2. r[i + 1] = n - (k + 1) + (i + 1)
    BY <1>2, <2>1 DEF Newest
  <2> QED BY <2>1, <2>2
<1> QED BY <1>1, <1>2, <1>3 DEF Newest

(* Buffering the next chunk keeps the newest and leaves everything         *)
(* delivered below what is buffered.                                       *)
LEMMA RingWriteNewest ==
  ASSUME NEW r \in Seq(Nat), NEW n \in Nat,
         Len(r) <= RingCapacity, Len(r) <= n, Newest(r, n)
  PROVE  /\ Newest(RingWrite(r, n + 1), n + 1)
         /\ Len(RingWrite(r, n + 1)) <= RingCapacity
         /\ Len(RingWrite(r, n + 1)) <= Len(r) + 1
<1>1. Len(r) \in Nat /\ RingCapacity \in Nat \ {0}
  BY HolderAssumption
<1>2. CASE Len(r) < RingCapacity
  BY <1>1, <1>2, AppendNewest DEF RingWrite
<1>3. CASE ~(Len(r) < RingCapacity)
  <2>1. Len(r) = RingCapacity /\ r # <<>>
    BY <1>1, <1>3
  <2>2. Newest(Tail(r), n) /\ Len(Tail(r)) = Len(r) - 1 /\ Tail(r) \in Seq(Nat)
    BY <2>1, TailNewest
  <2>3. RingWrite(r, n + 1) = Append(Tail(r), n + 1)
    BY <1>3 DEF RingWrite
  <2>4. /\ Newest(Append(Tail(r), n + 1), n + 1)
        /\ Len(Append(Tail(r), n + 1)) = Len(Tail(r)) + 1
    BY <2>2, AppendNewest
  <2>5. PICK q \in Seq(Nat) : q = RingWrite(r, n + 1)
    <3>1. RingWrite(r, n + 1) \in Seq(Nat)
      BY RingWriteTyped
    <3> QED BY <3>1
  <2>6. Newest(q, n + 1) /\ Len(q) = Len(Tail(r)) + 1
    BY <2>3, <2>4, <2>5
  <2>7. Len(q) <= RingCapacity /\ Len(q) <= Len(r) + 1
    BY <1>1, <2>1, <2>2, <2>6
  <2> QED BY <2>5, <2>6, <2>7
<1> QED BY <1>2, <1>3

LEMMA BufferOrder ==
  ASSUME OrderInv, TypeOK', UNCHANGED <<screen, s2c>>, NEW s \in Session,
         handled' = [handled EXCEPT ![s] = @ + 1],
         ring' = [ring EXCEPT ![s] = RingWrite(@, handled[s] + 1)]
  PROVE  RingIsNewest' /\ InOrder'
<1>1. /\ handled[s] \in Nat /\ ring[s] \in Seq(Nat)
      /\ handled'[s] = handled[s] + 1 /\ ring'[s] = RingWrite(ring[s], handled[s] + 1)
  BY DEF OrderInv, TypeOK
<1>2. \A r \in Session \ {s} : handled'[r] = handled[r] /\ ring'[r] = ring[r]
  BY DEF OrderInv, TypeOK
<1>3. /\ Len(ring'[s]) \in Nat /\ Len(ring'[s]) <= RingCapacity
      /\ Len(ring'[s]) <= handled'[s] /\ Newest(ring'[s], handled'[s])
      /\ handled[s] - Len(ring[s]) <= handled'[s] - Len(ring'[s])
  <2>1. /\ Len(ring[s]) <= RingCapacity /\ Len(ring[s]) <= handled[s]
        /\ Newest(ring[s], handled[s]) /\ Len(ring[s]) \in Nat
    BY <1>1 DEF OrderInv, RingIsNewest
  <2>2. /\ Newest(ring'[s], handled'[s]) /\ Len(ring'[s]) <= RingCapacity
        /\ Len(ring'[s]) <= Len(ring[s]) + 1
    BY <1>1, <2>1, RingWriteNewest
  <2>3. ring'[s] \in Seq(Nat) /\ Len(ring'[s]) \in Nat
    BY DEF TypeOK
  <2> QED BY <1>1, <2>1, <2>2, <2>3
<1>4. RingIsNewest'
  BY <1>2, <1>3 DEF OrderInv, RingIsNewest
<1>5. ASSUME NEW c \in Conn, NEW r \in Session
      PROVE  StreamOrdered(screen[c][r], s2c[c], r, handled'[r] - Len(ring'[r]))
  <2>1. /\ screen[c][r] \in Seq(Nat) /\ s2c[c] \in Seq(Frame)
        /\ handled[r] - Len(ring[r]) \in Int
        /\ StreamOrdered(screen[c][r], s2c[c], r, handled[r] - Len(ring[r]))
    BY StreamTyped DEF OrderInv, InOrder
  <2>2. CASE r # s
    BY <1>2, <2>1, <2>2
  <2>3. CASE r = s
    <3>1. handled'[r] - Len(ring'[r]) \in Int
      BY <1>1, <1>3, <2>3
    <3> QED BY <1>3, <2>1, <2>3, <3>1, HigherBound
  <2> QED BY <2>2, <2>3
<1> QED BY <1>4, <1>5 DEF InOrder

LEMMA PumpForwardOrder ==
  ASSUME OrderInv, NEW s \in Session, PumpForward(s)
  PROVE  OrderInv'
<1>1. TypeOK'
  BY PumpForwardTyped DEF OrderInv
<1>2. handled' = [handled EXCEPT ![s] = @ + 1] /\ UNCHANGED screen
  BY DEF PumpForward, clientVars
<1>3. CASE s \in attached /\ CanWrite
  <2>1. /\ s2c' = [s2c EXCEPT ![client] = Append(@, Out(s, <<handled[s] + 1>>))]
        /\ UNCHANGED <<ring, client, attached>>
    BY <1>3 DEF PumpForward, WriteToClient
  <2>2. client \in Conn /\ ring[s] = <<>>
    BY <1>3 DEF CanWrite, OrderInv, TypeOK, SubscribedNothingKept
  <2>3. SubscribedNothingKept'
    BY <2>1 DEF OrderInv, SubscribedNothingKept
  <2>4. handled[s] \in Nat /\ handled'[s] = handled[s] + 1
    BY <1>2 DEF OrderInv, TypeOK
  <2>5. PICK d \in Seq(Nat) : d = <<handled[s] + 1>>
    <3>1. <<handled[s] + 1>> \in Seq(Nat)
      BY <2>4
    <3> QED BY <3>1
  <2>6. /\ Increasing(d) /\ AtMost(d, handled'[s])
        /\ \A i \in DOMAIN d : handled[s] - Len(ring[s]) < d[i]
    BY <2>2, <2>4, <2>5 DEF Increasing, AtMost
  <2>7. \A r \in Session \ {s} : ring'[r] = ring[r] /\ handled'[r] = handled[r]
    BY <1>2, <2>1 DEF OrderInv, TypeOK
  <2>8. ring'[s] = <<>> /\ handled[s] <= handled'[s]
    BY <2>1, <2>2, <2>4
  <2>9. InOrder'
    BY <1>1, <1>2, <2>1, <2>2, <2>5, <2>6, <2>7, <2>8, OutputOrder
  <2>10. RingIsNewest'
    <3> SUFFICES ASSUME NEW r \in Session
                 PROVE  /\ Len(ring'[r]) <= RingCapacity /\ Len(ring'[r]) <= handled'[r]
                        /\ Newest(ring'[r], handled'[r])
      BY DEF RingIsNewest
    <3>1. CASE r = s
      BY <2>4, <2>8, <3>1 DEF Newest
    <3>2. CASE r # s
      BY <2>7, <3>2 DEF OrderInv, RingIsNewest
    <3> QED BY <3>1, <3>2
  <2> QED BY <1>1, <2>3, <2>9, <2>10 DEF OrderInv
<1>4. CASE ~(s \in attached /\ CanWrite)
  <2>1. /\ ring' = [ring EXCEPT ![s] = RingWrite(@, handled[s] + 1)] /\ UNCHANGED s2c
        /\ \/ client' = NoConn
           \/ s \notin attached /\ UNCHANGED <<client, attached>>
    BY <1>4 DEF PumpForward, WriteFails
  <2>2. SubscribedNothingKept'
    BY <2>1 DEF OrderInv, SubscribedNothingKept, TypeOK
  <2> QED BY <1>1, <1>2, <2>1, <2>2, BufferOrder DEF OrderInv
<1> QED BY <1>3, <1>4

LEMMA HandleAttachOrder ==
  ASSUME OrderInv, HandleAttach
  PROVE  OrderInv'
<1>1. TypeOK /\ TypeOK'
  BY HandleAttachTyped DEF OrderInv
<1>2. UNCHANGED <<handled, screen>>
  BY <1>1, AttachCases DEF clientVars
<1>3. PICK s \in Session : AttachUnknown(s) \/ AttachReplays(s)
  BY <1>1, AttachCases
<1>4. CASE AttachUnknown(s)
  BY <1>1, <1>2, <1>4, QuietOrder DEF AttachUnknown
<1>5. CASE AttachReplays(s)
  <2>1. CASE /\ ring[s] = <<>> /\ attached' = attached \cup {s}
             /\ UNCHANGED <<ring, client, sOpen, s2c>>
    <3>1. SubscribedNothingKept'
      BY <2>1 DEF OrderInv, SubscribedNothingKept
    <3>2. RingIsNewest' /\ InOrder'
      BY <1>2, <2>1 DEF OrderInv, RingIsNewest, InOrder
    <3> QED BY <1>1, <3>1, <3>2 DEF OrderInv
  <2>2. CASE /\ client \in Conn /\ CanWrite /\ attached' = attached \cup {s}
             /\ s2c' = [s2c EXCEPT ![client] = Append(@, Out(s, ring[s]))]
             /\ ring' = [ring EXCEPT ![s] = <<>>]
             /\ UNCHANGED <<client, sOpen>>
    <3>1. /\ ring'[s] = <<>>
          /\ \A r \in Session \ {s} : ring'[r] = ring[r] /\ handled'[r] = handled[r]
      BY <1>1, <1>2, <2>2 DEF TypeOK
    <3>2. SubscribedNothingKept'
      BY <2>2, <3>1 DEF OrderInv, SubscribedNothingKept, TypeOK
    <3>3. PICK d \in Seq(Nat) : d = ring[s]
      BY <1>1 DEF TypeOK
    <3>4. handled[s] \in Nat /\ handled'[s] = handled[s] /\ Len(d) \in Nat
      BY <1>1, <1>2, <3>3 DEF TypeOK
    <3>5. DOMAIN d = 1..Len(d) /\ \A i \in 1..Len(d) : d[i] = handled[s] - Len(d) + i
      BY <3>3 DEF OrderInv, RingIsNewest, Newest
    <3>6. /\ Increasing(d) /\ AtMost(d, handled'[s])
          /\ \A i \in DOMAIN d : handled[s] - Len(ring[s]) < d[i]
      BY <3>3, <3>4, <3>5 DEF Increasing, AtMost
    <3>7. InOrder'
      <4>1. s2c' = [s2c EXCEPT ![client] = Append(@, Out(s, d))] /\ client \in Conn
        BY <2>2, <3>3
      <4>2. handled[s] <= handled'[s] /\ UNCHANGED screen
        BY <1>2, <3>4
      <4> QED BY <1>1, <3>1, <3>6, <4>1, <4>2, OutputOrder
    <3>8. RingIsNewest'
      <4> SUFFICES ASSUME NEW r \in Session
                   PROVE  /\ Len(ring'[r]) <= RingCapacity /\ Len(ring'[r]) <= handled'[r]
                          /\ Newest(ring'[r], handled'[r])
        BY DEF RingIsNewest
      <4>1. CASE r = s
        BY <3>1, <3>4, <4>1 DEF Newest
      <4>2. CASE r # s
        BY <3>1, <4>2 DEF OrderInv, RingIsNewest
      <4> QED BY <4>1, <4>2
    <3> QED BY <1>1, <3>2, <3>7, <3>8 DEF OrderInv
  <2>3. CASE client' = NoConn /\ UNCHANGED <<ring, s2c>>
    <3>1. SubscribedNothingKept'
      BY <2>3 DEF SubscribedNothingKept
    <3>2. RingIsNewest' /\ InOrder'
      BY <1>2, <2>3 DEF OrderInv, RingIsNewest, InOrder
    <3> QED BY <1>1, <3>1, <3>2 DEF OrderInv
  <2> QED BY <1>1, <1>5, <2>1, <2>2, <2>3, ReplayCases
<1> QED BY <1>3, <1>4, <1>5

LEMMA PumpReportsOrder ==
  ASSUME OrderInv, NEW s \in Session, PumpReports(s)
  PROVE  OrderInv'
<1>1. TypeOK'
  BY PumpReportsTyped DEF OrderInv
<1>2. UNCHANGED <<handled, ring, screen>>
  BY DEF PumpReports, clientVars
<1>3. CASE CanWrite /\ WriteToClient(Exited(s))
  <2>1. client \in Conn
    BY <1>3 DEF CanWrite, OrderInv, TypeOK
  <2>2. Exited(s) \in Frame /\ Exited(s).kind # "out"
    BY DEF Exited, Frame
  <2>3. /\ s2c' = [s2c EXCEPT ![client] = Append(@, Exited(s))]
        /\ UNCHANGED <<client, attached>>
    BY <1>3 DEF WriteToClient
  <2> QED BY <1>1, <1>2, <2>1, <2>2, <2>3, FrameOrder
<1>4. CASE WriteFails
  BY <1>1, <1>2, <1>4, QuietOrder DEF WriteFails
<1> QED BY <1>3, <1>4 DEF PumpReports

LEMMA ServeRepliesOrder ==
  ASSUME OrderInv, ServeReplies
  PROVE  OrderInv'
<1>1. TypeOK'
  BY ServeRepliesTyped DEF OrderInv
<1>2. UNCHANGED <<handled, ring, screen, client, attached>>
  BY DEF ServeReplies, holderVars, clientVars
<1>3. CASE serving \in cOpen \cap sOpen
  <2>1. serving \in Conn /\ resp \in Frame /\ resp.kind # "out"
    BY <1>3, ResponsesAreFrames DEF OrderInv, TypeOK
  <2>2. s2c' = [s2c EXCEPT ![serving] = Append(@, resp)]
    BY <1>3 DEF ServeReplies
  <2> QED BY <1>1, <1>2, <2>1, <2>2, FrameOrder
<1>4. CASE ~(serving \in cOpen \cap sOpen)
  BY <1>1, <1>2, <1>4, QuietOrder DEF ServeReplies
<1> QED BY <1>3, <1>4

LEMMA HandleShutdownOrder ==
  ASSUME OrderInv, HandleShutdown
  PROVE  OrderInv'
<1>1. TypeOK'
  BY HandleShutdownTyped DEF OrderInv
<1>2. UNCHANGED <<handled, ring, screen, client, attached>>
  BY DEF HandleShutdown, holderVars, clientVars
<1>3. CASE serving \in cOpen
  <2>1. Answer \in Response
    BY DEF Response
  <2>2. serving \in Conn /\ Answer \in Frame /\ Answer.kind # "out"
    BY <1>3, <2>1, ResponsesAreFrames DEF OrderInv, TypeOK
  <2>3. s2c' = [s2c EXCEPT ![serving] = Append(@, Answer)]
    BY <1>3 DEF HandleShutdown
  <2> QED BY <1>1, <1>2, <2>2, <2>3, FrameOrder
<1>4. CASE ~(serving \in cOpen)
  BY <1>1, <1>2, <1>4, QuietOrder DEF HandleShutdown
<1> QED BY <1>3, <1>4

(* The rest of the holder writes no frame and buffers nothing.             *)
LEMMA OtherPumpOrder ==
  ASSUME OrderInv, NEW s \in Session,
         \/ ProcessExits(s) \/ WaitClosesPt(s) \/ PumpRead(s)
         \/ PumpEOF(s) \/ PumpStops(s)
  PROVE  OrderInv'
<1>1. TypeOK'
  BY PumpTyped DEF OrderInv
<1>2. UNCHANGED <<handled, ring, screen, s2c, client, attached>>
  BY DEF ProcessExits, WaitClosesPt, PumpRead, PumpEOF, PumpStops,
         serveVars, sockVars, clientVars
<1> QED BY <1>1, <1>2, QuietOrder

LEMMA OtherServeOrder ==
  ASSUME OrderInv,
         \/ Accept \/ ServeEnds \/ HandleStart \/ HandleStartFails
         \/ AttachReadsRunning \/ HandleKill \/ HandleQuery \/ Shutdown
  PROVE  OrderInv'
<1>1. TypeOK'
  BY AcceptTyped, ServeEndsTyped, HandleStartTyped, HandleStartFailsTyped,
     AttachReadsRunningTyped, HandleKillTyped, HandleQueryTyped, ShutdownTyped
     DEF OrderInv
<1>2. UNCHANGED <<handled, ring, screen, s2c>>
  BY DEF Accept, ServeEnds, HandleStart, HandleStartFails, AttachReadsRunning,
         HandleKill, HandleQuery, Shutdown, holderVars, sockVars, clientVars
<1>3. UNCHANGED <<client, attached>> \/ attached' = {}
  BY DEF Accept, ServeEnds, HandleStart, HandleStartFails, AttachReadsRunning,
         HandleKill, HandleQuery, Shutdown
<1> QED BY <1>1, <1>2, <1>3, QuietOrder

LEMMA OtherClientOrder ==
  ASSUME OrderInv, NEW c \in Conn,
         \/ Dial(c) \/ SendRequest(c)
         \/ \E s \in Session : SendAttach(c, s) \/ AttachTimesOut(c, s)
  PROVE  OrderInv'
<1>1. TypeOK'
  BY DialTyped, SendRequestTyped, SendAttachTyped, AttachTimesOutTyped DEF OrderInv
<1>2. UNCHANGED <<handled, ring, screen, s2c, client, attached>>
  BY DEF Dial, SendRequest, SendAttach, AttachTimesOut, holderVars, serveVars,
         sockVars, clientVars
<1> QED BY <1>1, <1>2, QuietOrder

LEMMA ClientClosesOrder ==
  ASSUME OrderInv, NEW c \in Conn, ClientCloses(c)
  PROVE  OrderInv'
<1>1. TypeOK' /\ UNCHANGED <<handled, ring, screen, client, attached>>
  BY ClientClosesTyped DEF OrderInv, ClientCloses, holderVars, serveVars, clientVars
<1>2. SubscribedNothingKept' /\ RingIsNewest'
  BY <1>1 DEF OrderInv, SubscribedNothingKept, RingIsNewest
<1>3. ASSUME NEW d \in Conn, NEW s \in Session
      PROVE  StreamOrdered(screen[d][s], s2c'[d], s, handled[s] - Len(ring[s]))
  <2>1. /\ screen[d][s] \in Seq(Nat) /\ s2c[d] \in Seq(Frame)
        /\ handled[s] - Len(ring[s]) \in Int
        /\ StreamOrdered(screen[d][s], s2c[d], s, handled[s] - Len(ring[s]))
    BY StreamTyped DEF OrderInv, InOrder
  <2>2. s2c'[d] = IF d = c THEN <<>> ELSE s2c[d]
    BY DEF ClientCloses, OrderInv, TypeOK
  <2> QED BY <2>1, <2>2, NothingOnWire
<1>4. InOrder'
  BY <1>1, <1>3 DEF InOrder
<1> QED BY <1>1, <1>2, <1>4 DEF OrderInv

(* Reading a frame moves output from the wire to the screen, or drops the  *)
(* frame.                                                                  *)
LEMMA ClientReadsOrder ==
  ASSUME OrderInv, NEW c \in Conn, ClientReads(c)
  PROVE  OrderInv'
<1>1. TypeOK /\ TypeOK' /\ UNCHANGED <<handled, ring, client, attached>>
  BY ClientReadsTyped DEF OrderInv, ClientReads, holderVars, serveVars
<1>2. SubscribedNothingKept' /\ RingIsNewest'
  BY <1>1 DEF OrderInv, SubscribedNothingKept, RingIsNewest
<1>3. /\ s2c[c] \in Seq(Frame) /\ s2c[c] # <<>>
      /\ s2c' = [s2c EXCEPT ![c] = Tail(@)]
  BY <1>1, FrameRead
<1>4. ASSUME NEW d \in Conn, NEW s \in Session
      PROVE  StreamOrdered(screen'[d][s], s2c'[d], s, handled[s] - Len(ring[s]))
  <2>1. /\ screen[d][s] \in Seq(Nat) /\ s2c[d] \in Seq(Frame)
        /\ handled[s] - Len(ring[s]) \in Int
        /\ StreamOrdered(screen[d][s], s2c[d], s, handled[s] - Len(ring[s]))
    BY StreamTyped DEF OrderInv, InOrder
  <2>2. s2c'[d] = IF d = c THEN Tail(s2c[d]) ELSE s2c[d]
    BY <1>1, <1>3 DEF TypeOK
  <2>3. \/ screen'[d][s] = screen[d][s]
        \/ /\ d = c /\ IsOut(Head(s2c[c]), s)
           /\ screen'[d][s] = screen[d][s] \o Head(s2c[c]).data
    <3>1. UNCHANGED screen \/ TakesOutput(c, Head(s2c[c]))
      BY DEF ClientReads, TakesExit, TakesAttached, TakesNoSession, TakesAnswer
    <3>2. CASE TakesOutput(c, Head(s2c[c]))
      <4>1. PICK f : f = Head(s2c[c])
        OBVIOUS
      <4>2. /\ f.kind = "out"
            /\ screen' = IF f.id \in sink[c]
                         THEN [screen EXCEPT ![c][f.id] = @ \o f.data]
                         ELSE screen
        BY <3>2, <4>1 DEF TakesOutput
      <4>3. screen \in [Conn -> [Session -> Seq(Nat)]]
        BY <1>1 DEF TypeOK
      <4>4. CASE d = c /\ f.id = s
        BY <4>1, <4>2, <4>3, <4>4 DEF IsOut
      <4>5. CASE ~(d = c /\ f.id = s)
        BY <4>2, <4>3, <4>5
      <4> QED BY <4>4, <4>5
    <3> QED BY <3>1, <3>2
  <2>4. CASE d # c
    BY <2>1, <2>2, <2>3, <2>4
  <2>5. CASE d = c /\ screen'[d][s] = screen[d][s]
    BY <1>3, <2>1, <2>2, <2>5, DropFirst
  <2>6. CASE /\ d = c /\ IsOut(Head(s2c[c]), s)
             /\ screen'[d][s] = screen[d][s] \o Head(s2c[c]).data
    BY <1>3, <2>1, <2>2, <2>6, TakeFirst
  <2> QED BY <2>3, <2>4, <2>5, <2>6
<1>5. InOrder'
  BY <1>1, <1>4 DEF InOrder
<1> QED BY <1>1, <1>2, <1>5 DEF OrderInv

LEMMA StepOrder == OrderInv /\ [Next]_vars => OrderInv'
<1> SUFFICES ASSUME OrderInv, [Next]_vars PROVE OrderInv'
  OBVIOUS
<1>1. ASSUME NEW s \in Session, ProcessExits(s) \/ WaitClosesPt(s) \/ PumpStep(s)
      PROVE  OrderInv'
  BY <1>1, OtherPumpOrder, PumpForwardOrder, PumpReportsOrder DEF PumpStep
<1>2. CASE ServeStep
  BY <1>2, OtherServeOrder, HandleAttachOrder, ServeRepliesOrder, HandleShutdownOrder
     DEF ServeStep
<1>3. ASSUME NEW c \in Conn, ClientStep(c)
      PROVE  OrderInv'
  BY <1>3, OtherClientOrder, ClientReadsOrder, ClientClosesOrder DEF ClientStep
<1>4. CASE UNCHANGED vars
  <2>1. TypeOK' /\ UNCHANGED <<handled, ring, screen, s2c, client, attached>>
    BY <1>4, StepTyped DEF OrderInv, vars, holderVars, serveVars, sockVars, clientVars
  <2> QED BY <2>1, QuietOrder
<1> QED BY <1>1, <1>2, <1>3, <1>4 DEF Next

(* On every connection, whatever the number of sessions, connections and   *)
(* chunks, the output of a session is shown in the order it was written,   *)
(* no chunk twice, and everything buffered is newer (InOrder).             *)
THEOREM OutputOrderInvariance == Spec => []InOrder
<1>1. OrderInv => InOrder
  BY DEF OrderInv
<1> QED BY <1>1, InitOrder, StepOrder, PTL DEF Spec

(* The buffer of a session is always the newest of its output, unbroken    *)
(* and within the capacity (RingIsNewest).                                 *)
THEOREM RingInvariance == Spec => []RingIsNewest
<1>1. OrderInv => RingIsNewest
  BY DEF OrderInv
<1> QED BY <1>1, InitOrder, StepOrder, PTL DEF Spec

-----------------------------------------------------------------------------
(***************************************************************************)
(* The exit event comes after the output.  An exit event is written when   *)
(* its session's pump is done, so that only a replay can write output      *)
(* behind it.  The client of that replay is told what running is           *)
(* afterwards, that is FALSE, and it has not been told anything else,      *)
(* because a client attaches to a session once: AskedOnce follows that one *)
(* request from the wire through the serve loop into the answer.           *)
(***************************************************************************)

Holds(q, x) == \E i \in DOMAIN q : q[i] = x
Once(q, x) == \A i, j \in DOMAIN q : q[i] = x /\ q[j] = x => i = j
ExitLast(w, s) == \A i, j \in DOMAIN w : w[i] = Exited(s) /\ IsOut(w[j], s) => j < i

Ask(s) == [op |-> "attach", id |-> s]

(* The request of c to attach to s has been handled, or is being handled.  *)
Told(c, s) == ToldRunning(c, s) \/ (pc = "attached" /\ serving = c /\ resp.id = s)

PumpInv ==
  /\ \A s \in Session : pump[s] \in {"stopped", "done"} => ~running[s]
  /\ \A s \in Session : s >= nextID => pump[s] = "none"
  /\ \A c \in Conn, s \in Session : Holds(s2c[c], Exited(s)) => pump[s] = "done"

ClientServed == client # NoConn => client = serving

AskedOnce ==
  \A c \in Conn, s \in Session :
    /\ Holds(c2s[c], Ask(s)) => s \in asked[c] /\ ~Told(c, s)
    /\ Once(c2s[c], Ask(s))
    /\ Told(c, s) => s \in asked[c]

ExitInv == TypeOK /\ PumpInv /\ ClientServed /\ AskedOnce /\ ExitAfterOutput

(* What is in a sequence, and how often, when it grows or shrinks.         *)
LEMMA AppendHolds ==
  ASSUME NEW S, NEW q \in Seq(S), NEW y \in S, NEW x
  PROVE  /\ Holds(Append(q, y), x) <=> Holds(q, x) \/ x = y
         /\ Once(q, x) /\ (x # y \/ ~Holds(q, x)) => Once(Append(q, y), x)
<1> DEFINE v == Append(q, y)
<1>1. /\ DOMAIN v = 1 .. (Len(q) + 1) /\ DOMAIN q = 1 .. Len(q) /\ Len(q) \in Nat
      /\ v[Len(q) + 1] = y /\ \A i \in DOMAIN q : v[i] = q[i]
  OBVIOUS
<1> HIDE DEF v
<1>2. \A i \in DOMAIN v : i = Len(q) + 1 \/ i \in DOMAIN q
  BY <1>1
<1>3. Holds(v, x) <=> Holds(q, x) \/ x = y
  BY <1>1, <1>2 DEF Holds
<1>4. Once(q, x) /\ (x # y \/ ~Holds(q, x)) => Once(v, x)
  BY <1>1, <1>2 DEF Holds, Once
<1> QED BY <1>3, <1>4 DEF v

LEMMA AppendAttached ==
  ASSUME NEW w \in Seq(Frame), NEW f \in Frame, NEW s,
         Holds(Append(w, f), Attached(s, TRUE))
  PROVE  Holds(w, Attached(s, TRUE)) \/ f = Attached(s, TRUE)
<1> DEFINE x == Attached(s, TRUE)
<1> HIDE DEF x
<1>1. Holds(Append(w, f), x) => Holds(w, x) \/ f = x
  BY AppendHolds
<1> QED BY <1>1 DEF x

LEMMA TailHolds ==
  ASSUME NEW S, NEW q \in Seq(S), q # <<>>, NEW x
  PROVE  /\ Holds(Tail(q), x) => Holds(q, x)
         /\ Once(q, x) => Once(Tail(q), x)
         /\ Once(q, x) /\ Head(q) = x => ~Holds(Tail(q), x)
         /\ Head(q) = x => Holds(q, x)
<1> DEFINE v == Tail(q)
<1>1. \A i \in DOMAIN v : i + 1 \in DOMAIN q /\ v[i] = q[i + 1] /\ i \in Nat \ {0}
  OBVIOUS
<1>2. 1 \in DOMAIN q /\ q[1] = Head(q)
  OBVIOUS
<1> HIDE DEF v
<1>3. Holds(v, x) => Holds(q, x)
  BY <1>1 DEF Holds
<1>4. Once(q, x) => Once(v, x)
  <2> SUFFICES ASSUME Once(q, x), NEW i \in DOMAIN v, NEW j \in DOMAIN v, v[i] = x, v[j] = x PROVE i = j
    BY DEF Once
  <2>1. i + 1 = j + 1
    BY <1>1 DEF Once
  <2> QED BY <1>1, <2>1
<1>5. ASSUME Once(q, x), Head(q) = x PROVE ~Holds(v, x)
  <2> SUFFICES ASSUME NEW i \in DOMAIN v, v[i] = x PROVE FALSE
    BY DEF Holds
  <2>1. i + 1 = 1
    BY <1>1, <1>2, <1>5 DEF Once
  <2> QED BY <1>1, <2>1
<1>6. Head(q) = x => Holds(q, x)
  BY <1>2 DEF Holds
<1> QED BY <1>3, <1>4, <1>5, <1>6 DEF v

LEMMA AppendExitLast ==
  ASSUME NEW w \in Seq(Frame), NEW f \in Frame, NEW s \in Session, ExitLast(w, s),
         ~IsOut(f, s) \/ (~Holds(w, Exited(s)) /\ f # Exited(s))
  PROVE  ExitLast(Append(w, f), s)
<1> DEFINE v == Append(w, f)
<1>1. /\ DOMAIN v = 1 .. (Len(w) + 1) /\ DOMAIN w = 1 .. Len(w) /\ Len(w) \in Nat
      /\ v[Len(w) + 1] = f /\ \A i \in DOMAIN w : v[i] = w[i]
  OBVIOUS
<1> HIDE DEF v
<1>2. \A i \in DOMAIN v : i = Len(w) + 1 \/ i \in DOMAIN w
  BY <1>1
<1>3. ExitLast(v, s)
  <2> SUFFICES ASSUME NEW i \in DOMAIN v, NEW j \in DOMAIN v, v[i] = Exited(s), IsOut(v[j], s) PROVE j < i
    BY DEF ExitLast
  <2>1. CASE ~IsOut(f, s)
    <3>1. j \in DOMAIN w /\ IsOut(w[j], s)
      BY <1>1, <1>2, <2>1
    <3> QED BY <1>1, <1>2, <3>1 DEF ExitLast
  <2>2. CASE ~Holds(w, Exited(s)) /\ f # Exited(s)
    BY <1>1, <1>2, <2>2 DEF Holds
  <2> QED BY <2>1, <2>2
<1> QED BY <1>3 DEF v

LEMMA TailExitLast ==
  ASSUME NEW w \in Seq(Frame), w # <<>>, NEW s \in Session, ExitLast(w, s)
  PROVE  ExitLast(Tail(w), s)
<1> DEFINE v == Tail(w)
<1>1. \A i \in DOMAIN v : i + 1 \in DOMAIN w /\ v[i] = w[i + 1] /\ i \in Nat
  OBVIOUS
<1> HIDE DEF v
<1>2. ExitLast(v, s)
  <2> SUFFICES ASSUME NEW i \in DOMAIN v, NEW j \in DOMAIN v, v[i] = Exited(s), IsOut(v[j], s) PROVE j < i
    BY DEF ExitLast
  <2>1. j + 1 < i + 1
    BY <1>1 DEF ExitLast
  <2> QED BY <1>1, <2>1
<1> QED BY <1>2 DEF v

-----------------------------------------------------------------------------
LEMMA InitExit == Init => ExitInv
<1> SUFFICES ASSUME Init PROVE ExitInv
  OBVIOUS
<1>1. TypeOK
  BY InitTyped
<1>2. \A c \in Conn : s2c[c] = <<>> /\ c2s[c] = <<>> /\ live[c] = {}
  BY DEF Init
<1>3. PumpInv /\ ClientServed
  BY <1>2 DEF Init, PumpInv, ClientServed, Holds
<1>4. \A c \in Conn, s \in Session : ~Told(c, s)
  BY <1>2 DEF Init, Told, ToldRunning
<1>5. AskedOnce
  BY <1>2, <1>4 DEF AskedOnce, Holds, Once
<1>6. ExitAfterOutput
  BY <1>4 DEF ExitAfterOutput, Told
<1> QED BY <1>1, <1>3, <1>5, <1>6 DEF ExitInv

(* What ExitInv looks at beside the pumps, when nothing is told.           *)
NoNews == \A c \in Conn, s \in Session : Told(c, s)' => Told(c, s)

(* Requests are read, or sent that attach to nothing.                      *)
NoAttach ==
  \A c \in Conn :
    \/ c2s'[c] = c2s[c]
    \/ c2s[c] # <<>> /\ c2s'[c] = Tail(c2s[c])
    \/ \E r \in Request : r.op # "attach" /\ c2s'[c] = Append(c2s[c], r)

LEMMA KeepsAsked ==
  ASSUME ExitInv, NoAttach, NoNews, \A c \in Conn : asked[c] \subseteq asked'[c]
  PROVE  AskedOnce'
<1> SUFFICES ASSUME NEW c \in Conn, NEW s \in Session
             PROVE  /\ Holds(c2s'[c], Ask(s)) => s \in asked'[c] /\ ~Told(c, s)'
                    /\ Once(c2s'[c], Ask(s))
                    /\ Told(c, s)' => s \in asked'[c]
  BY DEF AskedOnce
<1>1. c2s[c] \in Seq(Request)
  BY DEF ExitInv, TypeOK
<1>2. /\ Holds(c2s'[c], Ask(s)) => Holds(c2s[c], Ask(s))
      /\ Once(c2s[c], Ask(s)) => Once(c2s'[c], Ask(s))
  <2>1. CASE c2s'[c] = c2s[c]
    BY <2>1
  <2>2. CASE c2s[c] # <<>> /\ c2s'[c] = Tail(c2s[c])
    BY <1>1, <2>2, TailHolds
  <2>3. ASSUME NEW r \in Request, r.op # "attach", c2s'[c] = Append(c2s[c], r)
        PROVE  /\ Holds(c2s'[c], Ask(s)) => Holds(c2s[c], Ask(s))
               /\ Once(c2s[c], Ask(s)) => Once(c2s'[c], Ask(s))
    <3>1. Ask(s) # r
      BY <2>3 DEF Ask
    <3> QED BY <1>1, <2>3, <3>1, AppendHolds
  <2> QED BY <2>1, <2>2, <2>3 DEF NoAttach
<1>3. asked[c] \subseteq asked'[c] /\ (Told(c, s)' => Told(c, s))
  BY DEF NoNews
<1> QED BY <1>2, <1>3 DEF ExitInv, AskedOnce

LEMMA KeepsPumps ==
  ASSUME PumpInv, UNCHANGED <<nextID, running, pump>>,
         \A c \in Conn, s \in Session : Holds(s2c'[c], Exited(s)) => Holds(s2c[c], Exited(s))
  PROVE  PumpInv'
  BY DEF PumpInv

(* Told, as it is used below.                                              *)
LEMMA ToldCases ==
  ASSUME NEW c \in Conn, NEW s \in Session
  PROVE  /\ ToldRunning(c, s) <=> \/ s \in live[c] \/ Holds(s2c[c], Attached(s, TRUE))
                                  \/ pc = "reply" /\ serving = c /\ resp = Attached(s, TRUE)
         /\ Told(c, s) <=> \/ s \in live[c] \/ Holds(s2c[c], Attached(s, TRUE))
                           \/ pc = "reply" /\ serving = c /\ resp = Attached(s, TRUE)
                           \/ pc = "attached" /\ serving = c /\ resp.id = s
  BY DEF Told, ToldRunning, Holds

(* Steps that write no frame and tell nobody that a session runs.          *)
LEMMA QuietExit ==
  ASSUME ExitInv, TypeOK', PumpInv', ClientServed', UNCHANGED <<s2c, live>>, NoAttach,
         \A c \in Conn : asked[c] \subseteq asked'[c],
         \/ UNCHANGED <<pc, serving, resp>>
         \/ pc' \notin {"attached", "reply"}
         \/ pc' = "reply" /\ resp' = Answer
  PROVE  ExitInv'
<1>1. \A c \in Conn, s \in Session :
        (Told(c, s)' => Told(c, s)) /\ (ToldRunning(c, s)' => ToldRunning(c, s))
  <2>1. \A s \in Session : Answer # Attached(s, TRUE)
    BY DEF Answer, Attached
  <2> QED BY <2>1 DEF Told, ToldRunning
<1>2. AskedOnce'
  BY <1>1, KeepsAsked DEF NoNews
<1>3. ExitAfterOutput'
  BY <1>1 DEF ExitInv, ExitAfterOutput
<1> QED BY <1>2, <1>3 DEF ExitInv

LEMMA OtherPumpExit ==
  ASSUME ExitInv, NEW s \in Session,
         \/ ProcessExits(s) \/ WaitClosesPt(s) \/ PumpRead(s)
         \/ PumpEOF(s) \/ PumpStops(s)
  PROVE  ExitInv'
<1>1. TypeOK'
  BY PumpTyped DEF ExitInv
<1>2. UNCHANGED <<nextID, s2c, live, asked, c2s, pc, serving, resp, client>>
  BY DEF ProcessExits, WaitClosesPt, PumpRead, PumpEOF, PumpStops,
         serveVars, sockVars, clientVars
<1>3. /\ \A r \in Session \ {s} : pump'[r] = pump[r] /\ running'[r] = running[r]
      /\ \/ pump'[s] = pump[s] /\ running'[s] = running[s]
         \/ pump'[s] \in {"holding", "ended"} /\ pump[s] = "reading"
         \/ pump'[s] = "stopped" /\ pump[s] = "ended" /\ ~running'[s]
  BY DEF ExitInv, TypeOK, ProcessExits, WaitClosesPt, PumpRead, PumpEOF, PumpStops
<1>4. PumpInv'
  BY <1>2, <1>3 DEF ExitInv, PumpInv
<1>5. ClientServed' /\ NoAttach
  BY <1>2 DEF ExitInv, ClientServed, NoAttach
<1> QED BY <1>1, <1>2, <1>4, <1>5, QuietExit

(* Frames that say nothing about an attach.                                *)
LEMMA SilentFrame ==
  ASSUME ExitInv, UNCHANGED <<live, asked, c2s, serving, resp>>, NEW d \in Conn, NEW f \in Frame,
         pc' = pc \/ pc' \notin {"attached", "reply"},
         f.kind # "attached", s2c' = [s2c EXCEPT ![d] = Append(@, f)]
  PROVE  /\ \A c \in Conn, s \in Session : ToldRunning(c, s)' => ToldRunning(c, s)
         /\ NoNews /\ AskedOnce'
<1>1. ASSUME NEW c \in Conn, NEW s \in Session
      PROVE  Holds(s2c'[c], Attached(s, TRUE)) => Holds(s2c[c], Attached(s, TRUE))
  <2>1. s2c[c] \in Seq(Frame) /\ (c # d => s2c'[c] = s2c[c])
        /\ (c = d => s2c'[c] = Append(s2c[c], f))
    BY DEF ExitInv, TypeOK
  <2>2. f # Attached(s, TRUE)
    BY DEF Attached
  <2>3. Holds(Append(s2c[c], f), Attached(s, TRUE)) => Holds(s2c[c], Attached(s, TRUE))
    BY <2>1, <2>2, AppendAttached
  <2> QED BY <2>1, <2>3
<1>2. NoNews /\ \A c \in Conn, s \in Session : ToldRunning(c, s)' => ToldRunning(c, s)
  BY <1>1 DEF NoNews, Told, ToldRunning, Holds
<1>3. NoAttach /\ \A c \in Conn : asked[c] \subseteq asked'[c]
  BY DEF NoAttach
<1> QED BY <1>2, <1>3, KeepsAsked

LEMMA PumpForwardExit ==
  ASSUME ExitInv, NEW s \in Session, PumpForward(s)
  PROVE  ExitInv'
<1>1. TypeOK' /\ UNCHANGED <<nextID, running, live, asked, c2s, pc, serving, resp>>
  BY PumpForwardTyped DEF ExitInv, PumpForward, clientVars
<1>2. /\ pump[s] = "holding" /\ pump'[s] = "reading"
      /\ \A r \in Session \ {s} : pump'[r] = pump[r]
  BY DEF PumpForward, ExitInv, TypeOK
<1>3. CASE s \in attached /\ CanWrite
  <2>1. PICK d \in Seq(Nat) : d = <<handled[s] + 1>>
    <3>1. <<handled[s] + 1>> \in Seq(Nat)
      BY DEF ExitInv, TypeOK
    <3> QED BY <3>1
  <2>2. /\ s2c' = [s2c EXCEPT ![client] = Append(@, Out(s, d))] /\ client' = client
        /\ client \in Conn /\ Out(s, d) \in Frame
        /\ Out(s, d).kind # "attached" /\ \A r \in Session : Out(s, d) # Exited(r)
    BY <1>3, <2>1, FramesTyped DEF PumpForward, WriteToClient, CanWrite, ExitInv, TypeOK, Out, Exited
  <2>3. /\ AskedOnce'
        /\ \A c \in Conn, r \in Session : ToldRunning(c, r)' => ToldRunning(c, r)
    BY <1>1, <2>2, SilentFrame
  <2>4. ASSUME NEW c \in Conn, NEW r \in Session
        PROVE  /\ Holds(s2c'[c], Exited(r)) => Holds(s2c[c], Exited(r))
               /\ ExitLast(s2c[c], r) => ExitLast(s2c'[c], r)
    <3>1. s2c[c] \in Seq(Frame) /\ s2c'[c] = IF c = client THEN Append(s2c[c], Out(s, d)) ELSE s2c[c]
      BY <2>2 DEF ExitInv, TypeOK
    <3>2. ~IsOut(Out(s, d), r) \/ ~Holds(s2c[c], Exited(r))
      BY <1>2 DEF IsOut, Out, ExitInv, PumpInv
    <3> QED BY <2>2, <3>1, <3>2, AppendHolds, AppendExitLast
  <2>5. PumpInv' /\ ClientServed'
    BY <1>1, <1>2, <2>2, <2>4 DEF ExitInv, PumpInv, ClientServed
  <2>6. ExitAfterOutput'
    BY <2>3, <2>4 DEF ExitInv, ExitAfterOutput, ExitLast
  <2> QED BY <1>1, <2>3, <2>5, <2>6 DEF ExitInv
<1>4. CASE ~(s \in attached /\ CanWrite)
  <2>1. UNCHANGED s2c /\ (client' = NoConn \/ client' = client)
    BY <1>4 DEF PumpForward, WriteFails
  <2>2. PumpInv' /\ ClientServed' /\ NoAttach
    BY <1>1, <1>2, <2>1 DEF ExitInv, PumpInv, ClientServed, NoAttach
  <2> QED BY <1>1, <2>1, <2>2, QuietExit
<1> QED BY <1>3, <1>4

LEMMA PumpReportsExit ==
  ASSUME ExitInv, NEW s \in Session, PumpReports(s)
  PROVE  ExitInv'
<1>1. TypeOK' /\ UNCHANGED <<nextID, running, live, asked, c2s, pc, serving, resp>>
  BY PumpReportsTyped DEF ExitInv, PumpReports, clientVars
<1>2. /\ pump[s] = "stopped" /\ pump'[s] = "done"
      /\ \A r \in Session \ {s} : pump'[r] = pump[r]
  BY DEF PumpReports, ExitInv, TypeOK
<1>3. CASE CanWrite /\ WriteToClient(Exited(s))
  <2>1. /\ s2c' = [s2c EXCEPT ![client] = Append(@, Exited(s))] /\ client' = client
        /\ client \in Conn /\ Exited(s) \in Frame /\ Exited(s).kind = "exited"
        /\ \A r \in Session : Exited(s) = Exited(r) => r = s
    BY <1>3, FramesTyped DEF WriteToClient, CanWrite, ExitInv, TypeOK, Exited
  <2>2. /\ AskedOnce'
        /\ \A c \in Conn, r \in Session : ToldRunning(c, r)' => ToldRunning(c, r)
    BY <1>1, <2>1, SilentFrame
  <2>3. ASSUME NEW c \in Conn, NEW r \in Session
        PROVE  /\ Holds(s2c'[c], Exited(r)) => Holds(s2c[c], Exited(r)) \/ r = s
               /\ ExitLast(s2c[c], r) => ExitLast(s2c'[c], r)
    <3>1. s2c[c] \in Seq(Frame) /\ s2c'[c] = IF c = client THEN Append(s2c[c], Exited(s)) ELSE s2c[c]
      BY <2>1 DEF ExitInv, TypeOK
    <3>2. ~IsOut(Exited(s), r)
      BY <2>1 DEF IsOut
    <3> QED BY <2>1, <3>1, <3>2, AppendHolds, AppendExitLast
  <2>4. PumpInv' /\ ClientServed'
    BY <1>1, <1>2, <2>1, <2>3 DEF ExitInv, PumpInv, ClientServed
  <2>5. ExitAfterOutput'
    BY <2>2, <2>3 DEF ExitInv, ExitAfterOutput, ExitLast
  <2> QED BY <1>1, <2>2, <2>4, <2>5 DEF ExitInv
<1>4. CASE WriteFails
  <2>1. UNCHANGED s2c /\ (client' = NoConn \/ client' = client)
    BY <1>4 DEF WriteFails
  <2>2. PumpInv' /\ ClientServed' /\ NoAttach
    BY <1>1, <1>2, <2>1 DEF ExitInv, PumpInv, ClientServed, NoAttach
  <2> QED BY <1>1, <2>1, <2>2, QuietExit
<1> QED BY <1>3, <1>4 DEF PumpReports

(* The serve loop, while it attaches nobody.                               *)
LEMMA OtherServeExit ==
  ASSUME ExitInv,
         \/ Accept \/ ServeEnds \/ HandleStart \/ HandleStartFails
         \/ HandleKill \/ HandleQuery \/ Shutdown
  PROVE  ExitInv'
<1>1. TypeOK'
  BY AcceptTyped, ServeEndsTyped, HandleStartTyped, HandleStartFailsTyped,
     HandleKillTyped, HandleQueryTyped, ShutdownTyped DEF ExitInv
<1>2. UNCHANGED <<s2c, live, asked>>
  BY DEF Accept, ServeEnds, HandleStart, HandleStartFails, HandleKill, HandleQuery, Shutdown,
         clientVars
<1>3. pc' \notin {"attached", "reply"} \/ (pc' = "reply" /\ resp' = Answer)
  BY DEF Accept, ServeEnds, HandleStart, HandleStartFails, HandleKill, HandleQuery, Shutdown,
         Prepares
<1>4. NoAttach
  <2>1. CASE Accept \/ ServeEnds \/ Shutdown
    BY <2>1 DEF Accept, ServeEnds, Shutdown, NoAttach
  <2>2. CASE HandleStart \/ HandleStartFails \/ HandleKill \/ HandleQuery
    <3>1. c2s[serving] # <<>> /\ c2s' = [c2s EXCEPT ![serving] = Tail(@)]
      BY <2>2 DEF HandleStart, HandleStartFails, HandleKill, HandleQuery, Reads
    <3> QED BY <3>1 DEF NoAttach, ExitInv, TypeOK
  <2> QED BY <2>1, <2>2
<1>5. PumpInv'
  <2>1. CASE HandleStart
    <3>1. /\ nextID' = nextID + 1 /\ nextID \in Session /\ nextID \in Int /\ pump[nextID] = "none"
          /\ \A r \in Session : r \in Int
          /\ pump'[nextID] = "reading"
          /\ \A r \in Session \ {nextID} : pump'[r] = pump[r] /\ running'[r] = running[r]
      BY <2>1 DEF HandleStart, ExitInv, PumpInv, TypeOK, Session
    <3> QED BY <1>2, <3>1 DEF ExitInv, PumpInv
  <2>2. CASE UNCHANGED <<nextID, running, pump>>
    BY <1>2, <2>2, KeepsPumps DEF ExitInv
  <2> QED
    BY <2>1, <2>2 DEF Accept, ServeEnds, HandleStart, HandleStartFails, HandleKill, HandleQuery,
                      Shutdown, holderVars
<1>6. ClientServed'
  BY DEF ExitInv, ClientServed, Accept, ServeEnds, HandleStart, HandleStartFails, HandleKill,
         HandleQuery, Shutdown
<1> QED BY <1>1, <1>2, <1>3, <1>4, <1>5, <1>6, QuietExit

(* The attach of s by c: c's request leaves the wire and is being handled. *)
LEMMA AttachExit ==
  ASSUME ExitInv, HandleAttach
  PROVE  ExitInv'
<1>1. /\ TypeOK' /\ pc = "read" /\ c2s[serving] # <<>> /\ serving \in Conn
      /\ UNCHANGED <<nextID, running, pump, live, asked, serving>>
      /\ c2s' = [c2s EXCEPT ![serving] = Tail(@)]
  BY HandleAttachTyped DEF ExitInv, TypeOK, HandleAttach, Reads, clientVars
<1>2. PICK s \in Session : Head(c2s[serving]) = Ask(s) /\ (AttachUnknown(s) \/ AttachReplays(s))
  <2>1. c2s[serving] \in Seq(Request) /\ Head(c2s[serving]) \in Request
    BY <1>1 DEF ExitInv, TypeOK
  <2>2. Head(c2s[serving]).op = "attach"
    BY DEF HandleAttach, Reads
  <2>3. /\ Head(c2s[serving]).id \in Session
        /\ Head(c2s[serving]) = [op |-> "attach", id |-> Head(c2s[serving]).id]
    BY <2>1, <2>2 DEF Request
  <2> QED BY <2>3 DEF HandleAttach, Ask
<1>3. \A c \in Conn : c2s[c] \in Seq(Request) /\ s2c[c] \in Seq(Frame)
                      /\ c2s'[c] = IF c = serving THEN Tail(c2s[c]) ELSE c2s[c]
  BY <1>1 DEF ExitInv, TypeOK
<1>4. /\ s \in asked[serving] /\ ~Told(serving, s)
      /\ ~Holds(c2s'[serving], Ask(s))
  BY <1>1, <1>2, <1>3, TailHolds DEF ExitInv, AskedOnce
<1>5. \/ s2c' = s2c
      \/ /\ client = serving
         /\ \E d \in Seq(Nat) : s2c' = [s2c EXCEPT ![client] = Append(@, Out(s, d))]
  BY <1>2, ReplayCases DEF ExitInv, TypeOK, AttachUnknown, ClientServed, CanWrite
<1>6. ASSUME NEW c \in Conn, NEW r \in Session
      PROVE  /\ Holds(s2c'[c], Attached(r, TRUE)) => Holds(s2c[c], Attached(r, TRUE))
             /\ Holds(s2c'[c], Exited(r)) => Holds(s2c[c], Exited(r))
             /\ c # serving \/ r # s => (ExitLast(s2c[c], r) => ExitLast(s2c'[c], r))
  <2>1. CASE s2c'[c] = s2c[c]
    BY <2>1
  <2>2. ASSUME NEW d \in Seq(Nat), c = serving, s2c'[c] = Append(s2c[c], Out(s, d))
        PROVE  /\ Holds(s2c'[c], Attached(r, TRUE)) => Holds(s2c[c], Attached(r, TRUE))
               /\ Holds(s2c'[c], Exited(r)) => Holds(s2c[c], Exited(r))
               /\ r # s => (ExitLast(s2c[c], r) => ExitLast(s2c'[c], r))
    <3>1. /\ Out(s, d) \in Frame /\ Out(s, d) # Attached(r, TRUE) /\ Out(s, d) # Exited(r)
          /\ r # s => ~IsOut(Out(s, d), r)
      BY FramesTyped DEF Out, Attached, Exited, IsOut
    <3>2. Holds(Append(s2c[c], Out(s, d)), Attached(r, TRUE)) => Holds(s2c[c], Attached(r, TRUE))
      BY <1>3, <3>1, AppendAttached
    <3>3. Holds(Append(s2c[c], Out(s, d)), Exited(r)) => Holds(s2c[c], Exited(r))
      BY <1>3, <3>1, AppendHolds
    <3>4. r # s => (ExitLast(s2c[c], r) => ExitLast(Append(s2c[c], Out(s, d)), r))
      BY <1>3, <3>1, AppendExitLast
    <3> QED BY <2>2, <3>2, <3>3, <3>4
  <2>3. s2c'[c] = s2c[c] \/ \E d \in Seq(Nat) : c = serving /\ s2c'[c] = Append(s2c[c], Out(s, d))
    BY <1>5 DEF ExitInv, TypeOK
  <2> QED BY <2>1, <2>2, <2>3
<1>7. /\ \/ pc' = "reply" /\ resp' = NoSession(s)
         \/ pc' = "attached" /\ resp' = Attached(s, FALSE)
      /\ \A r \in Session : NoSession(s) # Attached(r, TRUE)
      /\ Attached(s, FALSE).id = s
  BY <1>2 DEF AttachUnknown, AttachReplays, Prepares, NoSession, Attached
<1>8. ASSUME NEW c \in Conn, NEW r \in Session
      PROVE  /\ ToldRunning(c, r)' => ToldRunning(c, r)
             /\ Told(c, r)' => Told(c, r) \/ (c = serving /\ r = s)
  BY <1>1, <1>6, <1>7 DEF Told, ToldRunning, Holds
<1>9. PumpInv' /\ ClientServed'
  <2>1. client' = client \/ client' = NoConn
    BY <1>2 DEF AttachUnknown, AttachReplays
  <2> QED BY <1>1, <1>6, <2>1, KeepsPumps DEF ExitInv, ClientServed
<1>10. AskedOnce'
  <2> SUFFICES ASSUME NEW c \in Conn, NEW r \in Session
               PROVE  /\ Holds(c2s'[c], Ask(r)) => r \in asked[c] /\ ~Told(c, r)'
                      /\ Once(c2s'[c], Ask(r))
                      /\ Told(c, r)' => r \in asked[c]
    BY <1>1 DEF AskedOnce
  <2>1. /\ Holds(c2s'[c], Ask(r)) => Holds(c2s[c], Ask(r))
        /\ Once(c2s'[c], Ask(r))
    BY <1>1, <1>3, TailHolds DEF ExitInv, AskedOnce
  <2> QED BY <1>4, <1>8, <2>1 DEF ExitInv, AskedOnce
<1>11. ExitAfterOutput'
  <2> SUFFICES ASSUME NEW c \in Conn, NEW r \in Session, ToldRunning(c, r)'
               PROVE  ExitLast(s2c'[c], r)
    BY DEF ExitAfterOutput, ExitLast
  <2>1. ToldRunning(c, r) /\ ~(c = serving /\ r = s)
    BY <1>4, <1>8 DEF Told
  <2> QED BY <1>6, <2>1 DEF ExitInv, ExitAfterOutput, ExitLast
<1> QED BY <1>1, <1>9, <1>10, <1>11 DEF ExitInv

(* Only a client whose session runs is told so, and then nothing has been  *)
(* reported of it.                                                         *)
LEMMA ReadsRunningExit ==
  ASSUME ExitInv, AttachReadsRunning
  PROVE  ExitInv'
<1>1. /\ TypeOK' /\ pc = "attached" /\ pc' = "reply" /\ resp' = Attached(resp.id, running[resp.id])
      /\ resp.id \in Session
      /\ UNCHANGED <<nextID, running, pump, s2c, c2s, client, live, asked, serving>>
  BY AttachReadsRunningTyped
     DEF ExitInv, TypeOK, AttachReadsRunning, Prepares, holderVars, sockVars, clientVars, Response
<1>2. ASSUME NEW c \in Conn, NEW r \in Session
      PROVE  /\ Told(c, r)' => Told(c, r)
             /\ ToldRunning(c, r)' => ToldRunning(c, r) \/ running[r]
  <2>1. Attached(resp.id, running[resp.id]) = Attached(r, TRUE) => resp.id = r /\ running[r]
    <3>1. Attached(resp.id, running[resp.id]).id = resp.id
          /\ Attached(resp.id, running[resp.id]).running = running[resp.id]
          /\ Attached(r, TRUE).id = r /\ Attached(r, TRUE).running = TRUE
      BY DEF Attached
    <3> QED BY <3>1
  <2> QED BY <1>1, <2>1 DEF Told, ToldRunning
<1>3. AskedOnce'
  BY <1>1, <1>2, KeepsAsked DEF NoNews, NoAttach
<1>4. PumpInv' /\ ClientServed'
  BY <1>1, KeepsPumps DEF ExitInv, ClientServed
<1>5. ExitAfterOutput'
  <2> SUFFICES ASSUME NEW c \in Conn, NEW r \in Session, ToldRunning(c, r)'
               PROVE  ExitLast(s2c[c], r)
    BY <1>1 DEF ExitAfterOutput, ExitLast
  <2>1. CASE running[r]
    BY <2>1 DEF ExitInv, PumpInv, ExitLast, Holds
  <2>2. CASE ToldRunning(c, r)
    BY <2>2 DEF ExitInv, ExitAfterOutput, ExitLast
  <2> QED BY <1>2, <2>1, <2>2
<1> QED BY <1>1, <1>3, <1>4, <1>5 DEF ExitInv

LEMMA ServeRepliesExit ==
  ASSUME ExitInv, ServeReplies
  PROVE  ExitInv'
<1>1. /\ TypeOK' /\ pc = "reply" /\ pc' = "read"
      /\ UNCHANGED <<nextID, running, pump, c2s, client, live, asked, serving, resp>>
  BY ServeRepliesTyped DEF ExitInv, ServeReplies, holderVars, clientVars
<1>2. ASSUME NEW c \in Conn, NEW r \in Session
      PROVE  /\ Holds(s2c'[c], Attached(r, TRUE)) =>
                  Holds(s2c[c], Attached(r, TRUE)) \/ (c = serving /\ resp = Attached(r, TRUE))
             /\ Holds(s2c'[c], Exited(r)) => Holds(s2c[c], Exited(r))
             /\ ExitLast(s2c[c], r) => ExitLast(s2c'[c], r)
  <2>1. s2c[c] \in Seq(Frame)
    BY DEF ExitInv, TypeOK
  <2>2. CASE s2c'[c] = s2c[c]
    BY <2>2
  <2>3. CASE c = serving /\ s2c'[c] = Append(s2c[c], resp)
    <3>1. resp \in Frame /\ resp.kind # "out" /\ resp # Exited(r) /\ ~IsOut(resp, r)
      <4>1. resp \in Response
        BY DEF ExitInv, TypeOK
      <4>2. resp \in Frame /\ resp.kind # "out"
        BY <4>1, ResponsesAreFrames
      <4>3. resp.kind # "exited"
        BY <4>1 DEF Response, Answer
      <4> QED BY <4>2, <4>3 DEF Exited, IsOut
    <3>2. Holds(Append(s2c[c], resp), Attached(r, TRUE)) => Holds(s2c[c], Attached(r, TRUE)) \/ resp = Attached(r, TRUE)
      BY <2>1, <3>1, AppendAttached
    <3>3. Holds(Append(s2c[c], resp), Exited(r)) => Holds(s2c[c], Exited(r))
      BY <2>1, <3>1, AppendHolds
    <3>4. ExitLast(s2c[c], r) => ExitLast(Append(s2c[c], resp), r)
      BY <2>1, <3>1, AppendExitLast
    <3> QED BY <2>3, <3>1, <3>2, <3>3, <3>4
  <2> QED BY <2>2, <2>3, ZenonT(30) DEF ServeReplies, ExitInv, TypeOK
<1>3. ASSUME NEW c \in Conn, NEW r \in Session
      PROVE  (Told(c, r)' => Told(c, r)) /\ (ToldRunning(c, r)' => ToldRunning(c, r))
  BY <1>1, <1>2 DEF Told, ToldRunning, Holds
<1>4. AskedOnce'
  BY <1>1, <1>3, KeepsAsked DEF NoNews, NoAttach
<1>5. PumpInv' /\ ClientServed'
  BY <1>1, <1>2, KeepsPumps DEF ExitInv, ClientServed
<1>6. ExitAfterOutput'
  BY <1>2, <1>3 DEF ExitInv, ExitAfterOutput, ExitLast
<1> QED BY <1>1, <1>4, <1>5, <1>6 DEF ExitInv

LEMMA HandleShutdownExit ==
  ASSUME ExitInv, HandleShutdown
  PROVE  ExitInv'
<1>1. /\ TypeOK' /\ pc' = "shutdown" /\ c2s[serving] # <<>> /\ serving \in Conn
      /\ c2s' = [c2s EXCEPT ![serving] = Tail(@)]
      /\ UNCHANGED <<nextID, running, pump, client, live, asked, serving, resp>>
  BY HandleShutdownTyped DEF ExitInv, TypeOK, HandleShutdown, Reads, holderVars, clientVars
<1>2. ASSUME NEW c \in Conn, NEW r \in Session
      PROVE  /\ Holds(s2c'[c], Attached(r, TRUE)) => Holds(s2c[c], Attached(r, TRUE))
             /\ Holds(s2c'[c], Exited(r)) => Holds(s2c[c], Exited(r))
             /\ ExitLast(s2c[c], r) => ExitLast(s2c'[c], r)
  <2>1. s2c[c] \in Seq(Frame)
    BY DEF ExitInv, TypeOK
  <2>2. CASE s2c'[c] = s2c[c]
    BY <2>2
  <2>3. CASE s2c'[c] = Append(s2c[c], Answer)
    <3>1. /\ Answer \in Frame /\ Answer # Exited(r) /\ ~IsOut(Answer, r) /\ Answer # Attached(r, TRUE)
      BY DEF Frame, Exited, Answer, IsOut, Attached
    <3>2. Holds(Append(s2c[c], Answer), Attached(r, TRUE)) => Holds(s2c[c], Attached(r, TRUE)) \/ Answer = Attached(r, TRUE)
      BY <2>1, <3>1, AppendAttached
    <3>3. Holds(Append(s2c[c], Answer), Exited(r)) => Holds(s2c[c], Exited(r))
      BY <2>1, <3>1, AppendHolds
    <3>4. ExitLast(s2c[c], r) => ExitLast(Append(s2c[c], Answer), r)
      BY <2>1, <3>1, AppendExitLast
    <3> QED BY <2>3, <3>1, <3>2, <3>3, <3>4
  <2> QED BY <2>2, <2>3, ZenonT(30) DEF HandleShutdown, ExitInv, TypeOK
<1>3. ASSUME NEW c \in Conn, NEW r \in Session
      PROVE  (Told(c, r)' => Told(c, r)) /\ (ToldRunning(c, r)' => ToldRunning(c, r))
  BY <1>1, <1>2 DEF Told, ToldRunning, Holds
<1>4. NoAttach
  BY <1>1 DEF NoAttach, ExitInv, TypeOK
<1>5. AskedOnce'
  BY <1>1, <1>3, <1>4, KeepsAsked DEF NoNews
<1>6. PumpInv' /\ ClientServed'
  BY <1>1, <1>2, KeepsPumps DEF ExitInv, ClientServed
<1>7. ExitAfterOutput'
  BY <1>2, <1>3 DEF ExitInv, ExitAfterOutput, ExitLast
<1> QED BY <1>1, <1>5, <1>6, <1>7 DEF ExitInv

(* The clients.                                                            *)
LEMMA OtherClientExit ==
  ASSUME ExitInv, NEW c \in Conn,
         Dial(c) \/ SendRequest(c) \/ \E s \in Session : AttachTimesOut(c, s)
  PROVE  ExitInv'
<1>1. TypeOK' /\ UNCHANGED <<nextID, running, pump, s2c, client, live, asked, pc, serving, resp>>
  BY DialTyped, SendRequestTyped, AttachTimesOutTyped
     DEF ExitInv, Dial, SendRequest, AttachTimesOut, holderVars, serveVars, sockVars
<1>2. NoAttach
  <2>1. CASE SendRequest(c)
    <3>1. PICK req \in Request : req.op # "attach" /\ c2s' = [c2s EXCEPT ![c] = Append(@, req)]
      BY <2>1, HolderAssumption DEF SendRequest, Sends, Request
    <3> QED BY <3>1 DEF NoAttach, ExitInv, TypeOK
  <2>2. CASE Dial(c) \/ \E s \in Session : AttachTimesOut(c, s)
    BY <2>2 DEF Dial, AttachTimesOut, sockVars, NoAttach
  <2> QED BY <2>1, <2>2
<1>3. PumpInv' /\ ClientServed'
  BY <1>1, KeepsPumps DEF ExitInv, ClientServed
<1> QED BY <1>1, <1>2, <1>3, QuietExit

LEMMA SendAttachExit ==
  ASSUME ExitInv, NEW d \in Conn, NEW s \in Session, SendAttach(d, s)
  PROVE  ExitInv'
<1>1. /\ TypeOK' /\ s \notin asked[d]
      /\ UNCHANGED <<nextID, running, pump, s2c, client, live, pc, serving, resp>>
      /\ c2s' = [c2s EXCEPT ![d] = Append(@, Ask(s))] /\ asked' = [asked EXCEPT ![d] = @ \cup {s}]
  BY SendAttachTyped DEF ExitInv, SendAttach, Sends, holderVars, serveVars, Ask
<1>2. PumpInv' /\ ClientServed'
  BY <1>1, KeepsPumps DEF ExitInv, ClientServed
<1>3. \A c \in Conn, r \in Session :
        (Told(c, r)' <=> Told(c, r)) /\ (ToldRunning(c, r)' <=> ToldRunning(c, r))
  BY <1>1 DEF Told, ToldRunning
<1>4. AskedOnce'
  <2> SUFFICES ASSUME NEW c \in Conn, NEW r \in Session
               PROVE  /\ Holds(c2s'[c], Ask(r)) => r \in asked'[c] /\ ~Told(c, r)
                      /\ Once(c2s'[c], Ask(r))
                      /\ Told(c, r) => r \in asked'[c]
    BY <1>3 DEF AskedOnce
  <2>1. /\ Holds(c2s[c], Ask(r)) => r \in asked[c] /\ ~Told(c, r)
        /\ Once(c2s[c], Ask(r)) /\ (Told(c, r) => r \in asked[c])
        /\ asked[c] \subseteq asked'[c]
    BY <1>1 DEF ExitInv, AskedOnce, TypeOK
  <2>2. CASE c # d
    BY <1>1, <2>1, <2>2 DEF ExitInv, TypeOK
  <2>3. CASE c = d
    <3>1. /\ c2s[c] \in Seq(Request) /\ Ask(s) \in Request /\ c2s'[c] = Append(c2s[c], Ask(s))
          /\ s \in asked'[c]
      BY <1>1, <2>3 DEF ExitInv, TypeOK, Ask, Request
    <3>2. Ask(r) = Ask(s) => r = s
      <4>1. Ask(r).id = r /\ Ask(s).id = s
        BY DEF Ask
      <4> QED BY <4>1
    <3>3. r = s => ~Holds(c2s[c], Ask(r)) /\ ~Told(c, r)
      BY <1>1, <2>1, <2>3
    <3> QED BY <2>1, <3>1, <3>2, <3>3, AppendHolds
  <2> QED BY <2>2, <2>3
<1>5. ExitAfterOutput'
  BY <1>1, <1>3 DEF ExitInv, ExitAfterOutput
<1> QED BY <1>1, <1>2, <1>4, <1>5 DEF ExitInv

LEMMA ClientReadsExit ==
  ASSUME ExitInv, NEW d \in Conn, ClientReads(d)
  PROVE  ExitInv'
<1>1. /\ TypeOK' /\ s2c[d] \in Seq(Frame) /\ s2c[d] # <<>>
      /\ s2c' = [s2c EXCEPT ![d] = Tail(@)]
      /\ UNCHANGED <<nextID, running, pump, c2s, client, asked, pc, serving, resp>>
  BY ClientReadsTyped, FrameRead DEF ExitInv, holderVars, serveVars
<1>2. ASSUME NEW c \in Conn, NEW r \in Session
      PROVE  /\ Holds(s2c'[c], Attached(r, TRUE)) => Holds(s2c[c], Attached(r, TRUE))
             /\ Holds(s2c'[c], Exited(r)) => Holds(s2c[c], Exited(r))
             /\ ExitLast(s2c[c], r) => ExitLast(s2c'[c], r)
  <2>1. s2c[c] \in Seq(Frame) /\ s2c'[c] = IF c = d THEN Tail(s2c[c]) ELSE s2c[c]
    BY <1>1 DEF ExitInv, TypeOK
  <2> QED BY <1>1, <2>1, TailHolds, TailExitLast
<1>3. ASSUME NEW c \in Conn, NEW r \in Session, r \in live'[c]
      PROVE  r \in live[c] \/ Holds(s2c[c], Attached(r, TRUE))
  <2>1. PICK f \in Frame :
          /\ f = Head(s2c[d])
          /\ \/ TakesOutput(d, f) \/ TakesExit(d, f) \/ TakesAttached(d, f)
             \/ TakesNoSession(d, f) \/ TakesAnswer(f)
    BY FrameRead DEF ExitInv
  <2>2. CASE TakesAttached(d, f)
    <3>1. CASE r \in live[c]
      BY <3>1
    <3>2. CASE r \notin live[c]
      <4>1. c = d /\ f.kind = "attached" /\ f.running /\ f.id = r
        BY <1>3, <2>2, <3>2 DEF TakesAttached, ExitInv, TypeOK
      <4>2. f = Attached(r, TRUE)
        <5>1. f \in [kind : {"exited", "attached", "nosession"}, id : Session,
                     data : {<<>>}, running : BOOLEAN]
          BY <4>1 DEF Frame, Answer
        <5>2. f = [kind |-> f.kind, id |-> f.id, data |-> f.data, running |-> f.running]
              /\ f.data = <<>> /\ f.running \in BOOLEAN
          BY <5>1
        <5>3. f.running = TRUE
          BY <4>1, <5>2
        <5> QED BY <4>1, <5>2, <5>3 DEF Attached
      <4> QED BY <1>1, <2>1, <4>1, <4>2, TailHolds
    <3> QED BY <3>1, <3>2
  <2>3. CASE live' = live
    BY <1>3, <2>3
  <2> QED BY <2>1, <2>2, <2>3 DEF TakesOutput, TakesExit, TakesNoSession, TakesAnswer
<1>4. ASSUME NEW c \in Conn, NEW r \in Session
      PROVE  (Told(c, r)' => Told(c, r)) /\ (ToldRunning(c, r)' => ToldRunning(c, r))
  BY <1>1, <1>2, <1>3 DEF Told, ToldRunning, Holds
<1>5. AskedOnce'
  BY <1>1, <1>4, KeepsAsked DEF NoNews, NoAttach
<1>6. PumpInv' /\ ClientServed'
  BY <1>1, <1>2, KeepsPumps DEF ExitInv, ClientServed
<1>7. ExitAfterOutput'
  BY <1>2, <1>4 DEF ExitInv, ExitAfterOutput, ExitLast
<1> QED BY <1>1, <1>5, <1>6, <1>7 DEF ExitInv

LEMMA ClientClosesExit ==
  ASSUME ExitInv, NEW d \in Conn, ClientCloses(d)
  PROVE  ExitInv'
<1>1. /\ TypeOK' /\ s2c' = [s2c EXCEPT ![d] = <<>>]
      /\ UNCHANGED <<nextID, running, pump, c2s, client, live, asked, pc, serving, resp>>
  BY ClientClosesTyped DEF ExitInv, ClientCloses, holderVars, serveVars, clientVars
<1>2. \A c \in Conn : s2c'[c] = s2c[c] \/ s2c'[c] = <<>>
  BY <1>1 DEF ExitInv, TypeOK
<1>3. ASSUME NEW c \in Conn, NEW r \in Session
      PROVE  /\ Holds(s2c'[c], Attached(r, TRUE)) => Holds(s2c[c], Attached(r, TRUE))
             /\ Holds(s2c'[c], Exited(r)) => Holds(s2c[c], Exited(r))
             /\ ExitLast(s2c[c], r) => ExitLast(s2c'[c], r)
  <2>1. DOMAIN <<>> = {}
    OBVIOUS
  <2>2. CASE s2c'[c] = <<>>
    BY <2>1, <2>2 DEF Holds, ExitLast
  <2>3. CASE s2c'[c] = s2c[c]
    BY <2>3
  <2> QED BY <1>2, <2>2, <2>3
<1>4. ASSUME NEW c \in Conn, NEW r \in Session
      PROVE  (Told(c, r)' => Told(c, r)) /\ (ToldRunning(c, r)' => ToldRunning(c, r))
  BY <1>1, <1>3 DEF Told, ToldRunning, Holds
<1>5. AskedOnce'
  BY <1>1, <1>4, KeepsAsked DEF NoNews, NoAttach
<1>6. PumpInv' /\ ClientServed'
  BY <1>1, <1>3, KeepsPumps DEF ExitInv, ClientServed
<1>7. ExitAfterOutput'
  BY <1>3, <1>4 DEF ExitInv, ExitAfterOutput, ExitLast
<1> QED BY <1>1, <1>5, <1>6, <1>7 DEF ExitInv

LEMMA StepExit == ExitInv /\ [Next]_vars => ExitInv'
<1> SUFFICES ASSUME ExitInv, [Next]_vars PROVE ExitInv'
  OBVIOUS
<1>1. ASSUME NEW s \in Session, ProcessExits(s) \/ WaitClosesPt(s) \/ PumpStep(s)
      PROVE  ExitInv'
  BY <1>1, OtherPumpExit, PumpForwardExit, PumpReportsExit DEF PumpStep
<1>2. CASE ServeStep
  BY <1>2, OtherServeExit, AttachExit, ReadsRunningExit, ServeRepliesExit, HandleShutdownExit
     DEF ServeStep
<1>3. ASSUME NEW c \in Conn, ClientStep(c)
      PROVE  ExitInv'
  BY <1>3, OtherClientExit, SendAttachExit, ClientReadsExit, ClientClosesExit DEF ClientStep
<1>4. CASE UNCHANGED vars
  <2>1. /\ TypeOK' /\ NoAttach
        /\ UNCHANGED <<nextID, running, pump, s2c, client, live, asked, pc, serving, resp>>
    BY <1>4, StepTyped DEF ExitInv, vars, holderVars, serveVars, sockVars, clientVars, NoAttach
  <2>2. PumpInv' /\ ClientServed'
    BY <2>1, KeepsPumps DEF ExitInv, ClientServed
  <2> QED BY <2>1, <2>2, QuietExit
<1> QED BY <1>1, <1>2, <1>3, <1>4 DEF Next

(* A client that was told that a session runs gets all of its output       *)
(* before its exit event (ExitAfterOutput).                                *)
THEOREM ExitComesLast == Spec => []ExitAfterOutput
<1>1. ExitInv => ExitAfterOutput
  BY DEF ExitInv
<1> QED BY <1>1, InitExit, StepExit, PTL DEF Spec

-----------------------------------------------------------------------------
(***************************************************************************)
(* The promise.  Three more facts about the holder make every step of it a *)
(* step of OutputStream: a connection whose holder end is closed is no     *)
(* longer the client, a queued connection is whole and not served yet, and *)
(* output goes only to those who asked for it.                             *)
(***************************************************************************)

(* The connections that wait for Accept are open at this end, different,   *)
(* and not the one being served.                                           *)
Dialled ==
  \A i \in DOMAIN backlog :
    /\ backlog[i] \in sOpen \cap dialled
    /\ backlog[i] # serving
    /\ \A j \in DOMAIN backlog : backlog[i] = backlog[j] => i = j

ConnInv ==
  /\ Dialled
  /\ pc = "accept" => serving = NoConn
  /\ serving # NoConn => serving \in dialled
  /\ client # NoConn => client \in sOpen

SubInv == OnlySubscribed /\ (client # NoConn => attached \subseteq asked[client])

PromiseInv == OrderInv /\ ExitInv /\ ConnInv /\ SubInv

LEMMA InitPromise == Init => PromiseInv
<1> SUFFICES ASSUME Init PROVE PromiseInv
  OBVIOUS
<1>1. ConnInv /\ SubInv
  BY DEF Init, ConnInv, Dialled, SubInv, OnlySubscribed
<1> QED BY <1>1, InitOrder, InitExit DEF PromiseInv

(* Steps that leave the queue of connections alone, and at most drop the   *)
(* client.                                                                 *)
LEMMA KeepsConn ==
  ASSUME PromiseInv, UNCHANGED <<backlog, dialled, serving>>,
         pc' = "accept" => pc = "accept",
         \/ UNCHANGED <<client, sOpen>>
         \/ client' = NoConn /\ (sOpen' = sOpen \/ sOpen' = sOpen \ {client})
  PROVE  ConnInv'
<1>1. ASSUME NEW c \in Conn, c \in sOpen, c # serving
      PROVE  c \in sOpen'
  BY <1>1, HolderAssumption DEF PromiseInv, ExitInv, ClientServed
<1>2. \A i \in DOMAIN backlog : backlog[i] \in Conn
  BY DEF PromiseInv, OrderInv, TypeOK
<1>3. Dialled'
  BY <1>1, <1>2 DEF PromiseInv, ConnInv, Dialled
<1> QED BY <1>3 DEF PromiseInv, ConnInv

(* Steps that send no output and subscribe nobody.                         *)
LEMMA KeepsSub ==
  ASSUME PromiseInv, TypeOK',
         \A c \in Conn : asked[c] \subseteq asked'[c],
         UNCHANGED <<client, attached>> \/ attached' = {} \/ client' = NoConn,
         \A c \in Conn : \A i \in DOMAIN s2c'[c] :
           s2c'[c][i].kind = "out" => \E j \in DOMAIN s2c[c] : s2c'[c][i] = s2c[c][j]
  PROVE  SubInv'
<1>1. OnlySubscribed'
  <2> SUFFICES ASSUME NEW c \in Conn, NEW i \in DOMAIN s2c'[c], s2c'[c][i].kind = "out"
               PROVE  s2c'[c][i].id \in asked'[c]
    BY DEF OnlySubscribed
  <2>1. PICK j \in DOMAIN s2c[c] : s2c'[c][i] = s2c[c][j]
    OBVIOUS
  <2> QED BY <2>1 DEF PromiseInv, SubInv, OnlySubscribed
<1>2. client' # NoConn => attached' \subseteq asked'[client']
  BY DEF PromiseInv, SubInv, OrderInv, TypeOK
<1> QED BY <1>1, <1>2 DEF SubInv

(* Writing frame f to connection c.                                        *)
LEMMA AppendSub ==
  ASSUME PromiseInv, NEW c \in Conn, NEW f \in Frame,
         s2c' = [s2c EXCEPT ![c] = Append(@, f)]
  PROVE  \A d \in Conn : \A i \in DOMAIN s2c'[d] :
           \/ \E j \in DOMAIN s2c[d] : s2c'[d][i] = s2c[d][j]
           \/ d = c /\ s2c'[d][i] = f
<1> SUFFICES ASSUME NEW d \in Conn, NEW i \in DOMAIN s2c'[d]
             PROVE  \/ \E j \in DOMAIN s2c[d] : s2c'[d][i] = s2c[d][j]
                    \/ d = c /\ s2c'[d][i] = f
  OBVIOUS
<1>1. s2c[d] \in Seq(Frame) /\ s2c \in [Conn -> Seq(Frame)]
  BY DEF PromiseInv, OrderInv, TypeOK
<1>2. s2c'[d] = IF d = c THEN Append(s2c[d], f) ELSE s2c[d]
  BY <1>1
<1>3. \A k \in DOMAIN Append(s2c[d], f) :
        \/ k \in DOMAIN s2c[d] /\ Append(s2c[d], f)[k] = s2c[d][k]
        \/ Append(s2c[d], f)[k] = f
  BY <1>1
<1> QED BY <1>2, <1>3

LEMMA PumpForwardSub ==
  ASSUME PromiseInv, TypeOK', NEW s \in Session, PumpForward(s)
  PROVE  SubInv'
<1>1. UNCHANGED asked
  BY DEF PumpForward, clientVars
<1>2. CASE s \in attached /\ CanWrite /\ WriteToClient(Out(s, <<handled[s] + 1>>))
  <2>1. client \in Conn /\ Out(s, <<handled[s] + 1>>) \in Frame
    <3>a. TypeOK /\ CanWrite
      BY <1>2 DEF PromiseInv, OrderInv
    <3>b. handled \in [Session -> Nat] /\ cOpen \subseteq Conn
      BY <3>a DEF TypeOK
    <3>1. handled[s] + 1 \in Nat /\ client \in Conn
      BY <3>a, <3>b DEF CanWrite
    <3>2. <<handled[s] + 1>> \in Seq(Nat)
      BY <3>1
    <3> QED BY <3>1, <3>2, FramesTyped
  <2>2. s \in asked[client]
    BY <1>2, <2>1, HolderAssumption DEF PromiseInv, SubInv
  <2>3. OnlySubscribed'
    <3> SUFFICES ASSUME NEW c \in Conn, NEW i \in DOMAIN s2c'[c], s2c'[c][i].kind = "out"
                 PROVE  s2c'[c][i].id \in asked[c]
      BY <1>1 DEF OnlySubscribed
    <3>1. \/ \E j \in DOMAIN s2c[c] : s2c'[c][i] = s2c[c][j]
          \/ c = client /\ s2c'[c][i] = Out(s, <<handled[s] + 1>>)
      BY <1>2, <2>1, AppendSub DEF WriteToClient
    <3>2. Out(s, <<handled[s] + 1>>).id = s
      BY DEF Out
    <3> QED BY <2>2, <3>1, <3>2 DEF PromiseInv, SubInv, OnlySubscribed
  <2> QED BY <1>1, <1>2, <2>3 DEF PromiseInv, SubInv, WriteToClient
<1>3. CASE WriteFails
  <2>1. UNCHANGED <<client, attached>> \/ attached' = {}
    BY <1>3 DEF WriteFails
  <2> QED BY <1>1, <1>3, <2>1, KeepsSub DEF WriteFails
<1>4. CASE UNCHANGED <<client, attached, sOpen, s2c>>
  BY <1>1, <1>4, KeepsSub
<1> QED BY <1>2, <1>3, <1>4 DEF PumpForward

LEMMA PumpReportsSub ==
  ASSUME PromiseInv, TypeOK', NEW s \in Session, PumpReports(s)
  PROVE  SubInv'
<1>1. UNCHANGED asked
  BY DEF PumpReports, clientVars
<1>2. CASE CanWrite /\ WriteToClient(Exited(s))
  <2>1. client \in Conn /\ Exited(s) \in Frame /\ Exited(s).kind # "out"
    BY <1>2 DEF PromiseInv, OrderInv, TypeOK, CanWrite, Exited, Frame
  <2>2. s2c' = [s2c EXCEPT ![client] = Append(@, Exited(s))] /\ UNCHANGED <<client, attached>>
    BY <1>2 DEF WriteToClient
  <2> QED BY <1>1, <2>1, <2>2, AppendSub, KeepsSub
<1>3. CASE WriteFails
  <2>1. UNCHANGED <<client, attached>> \/ attached' = {}
    BY <1>3 DEF WriteFails
  <2> QED BY <1>1, <1>3, <2>1, KeepsSub DEF WriteFails
<1> QED BY <1>2, <1>3 DEF PumpReports

LEMMA PumpPromise ==
  ASSUME PromiseInv, NEW s \in Session, ProcessExits(s) \/ WaitClosesPt(s) \/ PumpStep(s)
  PROVE  ConnInv' /\ SubInv'
<1>1. TypeOK'
  BY PumpTyped, PumpForwardTyped, PumpReportsTyped DEF PromiseInv, OrderInv, PumpStep
<1>2. ConnInv'
  <2>1. UNCHANGED <<backlog, dialled, serving, pc>>
    BY DEF ProcessExits, WaitClosesPt, PumpStep, PumpRead, PumpForward, PumpEOF, PumpStops,
           PumpReports, serveVars, clientVars
  <2>2. \/ UNCHANGED <<client, sOpen>>
        \/ client' = NoConn /\ (sOpen' = sOpen \/ sOpen' = sOpen \ {client})
    BY DEF ProcessExits, WaitClosesPt, PumpStep, PumpRead, PumpForward, PumpEOF, PumpStops,
           PumpReports, serveVars, sockVars, WriteToClient, WriteFails
  <2> QED BY <2>1, <2>2, KeepsConn
<1>3. CASE ProcessExits(s) \/ WaitClosesPt(s) \/ PumpRead(s) \/ PumpEOF(s) \/ PumpStops(s)
  <2>1. UNCHANGED <<client, attached, s2c, asked>>
    BY <1>3 DEF ProcessExits, WaitClosesPt, PumpRead, PumpEOF, PumpStops,
                serveVars, sockVars, clientVars
  <2> QED BY <1>1, <1>2, <2>1, KeepsSub
<1> QED BY <1>1, <1>2, <1>3, PumpForwardSub, PumpReportsSub DEF PumpStep

(* What stands where in a queue that grows or shrinks.                     *)
LEMMA AppendAt ==
  ASSUME NEW S, NEW q \in Seq(S), NEW x \in S
  PROVE  /\ Len(q) \in Nat
         /\ \A i \in DOMAIN Append(q, x) :
              \/ i = Len(q) + 1 /\ Append(q, x)[i] = x
              \/ i \in DOMAIN q /\ Append(q, x)[i] = q[i]
  OBVIOUS

LEMMA TailAt ==
  ASSUME NEW S, NEW q \in Seq(S), q # <<>>
  PROVE  /\ 1 \in DOMAIN q /\ Head(q) = q[1]
         /\ \A i \in DOMAIN Tail(q) :
              i + 1 \in DOMAIN q /\ Tail(q)[i] = q[i + 1] /\ i + 1 # 1 /\ i \in Nat
         /\ \A i \in DOMAIN q : q[i] \in S
  OBVIOUS

(* The serve loop.                                                         *)
LEMMA AcceptPromise ==
  ASSUME PromiseInv, Accept
  PROVE  ConnInv' /\ SubInv'
<1>1. TypeOK /\ TypeOK' /\ ClientServed /\ ConnInv
  BY AcceptTyped DEF PromiseInv, OrderInv, ExitInv
<1>2. serving = NoConn /\ client = NoConn
  BY <1>1 DEF Accept, ConnInv, ClientServed
<1>3. SubInv'
  <2>1. UNCHANGED <<asked, s2c>> /\ attached' = {}
    BY DEF Accept, clientVars
  <2> QED BY <1>1, <2>1, KeepsSub
<1>4. /\ 1 \in DOMAIN backlog /\ Head(backlog) = backlog[1]
      /\ \A i \in DOMAIN Tail(backlog) :
           i + 1 \in DOMAIN backlog /\ Tail(backlog)[i] = backlog[i + 1] /\ i + 1 # 1 /\ i \in Nat
      /\ \A i \in DOMAIN backlog : backlog[i] \in Conn
  <2>1. backlog \in Seq(Conn) /\ backlog # <<>>
    BY <1>1 DEF Accept, TypeOK
  <2> QED BY <2>1, TailAt
<1>5. /\ backlog' = Tail(backlog) /\ serving' = backlog[1] /\ client' = backlog[1]
      /\ sOpen' = sOpen /\ dialled' = dialled /\ pc' # "accept"
  <2>1. sOpen \ {NoConn} = sOpen
    <3>1. sOpen \subseteq Conn
      BY <1>1 DEF TypeOK
    <3> QED BY <3>1, HolderAssumption
  <2> QED BY <1>2, <1>4, <2>1 DEF Accept, clientVars
<1>6. Dialled'
  <2> DEFINE rest == Tail(backlog)
  <2> HIDE DEF rest
  <2>1. \A i \in DOMAIN rest : i + 1 \in DOMAIN backlog /\ rest[i] = backlog[i + 1] /\ i + 1 # 1 /\ i \in Nat
    BY <1>4 DEF rest
  <2>2. backlog' = rest
    BY <1>5 DEF rest
  <2>3. ASSUME NEW i \in DOMAIN rest, NEW j \in DOMAIN rest, rest[i] = rest[j]
        PROVE  i = j
    <3>1. i + 1 = j + 1
      BY <1>1, <2>1, <2>3 DEF ConnInv, Dialled
    <3> QED BY <2>1, <3>1
  <2>4. ASSUME NEW i \in DOMAIN rest
        PROVE  rest[i] \in sOpen \cap dialled /\ rest[i] # backlog[1]
    BY <1>1, <1>4, <2>1 DEF ConnInv, Dialled
  <2> QED BY <1>5, <2>2, <2>3, <2>4 DEF Dialled
<1>7. backlog[1] \in sOpen \cap dialled
  BY <1>1, <1>4 DEF ConnInv, Dialled
<1> QED BY <1>3, <1>5, <1>6, <1>7 DEF ConnInv

LEMMA ServeEndsPromise ==
  ASSUME PromiseInv, ServeEnds \/ Shutdown
  PROVE  ConnInv' /\ SubInv'
<1>1. TypeOK /\ TypeOK' /\ ClientServed /\ ConnInv
  BY ServeEndsTyped, ShutdownTyped DEF PromiseInv, OrderInv, ExitInv
<1>2. UNCHANGED <<asked, s2c, dialled>> /\ serving' = NoConn /\ client' = NoConn
  BY <1>1 DEF ServeEnds, Shutdown, clientVars, ClientServed
<1>3. SubInv'
  BY <1>1, <1>2, KeepsSub
<1>4. Dialled'
  <2>1. CASE ServeEnds
    <3>1. backlog' = backlog /\ sOpen' = sOpen \ {serving}
      BY <2>1 DEF ServeEnds
    <3>2. \A i \in DOMAIN backlog : backlog[i] \in Conn /\ backlog[i] # NoConn
      BY <1>1, HolderAssumption DEF TypeOK
    <3> QED BY <1>1, <1>2, <3>1, <3>2 DEF ConnInv, Dialled
  <2>2. CASE Shutdown
    <3>1. backlog' = <<>> /\ DOMAIN <<>> = {}
      BY <2>2 DEF Shutdown
    <3> QED BY <3>1 DEF Dialled
  <2> QED BY <2>1, <2>2
<1> QED BY <1>2, <1>3, <1>4 DEF ConnInv

(* Requests and replies that are not about output.                         *)
LEMMA OtherServePromise ==
  ASSUME PromiseInv,
         \/ HandleStart \/ HandleStartFails \/ AttachReadsRunning \/ HandleKill
         \/ HandleQuery \/ ServeReplies \/ HandleShutdown
  PROVE  ConnInv' /\ SubInv'
<1>1. TypeOK /\ TypeOK'
  BY HandleStartTyped, HandleStartFailsTyped, AttachReadsRunningTyped, HandleKillTyped,
     HandleQueryTyped, ServeRepliesTyped, HandleShutdownTyped DEF PromiseInv, OrderInv
<1>2. UNCHANGED <<backlog, serving, client, attached, sOpen, dialled, asked>> /\ pc' # "accept"
  BY DEF HandleStart, HandleStartFails, AttachReadsRunning, HandleKill, HandleQuery,
         ServeReplies, HandleShutdown, Prepares, Reads, clientVars, sockVars
<1>3. \/ UNCHANGED s2c
      \/ \E c \in Conn, f \in Frame :
           f.kind # "out" /\ s2c' = [s2c EXCEPT ![c] = Append(@, f)]
  <2>1. CASE ServeReplies
    <3>1. resp \in Frame /\ resp.kind # "out"
      BY <1>1, ResponsesAreFrames DEF TypeOK
    <3>2. serving \in cOpen \cap sOpen => serving \in Conn
      BY <1>1 DEF TypeOK
    <3> QED BY <2>1, <3>1, <3>2 DEF ServeReplies
  <2>2. CASE HandleShutdown
    <3>1. Answer \in Frame /\ Answer.kind # "out"
      BY DEF Frame, Answer
    <3>2. serving \in Conn
      BY <1>1, <2>2 DEF TypeOK, HandleShutdown, Reads
    <3> QED BY <2>2, <3>1, <3>2 DEF HandleShutdown
  <2> QED BY <2>1, <2>2 DEF HandleStart, HandleStartFails, AttachReadsRunning, HandleKill,
                            HandleQuery, sockVars
<1>4. SubInv'
  <2>1. CASE UNCHANGED s2c
    BY <1>1, <1>2, <2>1, KeepsSub
  <2>2. CASE ~UNCHANGED s2c
    <3>1. PICK c \in Conn, f \in Frame :
             f.kind # "out" /\ s2c' = [s2c EXCEPT ![c] = Append(@, f)]
      BY <1>3, <2>2
    <3>2. \A d \in Conn : \A i \in DOMAIN s2c'[d] :
            s2c'[d][i].kind = "out" => \E j \in DOMAIN s2c[d] : s2c'[d][i] = s2c[d][j]
      BY <3>1, AppendSub
    <3> QED BY <1>1, <1>2, <3>2, KeepsSub
  <2> QED BY <2>1, <2>2
<1> QED BY <1>2, <1>4, KeepsConn

(* What the serve loop attaches is what its connection asked for.          *)
LEMMA AttachAsked ==
  ASSUME PromiseInv, HandleAttach
  PROVE  Head(c2s[serving]).id \in asked[serving]
<1>1. TypeOK /\ AskedOnce /\ serving \in Conn
  BY ReadsTyped DEF PromiseInv, OrderInv, ExitInv, HandleAttach
<1>2. c2s[serving] \in Seq(Request) /\ c2s[serving] # <<>> /\ Head(c2s[serving]) \in Request
      /\ Head(c2s[serving]).op = "attach"
  BY <1>1, ReadsTyped DEF HandleAttach, Reads, TypeOK
<1>3. PICK s \in Session : Head(c2s[serving]) = Ask(s)
  BY <1>2 DEF Request, Ask
<1>4. 1 \in DOMAIN c2s[serving] /\ c2s[serving][1] = Head(c2s[serving])
  BY <1>2
<1>5. Holds(c2s[serving], Ask(s))
  BY <1>3, <1>4 DEF Holds
<1>6. Ask(s).id = s
  BY DEF Ask
<1> QED BY <1>1, <1>3, <1>5, <1>6 DEF AskedOnce

LEMMA HandleAttachPromise ==
  ASSUME PromiseInv, HandleAttach
  PROVE  ConnInv' /\ SubInv'
<1>1. TypeOK /\ TypeOK' /\ ClientServed /\ SubInv /\ ConnInv
  BY HandleAttachTyped DEF PromiseInv, OrderInv, ExitInv
<1>2. PICK s \in Session : s \in asked[serving] /\ (AttachUnknown(s) \/ AttachReplays(s))
  <2>1. Head(c2s[serving]) \in Request /\ Head(c2s[serving]).op = "attach"
    BY <1>1, ReadsTyped DEF HandleAttach, Reads
  <2>2. Head(c2s[serving]).id \in Session
    BY <2>1 DEF Request
  <2> QED BY <2>2, AttachAsked DEF HandleAttach
<1>3. UNCHANGED <<backlog, serving, dialled, asked>> /\ pc' # "accept"
  BY <1>2 DEF HandleAttach, AttachUnknown, AttachReplays, Prepares, clientVars
<1>4. ConnInv'
  BY <1>2, <1>3, KeepsConn DEF AttachUnknown, AttachReplays
<1>5. SubInv'
  <2>1. CASE UNCHANGED s2c /\ (UNCHANGED <<client, attached>> \/ client' = NoConn)
    BY <1>1, <1>3, <2>1, KeepsSub
  <2>2. CASE UNCHANGED <<s2c, client>> /\ attached' = attached \cup {s}
    BY <1>1, <1>2, <1>3, <2>2 DEF SubInv, OnlySubscribed, ClientServed
  <2>3. CASE /\ client \in Conn /\ attached' = attached \cup {s} /\ UNCHANGED client
             /\ Out(s, ring[s]) \in Frame
             /\ s2c' = [s2c EXCEPT ![client] = Append(@, Out(s, ring[s]))]
    <3>1. s \in asked[client]
      BY <1>1, <1>2, <2>3, HolderAssumption DEF ClientServed
    <3>2. OnlySubscribed'
      <4> SUFFICES ASSUME NEW c \in Conn, NEW i \in DOMAIN s2c'[c], s2c'[c][i].kind = "out"
                   PROVE  s2c'[c][i].id \in asked[c]
        BY <1>3 DEF OnlySubscribed
      <4>1. \/ \E j \in DOMAIN s2c[c] : s2c'[c][i] = s2c[c][j]
            \/ c = client /\ s2c'[c][i] = Out(s, ring[s])
        BY <2>3, AppendSub
      <4>2. Out(s, ring[s]).id = s
        BY DEF Out
      <4> QED BY <1>1, <3>1, <4>1, <4>2 DEF SubInv, OnlySubscribed
    <3> QED BY <1>1, <1>3, <2>3, <3>1, <3>2 DEF SubInv
  <2>4. CASE AttachUnknown(s)
    BY <2>1, <2>4 DEF AttachUnknown
  <2>5. CASE AttachReplays(s)
    BY <1>1, <2>1, <2>2, <2>3, <2>5, ReplayCases
  <2> QED BY <1>2, <2>4, <2>5
<1> QED BY <1>4, <1>5

LEMMA ServePromise ==
  ASSUME PromiseInv, ServeStep
  PROVE  ConnInv' /\ SubInv'
  BY AcceptPromise, ServeEndsPromise, OtherServePromise, HandleAttachPromise DEF ServeStep

(* The clients.                                                            *)
LEMMA DialPromise ==
  ASSUME PromiseInv, NEW c \in Conn, Dial(c)
  PROVE  ConnInv' /\ SubInv'
<1>1. TypeOK /\ TypeOK' /\ ConnInv
  BY DialTyped DEF PromiseInv, OrderInv
<1>2. SubInv'
  <2>1. UNCHANGED <<client, attached, asked, s2c>>
    BY DEF Dial
  <2> QED BY <1>1, <2>1, KeepsSub
<1>3. c \notin dialled /\ UNCHANGED <<serving, client, pc>>
      /\ sOpen' = sOpen \cup {c} /\ dialled' = dialled \cup {c}
  BY DEF Dial
<1>4. Dialled'
  <2> DEFINE more == Append(backlog, c)
  <2>1. /\ backlog' = more /\ Len(backlog) \in Nat
        /\ \A i \in DOMAIN more :
             \/ i = Len(backlog) + 1 /\ more[i] = c
             \/ i \in DOMAIN backlog /\ more[i] = backlog[i]
    <3>1. backlog \in Seq(Conn) /\ backlog' = more
      BY <1>1 DEF Dial, TypeOK
    <3> QED BY <3>1, AppendAt
  <2>2. c # serving
    BY <1>1, <1>3, HolderAssumption DEF ConnInv
  <2> HIDE DEF more
  <2>3. ASSUME NEW i \in DOMAIN more
        PROVE  more[i] \in sOpen' \cap dialled' /\ more[i] # serving
    BY <1>1, <1>3, <2>1, <2>2 DEF ConnInv, Dialled
  <2>4. ASSUME NEW i \in DOMAIN more, NEW j \in DOMAIN more, more[i] = more[j]
        PROVE  i = j
    BY <1>1, <1>3, <2>1, <2>4 DEF ConnInv, Dialled
  <2> QED BY <1>3, <2>1, <2>3, <2>4 DEF Dialled
<1> QED BY <1>1, <1>2, <1>3, <1>4 DEF ConnInv

LEMMA ClientPromise ==
  ASSUME PromiseInv, NEW c \in Conn, ClientStep(c)
  PROVE  ConnInv' /\ SubInv'
<1>1. TypeOK /\ TypeOK'
  BY DialTyped, SendRequestTyped, SendAttachTyped, ClientReadsTyped, AttachTimesOutTyped,
     ClientClosesTyped DEF PromiseInv, OrderInv, ClientStep
<1>2. CASE ~Dial(c)
  <2>1. UNCHANGED <<backlog, dialled, serving, client, attached, sOpen, pc>>
    BY <1>2 DEF ClientStep, SendRequest, SendAttach, ClientReads, AttachTimesOut, ClientCloses,
                serveVars, sockVars, clientVars
  <2>2. \A d \in Conn : asked[d] \subseteq asked'[d]
    <3>1. asked' = asked \/ \E s \in Session : asked' = [asked EXCEPT ![c] = @ \cup {s}]
      BY <1>2 DEF ClientStep, SendRequest, SendAttach, ClientReads, AttachTimesOut,
                  ClientCloses, clientVars
    <3>2. asked \in [Conn -> SUBSET Session]
      BY <1>1 DEF TypeOK
    <3> QED BY <3>1, <3>2
  <2>3. ASSUME NEW d \in Conn, NEW i \in DOMAIN s2c'[d]
        PROVE  \E j \in DOMAIN s2c[d] : s2c'[d][i] = s2c[d][j]
    <3>1. s2c[d] \in Seq(Frame)
      BY <1>1 DEF TypeOK
    <3>2. \/ s2c'[d] = s2c[d]
          \/ s2c'[d] = <<>>
          \/ s2c[d] # <<>> /\ s2c'[d] = Tail(s2c[d])
      <4>1. CASE ClientReads(c)
        BY <1>1, <4>1 DEF ClientReads, TypeOK
      <4>2. CASE ClientCloses(c)
        BY <1>1, <4>2 DEF ClientCloses, TypeOK
      <4>3. CASE UNCHANGED s2c
        BY <4>3
      <4> QED BY <1>2, <4>1, <4>2, <4>3
              DEF ClientStep, SendRequest, SendAttach, AttachTimesOut, sockVars
    <3>3. CASE s2c'[d] = s2c[d]
      BY <3>3
    <3>4. CASE s2c'[d] = <<>>
      BY <3>4
    <3>5. CASE s2c[d] # <<>> /\ s2c'[d] = Tail(s2c[d])
      <4>1. i + 1 \in DOMAIN s2c[d] /\ Tail(s2c[d])[i] = s2c[d][i + 1]
        BY <3>1, <3>5
      <4> QED BY <3>5, <4>1
    <3> QED BY <3>2, <3>3, <3>4, <3>5
  <2> QED BY <1>1, <2>1, <2>2, <2>3, KeepsConn, KeepsSub
<1> QED BY <1>2, DialPromise

LEMMA StepPromise == PromiseInv /\ [Next]_vars => PromiseInv'
<1> SUFFICES ASSUME PromiseInv, [Next]_vars PROVE PromiseInv'
  OBVIOUS
<1>1. OrderInv' /\ ExitInv'
  BY StepOrder, StepExit DEF PromiseInv
<1>2. CASE UNCHANGED vars
  <2>1. UNCHANGED <<backlog, dialled, serving, pc, client, sOpen, attached, s2c, asked>> /\ TypeOK'
    BY <1>1, <1>2 DEF vars, serveVars, sockVars, clientVars, OrderInv
  <2> QED BY <1>1, <2>1, KeepsConn, KeepsSub DEF PromiseInv
<1> QED BY <1>1, <1>2, PumpPromise, ServePromise, ClientPromise DEF Next, PromiseInv

-----------------------------------------------------------------------------
(* FlattenSeq, by the least length for which a claim about it would fail.  *)
LEMMA LeastNatural == ASSUME NEW S \in SUBSET Nat, S # {} PROVE \E n \in S : \A m \in S : n <= m
<1> DEFINE Less == {ij \in Nat \X Nat : ij[1] < ij[2]}
<1>1. IsWellFoundedOn(Less, Nat)
  BY NatLessThanWellFounded DEF OpToRel
<1>2. \E n \in S : \A m \in S : <<m, n>> \notin Less
  <2> HIDE DEF Less
  <2> QED BY <1>1, WFMin
<1>3. PICK n \in S : \A m \in S : <<m, n>> \notin Less
  BY <1>2
<1>4. ASSUME NEW m \in S PROVE n <= m
  <2> SUFFICES ASSUME m < n PROVE FALSE
    OBVIOUS
  <2>1. <<m, n>> \in Nat \X Nat /\ <<m, n>>[1] < <<m, n>>[2]
    OBVIOUS
  <2> QED BY <1>3, <2>1
<1> QED BY <1>4

(* u is what FlattenSeq computes of q, step by step.                       *)
Joins(u, q) == \A i \in 1..Len(q) : u[i] = IF i = 1 THEN q[i] ELSE u[i - 1] \o q[i]

LEMMA JoinsOnce ==
  ASSUME NEW q, Len(q) \in Nat, NEW u, NEW v, Joins(u, q), Joins(v, q)
  PROVE  \A i \in 1..Len(q) : u[i] = v[i]
<1> DEFINE S == {i \in 1..Len(q) : u[i] # v[i]}
<1>1. SUFFICES ASSUME S # {} PROVE FALSE
  OBVIOUS
<1>2. S \in SUBSET Nat
  OBVIOUS
<1>3. PICK n \in S : \A m \in S : n <= m
  BY <1>1, <1>2, LeastNatural
<1>4. n \in 1..Len(q) /\ u[n] # v[n] /\ \A m \in 1..Len(q) : u[m] = v[m] \/ n <= m
  BY <1>3
<1> HIDE DEF S
<1>5. CASE n = 1
  BY <1>4, <1>5 DEF Joins
<1>6. CASE n # 1
  <2>1. n - 1 \in 1..Len(q) /\ ~(n <= n - 1)
    BY <1>4, <1>6
  <2>2. u[n - 1] = v[n - 1]
    BY <1>4, <2>1
  <2>3. u[n] = u[n - 1] \o q[n] /\ v[n] = v[n - 1] \o q[n]
    BY <1>4, <1>6 DEF Joins
  <2> QED BY <1>4, <2>2, <2>3
<1> QED BY <1>5, <1>6

LEMMA FlattenJoins ==
  ASSUME NEW q \in Seq(Seq(Nat)), q # <<>>, NEW u \in [1..Len(q) -> Seq(Nat)], Joins(u, q)
  PROVE  FlattenSeq(q) = u[Len(q)]
<1> DEFINE F(v) == [i \in 1..Len(q) |-> IF i = 1 THEN q[i] ELSE v[i - 1] \o q[i]]
           w == CHOOSE v : v = F(v)
<1>1. Len(q) \in 1..Len(q) /\ Len(q) # 0 /\ Len(q) \in Nat
  OBVIOUS
<1>2. FlattenSeq(q) = w[Len(q)]
  BY <1>1 DEF FlattenSeq
<1>3. u = F(u)
  BY DEF Joins
<1>4. w = F(w)
  BY <1>3
<1> HIDE DEF w
<1>5. Joins(w, q)
  BY <1>4, Zenon DEF Joins
<1>6. u[Len(q)] = w[Len(q)]
  BY <1>1, <1>5, JoinsOnce, SMTT(30)
<1> QED BY <1>2, <1>6

LEMMA JoinAssociative ==
  ASSUME NEW a \in Seq(Nat), NEW b \in Seq(Nat), NEW d \in Seq(Nat)
  PROVE  a \o (b \o d) = (a \o b) \o d
  BY SMTT(30)

(* There is such a function, whatever the sequences.                       *)
LEMMA SomethingJoins ==
  ASSUME NEW q \in Seq(Seq(Nat))
  PROVE  \E u \in [1..Len(q) -> Seq(Nat)] : Joins(u, q)
<1> DEFINE Upto(u, n) == \A i \in 1..n : u[i] = IF i = 1 THEN q[i] ELSE u[i - 1] \o q[i]
           S == {n \in Nat : n <= Len(q) /\ ~\E u \in [1..n -> Seq(Nat)] : Upto(u, n)}
<1>1. Len(q) \in Nat /\ \A i \in 1..Len(q) : q[i] \in Seq(Nat)
  OBVIOUS
<1>2. S = {}
  <2> SUFFICES ASSUME S # {} PROVE FALSE
    OBVIOUS
  <2>1. S \in SUBSET Nat
    OBVIOUS
  <2>2. PICK n \in S : \A m \in S : n <= m
    BY <2>1, LeastNatural
  <2>3. CASE n = 0
    <3>1. [i \in 1..0 |-> <<>>] \in [1..0 -> Seq(Nat)] /\ Upto([i \in 1..0 |-> <<>>], 0)
      OBVIOUS
    <3> QED BY <2>2, <2>3, <3>1
  <2>4. CASE n # 0
    <3>a. n \in Nat /\ n <= Len(q)
      BY <2>2
    <3>b. n - 1 \notin S
      <4> HIDE DEF S
      <4>1. ~(n <= n - 1)
        BY <3>a
      <4> QED BY <2>2, <4>1
    <3>1. n - 1 \in Nat /\ n \in Nat /\ n <= Len(q) /\ n - 1 <= Len(q)
      BY <3>a, <2>4, <1>1
    <3>2. PICK u \in [1..(n - 1) -> Seq(Nat)] : Upto(u, n - 1)
      <4> HIDE DEF Upto
      <4> QED BY <3>b, <3>1
    <3> DEFINE w == [i \in 1..n |-> IF i < n THEN u[i] ELSE IF n = 1 THEN q[n] ELSE u[n - 1] \o q[n]]
    <3>3. \A i \in 1..n : w[i] \in Seq(Nat)
      <4> SUFFICES ASSUME NEW i \in 1..n PROVE w[i] \in Seq(Nat)
        OBVIOUS
      <4>1. CASE i < n
        BY <3>1, <4>1
      <4>2. CASE i = n /\ n = 1
        BY <3>1, <4>2, <1>1
      <4>3. CASE i = n /\ n # 1
        <5>1. u[n - 1] \in Seq(Nat) /\ q[n] \in Seq(Nat)
          BY <3>1, <4>3, <1>1
        <5>2. u[n - 1] \o q[n] \in Seq(Nat)
          BY <5>1
        <5> QED BY <4>3, <5>2, <3>1
      <4> QED BY <4>1, <4>2, <4>3, <3>1
    <3>4. Upto(w, n)
      <4> SUFFICES ASSUME NEW i \in 1..n PROVE w[i] = IF i = 1 THEN q[i] ELSE w[i - 1] \o q[i]
        OBVIOUS
      <4>1. CASE i < n
        <5>1. i \in 1..(n - 1) /\ w[i] = u[i] /\ (i # 1 => w[i - 1] = u[i - 1])
          BY <3>1, <4>1
        <5> QED BY <3>2, <5>1
      <4>2. CASE i = n
        BY <3>1, <4>2
      <4> QED BY <4>1, <4>2, <3>1
    <3>5. w \in [1..n -> Seq(Nat)]
      <4> HIDE DEF w
      <4>1. w = [i \in 1..n |-> w[i]]
        BY DEF w
      <4> QED BY <3>3, <4>1
    <3> HIDE DEF w
    <3> QED BY <2>2, <3>4, <3>5
  <2> QED BY <2>3, <2>4
<1>3. Len(q) \notin S
  BY <1>2
<1> QED BY <1>1, <1>3 DEF Joins

LEMMA FlattenEmpty == FlattenSeq(<<>>) = <<>>
  BY DEF FlattenSeq

LEMMA FlattenTyped ==
  ASSUME NEW q \in Seq(Seq(Nat))
  PROVE  FlattenSeq(q) \in Seq(Nat)
<1>1. CASE q = <<>>
  <2>1. <<>> \in Seq(Nat)
    OBVIOUS
  <2> QED BY <1>1, <2>1, FlattenEmpty
<1>2. CASE q # <<>>
  <2>1. PICK u \in [1..Len(q) -> Seq(Nat)] : Joins(u, q)
    BY SomethingJoins
  <2>2. Len(q) \in 1..Len(q)
    BY <1>2
  <2> QED BY <1>2, <2>1, <2>2, FlattenJoins
<1> QED BY <1>1, <1>2

(* FlattenSeq of a sequence with one more at its end.                      *)
LEMMA FlattenAppend ==
  ASSUME NEW q \in Seq(Seq(Nat)), NEW x \in Seq(Nat)
  PROVE  FlattenSeq(Append(q, x)) = FlattenSeq(q) \o x
<1> DEFINE p == Append(q, x)
<1>1. /\ p \in Seq(Seq(Nat)) /\ p # <<>> /\ Len(q) \in Nat /\ Len(p) = Len(q) + 1
      /\ p[Len(q) + 1] = x /\ \A i \in 1..Len(q) : p[i] = q[i]
  BY AppendProperties
<1> HIDE DEF p
<1>2. PICK u \in [1..Len(p) -> Seq(Nat)] : Joins(u, p)
  BY <1>1, SomethingJoins
<1>3. FlattenSeq(p) = u[Len(q) + 1]
  BY <1>1, <1>2, FlattenJoins
<1>4. CASE q = <<>>
  <2>1. Len(q) = 0 /\ <<>> \o x = x
    BY <1>4
  <2>2. u[1] = x
    BY <1>1, <1>2, <2>1 DEF Joins
  <2> QED BY <1>3, <1>4, <2>1, <2>2, FlattenEmpty DEF p
<1>5. CASE q # <<>>
  <2> DEFINE w == [i \in 1..Len(q) |-> u[i]]
  <2>1. Len(q) \in 1..Len(q) /\ Len(q) + 1 \in 1..Len(p) /\ Len(q) + 1 # 1 /\ (Len(q) + 1) - 1 = Len(q)
    BY <1>1, <1>5
  <2>2. w \in [1..Len(q) -> Seq(Nat)]
    BY <1>1
  <2>3. \A i \in 1..Len(q) : w[i] = u[i]
    OBVIOUS
  <2> HIDE DEF w
  <2>4. Joins(w, q)
    <3> SUFFICES ASSUME NEW i \in 1..Len(q)
                 PROVE  w[i] = IF i = 1 THEN q[i] ELSE w[i - 1] \o q[i]
      BY DEF Joins
    <3>1. i \in 1..Len(p) /\ (i # 1 => i - 1 \in 1..Len(q))
      BY <1>1
    <3>2. u[i] = IF i = 1 THEN p[i] ELSE u[i - 1] \o p[i]
      BY <3>1, <1>2 DEF Joins
    <3> QED BY <3>1, <3>2, <2>3, <1>1
  <2>5. FlattenSeq(q) = u[Len(q)]
    BY <1>5, <2>1, <2>2, <2>3, <2>4, FlattenJoins
  <2>6. u[Len(q) + 1] = u[Len(q)] \o x
    BY <1>1, <1>2, <2>1 DEF Joins
  <2> QED BY <1>3, <2>5, <2>6 DEF p
<1> QED BY <1>4, <1>5

(* FlattenSeq of a sequence by its first element.                          *)
LEMMA FlattenFirst ==
  ASSUME NEW q \in Seq(Seq(Nat)), q # <<>>
  PROVE  FlattenSeq(q) = Head(q) \o FlattenSeq(Tail(q))
<1> DEFINE p == Tail(q)
           x == q[1]
<1>1. /\ p \in Seq(Seq(Nat)) /\ Len(p) \in Nat /\ Len(q) = Len(p) + 1 /\ Len(q) \in 1..Len(q)
      /\ x \in Seq(Nat) /\ Head(q) = x /\ \A i \in 1..Len(p) : p[i] = q[i + 1]
  OBVIOUS
<1> HIDE DEF p, x
<1>2. PICK u \in [1..Len(p) -> Seq(Nat)] : Joins(u, p)
  BY <1>1, SomethingJoins
<1> DEFINE w == [i \in 1..Len(q) |-> IF i = 1 THEN x ELSE x \o u[i - 1]]
<1>3. \A i \in 1..Len(q) : w[i] = IF i = 1 THEN x ELSE x \o u[i - 1]
  OBVIOUS
<1>4. w \in [1..Len(q) -> Seq(Nat)]
  <2>1. ASSUME NEW i \in 1..Len(q)
        PROVE  w[i] \in Seq(Nat)
    <3>1. CASE i = 1
      BY <1>1, <3>1
    <3>2. CASE i # 1
      <4> PICK j \in 1..Len(p) : i - 1 = j
        BY <1>1, <3>2
      <4>1. u[i - 1] \in Seq(Nat)
        OBVIOUS
      <4>2. x \o u[i - 1] \in Seq(Nat)
        BY <1>1, <4>1
      <4> QED BY <3>2, <4>2
    <3> QED BY <3>1, <3>2
  <2> QED BY <2>1
<1> HIDE DEF w
<1>5. Joins(w, q)
  <2> SUFFICES ASSUME NEW i \in 1..Len(q)
               PROVE  w[i] = IF i = 1 THEN q[i] ELSE w[i - 1] \o q[i]
    BY DEF Joins
  <2>1. CASE i = 1
    BY <1>3, <2>1 DEF x
  <2>2. CASE i # 1
    <3> PICK j \in 1..Len(p) : i = j + 1 /\ i - 1 = j /\ q[i] = p[j]
      <4>1. i - 1 \in 1..Len(p) /\ i = (i - 1) + 1
        BY <1>1, <2>2
      <4> QED BY <4>1, <1>1
    <3>1. w[i] = x \o u[j]
      BY <1>3, <2>2
    <3>2. u[j] = IF j = 1 THEN p[j] ELSE u[j - 1] \o p[j]
      BY <1>2 DEF Joins
    <3>3. j \in 1..Len(q) /\ w[j] = IF j = 1 THEN x ELSE x \o u[j - 1]
      BY <1>1, <1>3
    <3>4. CASE j = 1
      BY <3>1, <3>2, <3>3, <3>4, <2>2
    <3>5. CASE j # 1
      <4> PICK k \in 1..Len(p) : j - 1 = k
        BY <1>1, <3>5
      <4>1. u[j - 1] \in Seq(Nat) /\ p[j] \in Seq(Nat)
        <5>1. p[j] \in Seq(Nat)
          BY <1>1, ElementOfSeq
        <5> QED BY <5>1
      <4>2. x \o (u[j - 1] \o p[j]) = (x \o u[j - 1]) \o p[j]
        <5>1. x \in Seq(Nat)
          BY <1>1
        <5> QED BY <4>1, <5>1, JoinAssociative, ZenonT(30)
      <4> QED BY <3>1, <3>2, <3>3, <3>5, <4>2, <2>2
    <3> QED BY <3>4, <3>5
  <2> QED BY <2>1, <2>2
<1>6. FlattenSeq(q) = w[Len(q)]
  BY <1>4, <1>5, FlattenJoins
<1>7. CASE p = <<>>
  <2>1. Len(p) = 0
    BY <1>7
  <2>2. FlattenSeq(q) = x
    BY <1>1, <1>3, <1>6, <2>1
  <2>3. x \o <<>> = x
    BY <1>1
  <2> QED BY <1>1, <1>7, <2>2, <2>3, FlattenEmpty DEF p
<1>8. CASE p # <<>>
  <2>1. FlattenSeq(p) = u[Len(p)]
    BY <1>1, <1>2, <1>8, FlattenJoins
  <2>2. Len(p) # 0
    BY <1>1, <1>8, EmptySeq
  <2>3. Len(q) # 1 /\ Len(q) - 1 = Len(p)
    BY <1>1, <2>2
  <2>4. FlattenSeq(q) = x \o u[Len(p)]
    BY <1>1, <1>3, <1>6, <2>3
  <2>5. Head(q) \o FlattenSeq(p) = x \o u[Len(p)]
    BY <1>1, <2>1
  <2> QED BY <2>4, <2>5, Zenon DEF p
<1> QED BY <1>7, <1>8

(* Empty sequences join to an empty one.                                   *)
LEMMA FlattenNothing ==
  ASSUME NEW q \in Seq(Seq(Nat)), \A i \in 1..Len(q) : q[i] = <<>>
  PROVE  FlattenSeq(q) = <<>>
<1>1. CASE q = <<>>
  BY <1>1, FlattenEmpty
<1>2. CASE q # <<>>
  <2> DEFINE u == [i \in 1..Len(q) |-> <<>>]
  <2>1. u \in [1..Len(q) -> Seq(Nat)] /\ Len(q) \in 1..Len(q) /\ <<>> \o <<>> = <<>>
        /\ \A i \in 1..Len(q) : u[i] = <<>> /\ (i # 1 => i - 1 \in 1..Len(q))
    BY <1>2
  <2> HIDE DEF u
  <2>2. Joins(u, q)
    BY <2>1 DEF Joins
  <2> QED BY <1>2, <2>1, <2>2, FlattenJoins
<1> QED BY <1>1, <1>2

-----------------------------------------------------------------------------
(* What the frames carry of a session, as frames come and go.              *)
Chunks(w, s) == [i \in DOMAIN w |-> DataFor(w[i], s)]

LEMMA DataTyped ==
  ASSUME NEW f \in Frame, NEW s \in Session
  PROVE  DataFor(f, s) \in Seq(Nat)
<1>1. <<>> \in Seq(Nat)
  OBVIOUS
<1> QED BY <1>1, OutData DEF DataFor

LEMMA ChunksTyped ==
  ASSUME NEW w \in Seq(Frame), NEW s \in Session
  PROVE  /\ Chunks(w, s) \in Seq(Seq(Nat)) /\ Len(Chunks(w, s)) = Len(w)
         /\ \A i \in 1..Len(w) : Chunks(w, s)[i] = DataFor(w[i], s)
         /\ Carried(w, s) = FlattenSeq(Chunks(w, s))
<1>1. Len(w) \in Nat /\ DOMAIN w = 1..Len(w) /\ \A i \in 1..Len(w) : w[i] \in Frame
  OBVIOUS
<1>2. \A i \in 1..Len(w) : DataFor(w[i], s) \in Seq(Nat)
  BY <1>1, DataTyped
<1>3. Chunks(w, s) = [i \in 1..Len(w) |-> DataFor(w[i], s)]
  BY <1>1 DEF Chunks
<1> QED BY <1>1, <1>2, <1>3, IsASeq DEF Carried, Chunks

LEMMA CarriedTyped ==
  ASSUME NEW w \in Seq(Frame), NEW s \in Session
  PROVE  Carried(w, s) \in Seq(Nat)
  BY ChunksTyped, FlattenTyped

LEMMA CarriedNothing ==
  ASSUME NEW w \in Seq(Frame), NEW s \in Session, \A i \in DOMAIN w : ~IsOut(w[i], s)
  PROVE  Carried(w, s) = <<>>
<1>1. \A i \in 1..Len(w) : Chunks(w, s)[i] = <<>>
  BY ChunksTyped DEF DataFor
<1> QED BY <1>1, ChunksTyped, FlattenNothing

LEMMA CarriedAppend ==
  ASSUME NEW w \in Seq(Frame), NEW f \in Frame, NEW s \in Session
  PROVE  Carried(Append(w, f), s) = Carried(w, s) \o DataFor(f, s)
<1> DEFINE v == Append(w, f)
           q == Chunks(w, s)
           p == Chunks(v, s)
<1>1. /\ v \in Seq(Frame) /\ Len(w) \in Nat /\ Len(v) = Len(w) + 1 /\ v[Len(w) + 1] = f
      /\ \A i \in 1..Len(w) : v[i] = w[i]
  BY AppendProperties
<1>2. /\ q \in Seq(Seq(Nat)) /\ Len(q) = Len(w) /\ \A i \in 1..Len(w) : q[i] = DataFor(w[i], s)
      /\ Carried(w, s) = FlattenSeq(q)
  BY ChunksTyped
<1> HIDE DEF v, q
<1>3. /\ p \in Seq(Seq(Nat)) /\ Len(p) = Len(v) /\ \A i \in 1..Len(v) : p[i] = DataFor(v[i], s)
      /\ Carried(v, s) = FlattenSeq(p)
  BY <1>1, ChunksTyped
<1> HIDE DEF p
<1>4. DataFor(f, s) \in Seq(Nat)
  BY DataTyped
<1>5. p = Append(q, DataFor(f, s))
  <2> DEFINE r == Append(q, DataFor(f, s))
  <2>1. /\ r \in Seq(Seq(Nat)) /\ Len(r) = Len(q) + 1 /\ r[Len(q) + 1] = DataFor(f, s)
        /\ \A i \in 1..Len(q) : r[i] = q[i]
    BY <1>2, <1>4, AppendProperties
  <2> HIDE DEF r
  <2>2. Len(p) = Len(r)
    BY <1>1, <1>2, <1>3, <2>1
  <2>3. \A i \in 1..Len(p) : p[i] = r[i]
    <3> SUFFICES ASSUME NEW i \in 1..Len(p) PROVE p[i] = r[i]
      OBVIOUS
    <3>1. i \in 1..Len(v) /\ (i = Len(w) + 1 \/ i \in 1..Len(w))
      BY <1>1, <1>3
    <3>2. CASE i = Len(w) + 1
      BY <1>1, <1>2, <1>3, <2>1, <3>1, <3>2
    <3>3. CASE i \in 1..Len(w)
      BY <1>1, <1>2, <1>3, <2>1, <3>1, <3>3
    <3> QED BY <3>1, <3>2, <3>3
  <2>4. p = r
    BY <1>3, <2>1, <2>2, <2>3, SeqEqual
  <2> QED BY <2>4 DEF r
<1> QED BY <1>2, <1>3, <1>4, <1>5, FlattenAppend DEF v

LEMMA CarriedFirst ==
  ASSUME NEW w \in Seq(Frame), w # <<>>, NEW s \in Session
  PROVE  Carried(w, s) = DataFor(Head(w), s) \o Carried(Tail(w), s)
<1> DEFINE v == Tail(w)
           q == Chunks(w, s)
           p == Chunks(v, s)
<1>1. /\ v \in Seq(Frame) /\ Len(v) \in Nat /\ Len(w) = Len(v) + 1 /\ Head(w) = w[1]
      /\ \A i \in 1..Len(v) : v[i] = w[i + 1]
  BY HeadTailProperties
<1>2. /\ q \in Seq(Seq(Nat)) /\ Len(q) = Len(w) /\ \A i \in 1..Len(w) : q[i] = DataFor(w[i], s)
      /\ Carried(w, s) = FlattenSeq(q)
  BY ChunksTyped
<1> HIDE DEF v, q
<1>3. /\ p \in Seq(Seq(Nat)) /\ Len(p) = Len(v) /\ \A i \in 1..Len(v) : p[i] = DataFor(v[i], s)
      /\ Carried(v, s) = FlattenSeq(p)
  BY <1>1, ChunksTyped
<1> HIDE DEF p
<1>4. q # <<>>
  BY <1>1, <1>2
<1>5. Tail(q) = p
  <2> DEFINE r == Tail(q)
  <2>1. /\ r \in Seq(Seq(Nat)) /\ Len(r) = Len(q) - 1 /\ Head(q) = q[1]
        /\ \A i \in 1..Len(r) : r[i] = q[i + 1]
    BY <1>2, <1>4, HeadTailProperties
  <2> HIDE DEF r
  <2>2. Len(p) = Len(r)
    BY <1>1, <1>2, <1>3, <2>1
  <2>3. \A i \in 1..Len(p) : p[i] = r[i]
    <3> SUFFICES ASSUME NEW i \in 1..Len(p) PROVE p[i] = r[i]
      OBVIOUS
    <3>1. i \in 1..Len(v) /\ i + 1 \in 1..Len(w) /\ i \in 1..Len(r)
      BY <1>1, <1>3, <2>2
    <3> QED BY <1>1, <1>2, <1>3, <2>1, <3>1
  <2>4. p = r
    BY <1>3, <2>1, <2>2, <2>3, SeqEqual
  <2> QED BY <2>4 DEF r
<1>6. Head(q) = DataFor(Head(w), s)
  BY <1>1, <1>2, <1>4, HeadTailProperties
<1> QED BY <1>2, <1>3, <1>4, <1>5, <1>6, FlattenFirst DEF v

-----------------------------------------------------------------------------
(* The state functions that stand for the variables of OutputStream.       *)
LEMMA EmptyJoins ==
  ASSUME NEW q \in Seq(Nat)
  PROVE  q \o <<>> = q /\ <<>> \o q = q
  OBVIOUS

LEMMA GivenTyped ==
  ASSUME TypeOK, NEW c \in Conn, NEW s \in Session
  PROVE  GivenTo(c, s) \in Seq(Nat)
<1>1. screen[c][s] \in Seq(Nat) /\ s2c[c] \in Seq(Frame)
  BY DEF TypeOK
<1>2. Carried(s2c[c], s) \in Seq(Nat)
  BY <1>1, CarriedTyped
<1>3. screen[c][s] \o Carried(s2c[c], s) \in Seq(Nat)
  BY <1>1, <1>2
<1> QED BY <1>1, <1>3 DEF GivenTo

LEMMA ViewsAre ==
  /\ Views = [c \in Conn |-> [s \in Session |-> GivenTo(c, s)]]
  /\ Views' = [c \in Conn |-> [s \in Session |-> GivenTo(c, s)']]
  /\ Viewers = [s \in Session |-> ViewerOf(s)]
  /\ Viewers' = [s \in Session |-> ViewerOf(s)']
  BY DEF Views, Viewers

(* Steps that cannot be seen from outside.                                 *)
LEMMA Unseen ==
  ASSUME UNCHANGED <<handled, ring, sink>>,
         \A s \in Session : ViewerOf(s)' = ViewerOf(s),
         \A c \in Conn, s \in Session : GivenTo(c, s)' = GivenTo(c, s)
  PROVE  UNCHANGED Promise!streamVars
<1>1. Views' = Views /\ Viewers' = Viewers
  BY ViewsAre, Zenon
<1> QED BY <1>1 DEF Promise!streamVars

(* Who is given the output of s.                                           *)
LEMMA ViewerIs ==
  ASSUME PromiseInv, NEW s \in Session
  PROVE  /\ ViewerOf(s) # NoConn <=> s \in attached /\ CanWrite
         /\ ViewerOf(s) # NoConn => client \in Conn /\ ViewerOf(s) = client
<1>1. /\ client # NoConn => client \in sOpen
      /\ cOpen \subseteq Conn /\ NoConn \notin Conn
  BY HolderAssumption DEF PromiseInv, ConnInv, OrderInv, TypeOK
<1> QED BY <1>1 DEF ViewerOf, CanWrite

(* What a frame written to connection c adds.                              *)
LEMMA GivenAppend ==
  ASSUME TypeOK, NEW c \in Conn, NEW f \in Frame, UNCHANGED <<sink, screen>>,
         s2c' = [s2c EXCEPT ![c] = Append(@, f)],
         NEW d \in Conn, NEW s \in Session
  PROVE  GivenTo(d, s)' = IF d = c /\ s \in sink[c] THEN GivenTo(d, s) \o DataFor(f, s)
                          ELSE GivenTo(d, s)
<1>1. /\ s2c'[d] = IF d = c THEN Append(s2c[d], f) ELSE s2c[d]
      /\ s2c[d] \in Seq(Frame) /\ screen[d][s] \in Seq(Nat)
  BY DEF TypeOK
<1>2. CASE d = c /\ s \in sink[c]
  <2>1. Carried(s2c'[d], s) = Carried(s2c[d], s) \o DataFor(f, s)
    <3>1. s2c'[d] = Append(s2c[d], f)
      BY <1>1, <1>2
    <3>2. Carried(Append(s2c[d], f), s) = Carried(s2c[d], s) \o DataFor(f, s)
      BY <1>1, CarriedAppend
    <3> QED BY <3>1, <3>2, Zenon
  <2>2. /\ Carried(s2c[d], s) \in Seq(Nat) /\ DataFor(f, s) \in Seq(Nat)
    BY <1>1, CarriedTyped, DataTyped
  <2>3. screen[d][s] \o (Carried(s2c[d], s) \o DataFor(f, s))
          = (screen[d][s] \o Carried(s2c[d], s)) \o DataFor(f, s)
    BY <1>1, <2>2, JoinAssociative
  <2> QED BY <1>2, <2>1, <2>3 DEF GivenTo
<1>3. CASE d # c \/ s \notin sink[c]
  BY <1>1, <1>3 DEF GivenTo
<1> QED BY <1>2, <1>3

(* A frame that is no output of s adds nothing to it.                      *)
LEMMA GivenSilent ==
  ASSUME TypeOK, NEW c \in Conn, NEW f \in Frame, UNCHANGED <<sink, screen>>,
         s2c' = [s2c EXCEPT ![c] = Append(@, f)],
         NEW d \in Conn, NEW s \in Session, ~IsOut(f, s)
  PROVE  GivenTo(d, s)' = GivenTo(d, s)
<1>1. DataFor(f, s) = <<>> /\ GivenTo(d, s) \in Seq(Nat)
  BY GivenTyped DEF DataFor
<1>2. GivenTo(d, s)' = IF d = c /\ s \in sink[c] THEN GivenTo(d, s) \o DataFor(f, s)
                       ELSE GivenTo(d, s)
  BY GivenAppend
<1>3. GivenTo(d, s) \o <<>> = GivenTo(d, s)
  BY <1>1, EmptyJoins
<1> QED BY <1>1, <1>2, <1>3, Zenon

(* Nothing at all is given.                                                *)
LEMMA GivenSame ==
  ASSUME UNCHANGED <<sink, screen, s2c>>
  PROVE  \A c \in Conn, s \in Session : GivenTo(c, s)' = GivenTo(c, s)
  BY DEF GivenTo

(* A step that at most loses a client whose end is closed.                 *)
LEMMA ClientLostUnseen ==
  ASSUME PromiseInv, UNCHANGED <<handled, ring, sink, screen, s2c, cOpen>>,
         \/ UNCHANGED <<client, attached>>
         \/ ~CanWrite /\ client' = NoConn
  PROVE  UNCHANGED Promise!streamVars
<1>1. \A s \in Session : ViewerOf(s)' = ViewerOf(s)
  <2>1. CASE UNCHANGED <<client, attached>>
    BY <2>1 DEF ViewerOf
  <2>2. CASE ~CanWrite /\ client' = NoConn
    BY <2>2, ViewerIs DEF ViewerOf
  <2> QED BY <2>1, <2>2
<1> QED BY <1>1, GivenSame, Unseen

(* Writing a frame that is no output.                                      *)
LEMMA SilentUnseen ==
  ASSUME PromiseInv, UNCHANGED <<handled, ring, sink, screen, client, attached, cOpen>>,
         NEW c \in Conn, NEW f \in Frame, f.kind # "out",
         s2c' = [s2c EXCEPT ![c] = Append(@, f)]
  PROVE  UNCHANGED Promise!streamVars
<1>1. \A s \in Session : ViewerOf(s)' = ViewerOf(s)
  BY DEF ViewerOf
<1>2. \A d \in Conn, s \in Session : GivenTo(d, s)' = GivenTo(d, s)
  BY GivenSilent DEF IsOut, PromiseInv, OrderInv
<1> QED BY <1>1, <1>2, Unseen

-----------------------------------------------------------------------------
(* The pumps: a chunk that is forwarded or buffered is emitted.            *)
LEMMA RingWriteIsNewest ==
  ASSUME NEW r \in Seq(Nat), NEW n \in Nat, Len(r) <= RingCapacity
  PROVE  RingWrite(r, n) = Promise!Newest(Append(r, n))
<1>1. RingCapacity \in Nat /\ RingCapacity # 0
  BY HolderAssumption
<1>2. CASE Len(r) < RingCapacity
  BY <1>1, <1>2 DEF RingWrite, Promise!Newest
<1>3. CASE Len(r) = RingCapacity
  <2>1. r # <<>> /\ Len(Append(r, n)) = RingCapacity + 1
    BY <1>1, <1>3
  <2>2. Append(Tail(r), n) = SubSeq(Append(r, n), 2, RingCapacity + 1)
    BY <1>1, <1>3, <2>1
  <2> DEFINE q == Append(r, n)
             k == RingCapacity
  <2>3. ~(Len(q) <= k) /\ Len(q) - k + 1 = 2 /\ Len(q) = k + 1
    BY <1>1, <2>1
  <2>4. RingWrite(r, n) = SubSeq(q, 2, k + 1)
    BY <1>1, <1>3, <2>2 DEF RingWrite
  <2> HIDE DEF q
  <2>5. RingWrite(r, n) = Promise!Newest(q)
    BY <2>3, <2>4 DEF Promise!Newest
  <2> QED BY <2>5 DEF q
<1> QED BY <1>1, <1>2, <1>3

LEMMA PumpForwardEmits ==
  ASSUME PromiseInv, NEW s \in Session, PumpForward(s)
  PROVE  Promise!Emit(s)
<1>1. /\ TypeOK /\ handled[s] \in Nat /\ handled[s] + 1 \in Nat /\ ring[s] \in Seq(Nat)
      /\ Len(ring[s]) <= RingCapacity
  <2>1. TypeOK /\ RingIsNewest
    BY DEF PromiseInv, OrderInv
  <2>2. handled \in [Session -> Nat] /\ ring \in [Session -> Seq(Nat)]
    BY <2>1 DEF TypeOK
  <2> QED BY <2>1, <2>2 DEF RingIsNewest
<1>2. /\ UNCHANGED <<sink, screen, cOpen>>
      /\ handled' = [handled EXCEPT ![s] = @ + 1]
  BY DEF PumpForward, clientVars
<1>3. CASE /\ s \in attached /\ CanWrite /\ WriteToClient(Out(s, <<handled[s] + 1>>))
           /\ UNCHANGED ring
  <2>1. PICK c \in Conn : c = client /\ ViewerOf(s) = c /\ c # NoConn
    BY <1>3, ViewerIs, HolderAssumption
  <2>2. PICK f \in Frame : f = Out(s, <<handled[s] + 1>>)
    <3>1. <<handled[s] + 1>> \in Seq(Nat)
      BY <1>1
    <3> QED BY <3>1, FramesTyped
  <2>3. s2c' = [s2c EXCEPT ![c] = Append(@, f)] /\ UNCHANGED <<client, attached>>
    BY <1>3, <2>1, <2>2 DEF WriteToClient
  <2>4. DataFor(f, s) = <<handled[s] + 1>> /\ \A r \in Session \ {s} : ~IsOut(f, r)
    BY <2>2 DEF DataFor, IsOut, Out
  <2>5. /\ \A d \in Conn, r \in Session \ {s} : GivenTo(d, r)' = GivenTo(d, r)
        /\ \A d \in Conn \ {c} : GivenTo(d, s)' = GivenTo(d, s)
        /\ GivenTo(c, s)' = IF s \in sink[c] THEN GivenTo(c, s) \o <<handled[s] + 1>>
                            ELSE GivenTo(c, s)
    <3>1. \A d \in Conn, r \in Session \ {s} : GivenTo(d, r)' = GivenTo(d, r)
      BY <1>1, <1>2, <2>3, <2>4, GivenSilent
    <3>2. \A d \in Conn :
            GivenTo(d, s)' = IF d = c /\ s \in sink[c] THEN GivenTo(d, s) \o DataFor(f, s)
                             ELSE GivenTo(d, s)
      BY <1>1, <1>2, <2>3, GivenAppend
    <3> QED BY <2>4, <3>1, <3>2, Zenon
  <2>6. Views' = IF s \in sink[c]
                 THEN [Views EXCEPT ![c][s] = @ \o <<handled[s] + 1>>] ELSE Views
    BY <2>5, ViewsAre
  <2>7. Viewers' = Viewers
    <3>1. \A r \in Session : ViewerOf(r)' = ViewerOf(r)
      BY <1>2, <2>3 DEF ViewerOf
    <3> QED BY <3>1, ViewsAre, Zenon
  <2>8. Viewers[s] = c
    BY <2>1, ViewsAre
  <2> QED BY <1>2, <1>3, <2>1, <2>6, <2>7, <2>8 DEF Promise!Emit, Promise!Give
<1>4. CASE /\ ~(s \in attached /\ CanWrite)
           /\ ring' = [ring EXCEPT ![s] = RingWrite(@, handled[s] + 1)]
           /\ UNCHANGED s2c
           /\ UNCHANGED <<client, attached>> \/ (~CanWrite /\ client' = NoConn)
  <2>1. Viewers[s] = NoConn
    BY <1>4, ViewerIs, ViewsAre
  <2>2. Viewers' = Viewers
    <3>1. \A r \in Session : ViewerOf(r)' = ViewerOf(r)
      <4>1. CASE UNCHANGED <<client, attached>>
        BY <1>2, <4>1 DEF ViewerOf
      <4>2. CASE ~CanWrite /\ client' = NoConn
        BY <4>2, ViewerIs DEF ViewerOf
      <4> QED BY <1>4, <4>1, <4>2
    <3> QED BY <3>1, ViewsAre, Zenon
  <2>3. Views' = Views
    BY <1>2, <1>4, GivenSame, ViewsAre, Zenon
  <2>4. ring' = [ring EXCEPT ![s] = Promise!Newest(Append(@, handled[s] + 1))]
    BY <1>1, <1>4, RingWriteIsNewest
  <2> QED BY <1>2, <2>1, <2>2, <2>3, <2>4 DEF Promise!Emit
<1>5. WriteFails => UNCHANGED s2c /\ client' = NoConn
  BY DEF WriteFails
<1> QED BY <1>3, <1>4, <1>5 DEF PumpForward

LEMMA PumpRefines ==
  ASSUME PromiseInv, NEW s \in Session, ProcessExits(s) \/ WaitClosesPt(s) \/ PumpStep(s)
  PROVE  Promise!Emit(s) \/ UNCHANGED Promise!streamVars
<1>1. CASE ProcessExits(s) \/ WaitClosesPt(s) \/ PumpRead(s) \/ PumpEOF(s) \/ PumpStops(s)
  <2>1. UNCHANGED <<handled, ring, sink, screen, s2c, cOpen, client, attached>>
    BY <1>1 DEF ProcessExits, WaitClosesPt, PumpRead, PumpEOF, PumpStops,
                serveVars, sockVars, clientVars
  <2> QED BY <2>1, ClientLostUnseen
<1>2. CASE PumpReports(s)
  <2>1. UNCHANGED <<handled, ring, sink, screen, cOpen>>
    BY <1>2 DEF PumpReports, clientVars
  <2>2. CASE CanWrite /\ WriteToClient(Exited(s))
    <3>1. client \in Conn /\ Exited(s) \in Frame /\ Exited(s).kind # "out"
      BY <2>2 DEF PromiseInv, OrderInv, TypeOK, CanWrite, Exited, Frame
    <3>2. /\ s2c' = [s2c EXCEPT ![client] = Append(@, Exited(s))]
          /\ UNCHANGED <<client, attached>>
      BY <2>2 DEF WriteToClient
    <3> QED BY <2>1, <3>1, <3>2, SilentUnseen
  <2>3. CASE ~CanWrite /\ WriteFails
    <3>1. UNCHANGED s2c /\ client' = NoConn
      BY <2>3 DEF WriteFails
    <3> QED BY <2>1, <2>3, <3>1, ClientLostUnseen
  <2> QED BY <1>2, <2>2, <2>3 DEF PumpReports
<1> QED BY <1>1, <1>2, PumpForwardEmits DEF PumpStep

-----------------------------------------------------------------------------
(* Attaching opens the stream, unless its client has gone or has it open.  *)
LEMMA AttachOpens ==
  ASSUME PromiseInv, NEW s \in Session, UNCHANGED <<handled, sink, screen, cOpen>>,
         AttachReplays(s)
  PROVE  (\E c \in Conn : Promise!Open(c, s)) \/ UNCHANGED Promise!streamVars
<1>1. TypeOK /\ ring[s] \in Seq(Nat) /\ SubscribedNothingKept
  <2>1. TypeOK /\ SubscribedNothingKept
    BY DEF PromiseInv, OrderInv
  <2>2. ring \in [Session -> Seq(Nat)]
    BY <2>1 DEF TypeOK
  <2> QED BY <2>1, <2>2
<1>2. CASE ~CanWrite
  <2>1. ring[s] = <<>> \/ ring[s] # <<>>
    OBVIOUS
  <2>2. UNCHANGED <<ring, s2c>> /\ (UNCHANGED client \/ client' = NoConn)
    BY <1>2 DEF AttachReplays
  <2>3. \A r \in Session : ViewerOf(r)' = ViewerOf(r)
    <3> SUFFICES ASSUME NEW r \in Session PROVE ViewerOf(r)' = NoConn /\ ViewerOf(r) = NoConn
      OBVIOUS
    <3>1. ViewerOf(r) = NoConn
      BY <1>2, ViewerIs
    <3>2. client = NoConn \/ client \notin cOpen
      BY <1>2 DEF PromiseInv, ConnInv, CanWrite
    <3> QED BY <2>2, <3>1, <3>2 DEF ViewerOf
  <2> QED BY <2>2, <2>3, GivenSame, Unseen
<1>3. CASE CanWrite
  <2>1. PICK c \in Conn : c = client /\ c # NoConn /\ c \in cOpen
    BY <1>1, <1>3, HolderAssumption DEF CanWrite, TypeOK
  <2>2. /\ attached' = attached \cup {s} /\ UNCHANGED client
        /\ \/ ring[s] = <<>> /\ UNCHANGED <<ring, s2c>>
           \/ /\ ring[s] # <<>> /\ ring' = [ring EXCEPT ![s] = <<>>]
              /\ s2c' = [s2c EXCEPT ![c] = Append(@, Out(s, ring[s]))]
    BY <1>3, <2>1 DEF AttachReplays
  <2>3. CASE s \in attached
    <3>1. ring[s] = <<>>
      BY <1>1, <2>1, <2>3 DEF SubscribedNothingKept
    <3>2. UNCHANGED <<ring, s2c, client, attached>>
      BY <2>2, <2>3, <3>1
    <3> QED BY <3>2, ClientLostUnseen
  <2>4. CASE s \notin attached
    <3>1. Viewers[s] = NoConn /\ Viewers' = [Viewers EXCEPT ![s] = c]
      <4>1. ViewerOf(s) = NoConn /\ ViewerOf(s)' = c
        BY <2>1, <2>2, <2>4 DEF ViewerOf
      <4>2. \A r \in Session \ {s} : ViewerOf(r)' = ViewerOf(r)
        BY <2>2 DEF ViewerOf
      <4> QED BY <4>1, <4>2, ViewsAre
    <3>2. ring' = [ring EXCEPT ![s] = <<>>]
      BY <1>1, <2>2 DEF TypeOK
    <3>3. /\ \A d \in Conn, r \in Session \ {s} : GivenTo(d, r)' = GivenTo(d, r)
          /\ \A d \in Conn : GivenTo(d, s)' = IF d = c /\ s \in sink[c]
                                              THEN GivenTo(d, s) \o ring[s] ELSE GivenTo(d, s)
      <4>1. CASE ring[s] = <<>> /\ UNCHANGED s2c
        <5>1. \A d \in Conn : GivenTo(d, s) \o ring[s] = GivenTo(d, s)
          BY <1>1, <4>1, GivenTyped, EmptyJoins
        <5> QED BY <4>1, <5>1, GivenSame
      <4>2. CASE s2c' = [s2c EXCEPT ![c] = Append(@, Out(s, ring[s]))]
        <5>1. PICK f \in Frame : f = Out(s, ring[s])
          BY <1>1, FramesTyped
        <5>2. DataFor(f, s) = ring[s] /\ \A r \in Session \ {s} : ~IsOut(f, r)
          BY <5>1 DEF DataFor, IsOut, Out
        <5>3. s2c' = [s2c EXCEPT ![c] = Append(@, f)]
          BY <4>2, <5>1
        <5>4. \A d \in Conn, r \in Session \ {s} : GivenTo(d, r)' = GivenTo(d, r)
          BY <1>1, <5>2, <5>3, GivenSilent
        <5>5. \A d \in Conn :
                GivenTo(d, s)' = IF d = c /\ s \in sink[c] THEN GivenTo(d, s) \o DataFor(f, s)
                                 ELSE GivenTo(d, s)
          BY <1>1, <5>3, GivenAppend
        <5> QED BY <5>2, <5>4, <5>5, Zenon
      <4> QED BY <2>2, <4>1, <4>2
    <3>4. Views' = IF s \in sink[c] THEN [Views EXCEPT ![c][s] = @ \o ring[s]] ELSE Views
      BY <3>3, ViewsAre
    <3>5. Promise!Open(c, s)
      BY <3>1, <3>2, <3>4 DEF Promise!Open, Promise!Give
    <3> QED BY <3>5
  <2> QED BY <2>3, <2>4
<1> QED BY <1>2, <1>3

(* A part of what a client was given, from its beginning.                  *)
LEMMA ScreenIsPrefix ==
  ASSUME TypeOK, NEW c \in Conn, NEW s \in Session
  PROVE  screen[c][s] \in Promise!Prefixes(GivenTo(c, s))
<1>1. screen[c][s] \in Seq(Nat) /\ Carried(s2c[c], s) \in Seq(Nat)
  BY CarriedTyped DEF TypeOK
<1>2. ASSUME NEW q \in Seq(Nat), NEW r \in Seq(Nat)
      PROVE  q \in Promise!Prefixes(q \o r) /\ q \in Promise!Prefixes(q)
  <2>1. /\ Len(q) \in Nat /\ Len(r) \in Nat /\ Len(q \o r) = Len(q) + Len(r)
    OBVIOUS
  <2>2. q = SubSeq(q \o r, 1, Len(q)) /\ Len(q) \in 0..Len(q \o r)
    BY <2>1
  <2>3. q = SubSeq(q, 1, Len(q)) /\ Len(q) \in 0..Len(q)
    BY <2>1
  <2> QED BY <2>2, <2>3 DEF Promise!Prefixes
<1> QED BY <1>1, <1>2 DEF GivenTo

LEMMA WholeIsPrefix ==
  ASSUME NEW q \in Seq(Nat)
  PROVE  q \in Promise!Prefixes(q)
<1>1. q = SubSeq(q, 1, Len(q)) /\ Len(q) \in 0..Len(q)
  OBVIOUS
<1> QED BY <1>1 DEF Promise!Prefixes

(* A client leaves; what it was given may lose its end.                    *)
LEMMA LeaveStep ==
  ASSUME UNCHANGED <<handled, ring, sink>>, NEW c \in Conn,
         \A s \in Session : ViewerOf(s)' = IF ViewerOf(s) = c THEN NoConn ELSE ViewerOf(s),
         \A d \in Conn \ {c}, s \in Session : GivenTo(d, s)' = GivenTo(d, s),
         \A s \in Session : GivenTo(c, s)' \in Promise!Prefixes(GivenTo(c, s))
  PROVE  Promise!Leave(c)
<1> DEFINE cut == [s \in Session |-> GivenTo(c, s)']
           old(s) == Promise!Prefixes(GivenTo(c, s))
<1>1. Viewers' = [s \in Session |-> IF Viewers[s] = c THEN NoConn ELSE Viewers[s]]
  <2>1. \A s \in Session : Viewers[s] = ViewerOf(s)
    BY ViewsAre
  <2> QED BY <2>1, ViewsAre
<1>2. Views' = [Views EXCEPT ![c] = cut]
  BY ViewsAre
<1>3. \A s \in Session : Views[c][s] = GivenTo(c, s)
  BY ViewsAre
<1>4. \A s \in Session : cut[s] \in Promise!Prefixes(Views[c][s])
  BY <1>3
<1>5. cut \in [Session -> UNION {Promise!Prefixes(Views[c][s]) : s \in Session}]
  <2>1. cut = [s \in Session |-> cut[s]]
    OBVIOUS
  <2> HIDE DEF cut
  <2> QED BY <1>4, <2>1
<1> HIDE DEF cut
<1> QED BY <1>1, <1>2, <1>4, <1>5 DEF Promise!Leave

(* A client stops listening to one session.                                *)
LEMMA GiveUpStep ==
  ASSUME TypeOK, UNCHANGED <<handled, ring, client, attached, cOpen, screen>>,
         NEW c \in Conn, NEW s \in Session,
         sink' = [sink EXCEPT ![c] = @ \ {s}],
         \A d \in Conn, r \in Session :
           d # c \/ r # s => GivenTo(d, r)' = GivenTo(d, r)
  PROVE  Promise!GiveUp(c, s)
<1>1. Viewers' = Viewers
  <2>1. \A r \in Session : ViewerOf(r)' = ViewerOf(r)
    BY DEF ViewerOf
  <2> QED BY <2>1, ViewsAre, Zenon
<1>2. GivenTo(c, s)' = screen[c][s]
  <2>1. s \notin sink'[c]
    BY DEF TypeOK
  <2> QED BY <2>1 DEF GivenTo
<1>3. Views' = [Views EXCEPT ![c][s] = screen[c][s]]
  BY <1>2, ViewsAre
<1>4. screen[c][s] \in Promise!Prefixes(Views[c][s])
  BY ScreenIsPrefix, ViewsAre
<1> QED BY <1>1, <1>3, <1>4 DEF Promise!GiveUp

-----------------------------------------------------------------------------
LEMMA ServeRefines ==
  ASSUME PromiseInv, ServeStep
  PROVE  \/ \E c \in Conn : Promise!Leave(c)
         \/ \E c \in Conn, s \in Session : Promise!Open(c, s)
         \/ UNCHANGED Promise!streamVars
<1>1. TypeOK /\ ClientServed /\ ConnInv
  BY DEF PromiseInv, OrderInv, ExitInv
<1>2. UNCHANGED <<handled, sink, screen, cOpen>>
  BY DEF ServeStep, Accept, ServeEnds, HandleStart, HandleStartFails, HandleAttach,
         AttachReadsRunning, HandleKill, HandleQuery, ServeReplies, HandleShutdown, Shutdown,
         holderVars, sockVars, clientVars
<1>3. CASE HandleStart \/ HandleStartFails \/ AttachReadsRunning \/ HandleKill \/ HandleQuery
  <2>1. UNCHANGED <<ring, s2c, client, attached>>
    BY <1>3 DEF HandleStart, HandleStartFails, AttachReadsRunning, HandleKill, HandleQuery,
                holderVars, sockVars
  <2> QED BY <1>2, <2>1, ClientLostUnseen
<1>4. CASE Accept
  <2>1. client = NoConn /\ attached' = {}
    BY <1>1, <1>4 DEF Accept, ConnInv, ClientServed
  <2>2. \A s \in Session : ViewerOf(s)' = ViewerOf(s)
    BY <2>1 DEF ViewerOf
  <2>3. UNCHANGED <<ring, s2c>>
    BY <1>4 DEF Accept, holderVars
  <2> QED BY <1>2, <2>2, <2>3, GivenSame, Unseen
<1>5. CASE ServeEnds
  <2>1. UNCHANGED <<ring, s2c>>
    BY <1>5 DEF ServeEnds, holderVars
  <2>2. UNCHANGED <<client, attached>> \/ (~CanWrite /\ client' = NoConn)
    BY <1>1, <1>5 DEF ServeEnds, CanWrite
  <2> QED BY <1>2, <2>1, <2>2, ClientLostUnseen
<1>6. CASE HandleAttach
  <2>1. PICK s \in Session : AttachUnknown(s) \/ AttachReplays(s)
    BY <1>1, <1>6, AttachCases
  <2>2. CASE AttachUnknown(s)
    BY <1>2, <2>2, ClientLostUnseen DEF AttachUnknown
  <2> QED BY <1>2, <2>1, <2>2, AttachOpens
<1>7. CASE ServeReplies
  <2>1. UNCHANGED <<ring, client, attached>>
    BY <1>7 DEF ServeReplies, holderVars
  <2>2. CASE serving \in cOpen \cap sOpen
    <3>1. serving \in Conn /\ resp \in Frame /\ resp.kind # "out"
      BY <1>1, <2>2, ResponsesAreFrames DEF TypeOK
    <3>2. s2c' = [s2c EXCEPT ![serving] = Append(@, resp)]
      BY <1>7, <2>2 DEF ServeReplies
    <3> QED BY <1>2, <2>1, <3>1, <3>2, SilentUnseen
  <2>3. CASE UNCHANGED s2c
    BY <1>2, <2>1, <2>3, ClientLostUnseen
  <2> QED BY <1>7, <2>2, <2>3 DEF ServeReplies
<1>8. CASE HandleShutdown
  <2>1. UNCHANGED <<ring, client, attached>>
    BY <1>8 DEF HandleShutdown, holderVars
  <2>2. CASE serving \in cOpen
    <3>1. serving \in Conn /\ Answer \in Frame /\ Answer.kind # "out"
      BY <1>1, <2>2 DEF TypeOK, Frame, Answer
    <3>2. s2c' = [s2c EXCEPT ![serving] = Append(@, Answer)]
      BY <1>8, <2>2 DEF HandleShutdown
    <3> QED BY <1>2, <2>1, <3>1, <3>2, SilentUnseen
  <2>3. CASE UNCHANGED s2c
    BY <1>2, <2>1, <2>3, ClientLostUnseen
  <2> QED BY <1>8, <2>2, <2>3 DEF HandleShutdown
<1>9. CASE Shutdown
  <2>1. UNCHANGED <<ring, s2c>> /\ client' = NoConn
    BY <1>9 DEF Shutdown
  <2>2. CASE ~CanWrite
    BY <1>2, <2>1, <2>2, ClientLostUnseen
  <2>3. CASE CanWrite
    <3>1. PICK c \in Conn : c = client
      BY <1>1, <2>3 DEF CanWrite, TypeOK
    <3>2. \A s \in Session : ViewerOf(s)' = IF ViewerOf(s) = c THEN NoConn ELSE ViewerOf(s)
      BY <2>1, <3>1 DEF ViewerOf
    <3>3. \A d \in Conn, s \in Session :
            /\ GivenTo(d, s)' = GivenTo(d, s)
            /\ GivenTo(d, s) \in Promise!Prefixes(GivenTo(d, s))
      BY <1>1, <1>2, <2>1, GivenSame, GivenTyped, WholeIsPrefix
    <3>4. Promise!Leave(c)
      BY <1>2, <2>1, <3>2, <3>3, LeaveStep
    <3> QED BY <3>4
  <2> QED BY <2>2, <2>3
<1> QED BY <1>3, <1>4, <1>5, <1>6, <1>7, <1>8, <1>9 DEF ServeStep

(* Reading a frame moves it from the wire to the screen.                   *)
LEMMA ClientReadsRefines ==
  ASSUME PromiseInv, NEW c \in Conn, ClientReads(c)
  PROVE  (\E s \in Session : Promise!GiveUp(c, s)) \/ UNCHANGED Promise!streamVars
<1>1. TypeOK
  BY DEF PromiseInv, OrderInv
<1>2. PICK f \in Frame :
        /\ f = Head(s2c[c]) /\ (f = Answer \/ (f.id \in Session /\ f.data \in Seq(Nat)))
        /\ \/ TakesOutput(c, f) \/ TakesExit(c, f) \/ TakesAttached(c, f)
           \/ TakesNoSession(c, f) \/ TakesAnswer(f)
  BY <1>1, FrameRead
<1>3. /\ s2c[c] \in Seq(Frame) /\ s2c[c] # <<>> /\ s2c' = [s2c EXCEPT ![c] = Tail(@)]
      /\ UNCHANGED <<handled, ring, client, attached, cOpen>>
  BY <1>1, FrameRead DEF holderVars, serveVars
<1>4. \A s \in Session : ViewerOf(s)' = ViewerOf(s)
  BY <1>3 DEF ViewerOf
<1>5. \A d \in Conn : s2c'[d] = IF d = c THEN Tail(s2c[c]) ELSE s2c[d]
  BY <1>1, <1>3 DEF TypeOK
<1>6. ASSUME NEW s \in Session, ~IsOut(f, s)
      PROVE  Carried(s2c'[c], s) = Carried(s2c[c], s)
  <2>1. DataFor(f, s) = <<>> /\ s2c'[c] = Tail(s2c[c])
    BY <1>5, <1>6 DEF DataFor
  <2>2. Carried(s2c[c], s) = DataFor(f, s) \o Carried(Tail(s2c[c]), s)
    BY <1>2, <1>3, CarriedFirst
  <2>3. Tail(s2c[c]) \in Seq(Frame)
    BY <1>3
  <2>4. Carried(Tail(s2c[c]), s) \in Seq(Nat)
    BY <2>3, CarriedTyped
  <2> QED BY <2>1, <2>2, <2>4, EmptyJoins
<1>7. CASE TakesOutput(c, f)
  <2>1. f.kind = "out" /\ UNCHANGED sink /\ f.id \in Session /\ f.data \in Seq(Nat)
    <3>1. f.kind = "out" /\ UNCHANGED sink
      BY <1>7 DEF TakesOutput
    <3> QED BY <1>2, <3>1 DEF Answer
  <2>2. \A d \in Conn, s \in Session :
          screen'[d][s] = IF d = c /\ s = f.id /\ s \in sink[c]
                          THEN screen[d][s] \o f.data ELSE screen[d][s]
    BY <1>1, <1>7, <2>1 DEF TakesOutput, TypeOK
  <2>3. ASSUME NEW d \in Conn, NEW s \in Session
        PROVE  GivenTo(d, s)' = GivenTo(d, s)
    <3>1. CASE d # c
      BY <1>5, <2>1, <2>2, <3>1 DEF GivenTo
    <3>2. CASE d = c /\ s # f.id
      <4>1. Carried(s2c'[c], s) = Carried(s2c[c], s)
        BY <1>6, <3>2 DEF IsOut
      <4> QED BY <2>1, <2>2, <3>2, <4>1 DEF GivenTo
    <3>3. CASE d = c /\ s = f.id /\ s \notin sink[c]
      BY <2>1, <2>2, <3>3 DEF GivenTo
    <3>4. CASE d = c /\ s = f.id /\ s \in sink[c]
      <4>1. Carried(s2c[c], s) = f.data \o Carried(Tail(s2c[c]), s)
        <5>1. DataFor(f, s) = f.data
          BY <2>1, <3>4 DEF DataFor, IsOut
        <5> QED BY <1>2, <1>3, <5>1, CarriedFirst
      <4>2. Tail(s2c[c]) \in Seq(Frame) /\ screen[c][s] \in Seq(Nat)
        BY <1>1, <1>3 DEF TypeOK
      <4>3. Carried(Tail(s2c[c]), s) \in Seq(Nat)
        BY <4>2, CarriedTyped
      <4>4. screen[c][s] \o (f.data \o Carried(Tail(s2c[c]), s))
              = (screen[c][s] \o f.data) \o Carried(Tail(s2c[c]), s)
        <5>1. f.data \in Seq(Nat)
          BY <2>1
        <5> QED BY <4>2, <4>3, <5>1, JoinAssociative, ZenonT(30)
      <4>5. s2c'[c] = Tail(s2c[c]) /\ screen'[c][s] = screen[c][s] \o f.data
        BY <1>5, <2>2, <3>4
      <4> QED BY <2>1, <3>4, <4>1, <4>4, <4>5, Zenon DEF GivenTo
    <3> QED BY <3>1, <3>2, <3>3, <3>4
  <2> QED BY <1>3, <1>4, <2>1, <2>3, Unseen
<1>8. CASE f.kind # "out"
  <2>1. \A s \in Session : Carried(s2c'[c], s) = Carried(s2c[c], s)
    BY <1>6, <1>8 DEF IsOut
  <2>2. \A d \in Conn, s \in Session : Carried(s2c'[d], s) = Carried(s2c[d], s)
    BY <1>5, <2>1
  <2>3. CASE TakesNoSession(c, f)
    <3>1. f.id \in Session
      BY <1>2, <2>3 DEF TakesNoSession, Answer
    <3>2. sink' = [sink EXCEPT ![c] = @ \ {f.id}] /\ UNCHANGED screen
      BY <2>3 DEF TakesNoSession
    <3>3. ASSUME NEW d \in Conn, NEW r \in Session, d # c \/ r # f.id
          PROVE  GivenTo(d, r)' = GivenTo(d, r)
      <4>1. r \in sink'[d] <=> r \in sink[d]
        BY <1>1, <3>2, <3>3 DEF TypeOK
      <4> QED BY <2>2, <3>2, <4>1 DEF GivenTo
    <3>4. Promise!GiveUp(c, f.id)
      BY <1>1, <1>3, <3>1, <3>2, <3>3, GiveUpStep
    <3> QED BY <3>1, <3>4
  <2>4. CASE UNCHANGED <<sink, screen>>
    <3>1. \A d \in Conn, s \in Session : GivenTo(d, s)' = GivenTo(d, s)
      BY <2>2, <2>4 DEF GivenTo
    <3> QED BY <1>3, <1>4, <2>4, <3>1, Unseen
  <2> QED BY <1>2, <1>8, <2>3, <2>4
          DEF TakesOutput, TakesExit, TakesAttached, TakesAnswer
<1> QED BY <1>2, <1>7, <1>8 DEF TakesExit, TakesAttached, TakesNoSession, TakesAnswer, Answer

LEMMA SendAttachListens ==
  ASSUME PromiseInv, NEW c \in Conn, NEW s \in Session, SendAttach(c, s)
  PROVE  Promise!Listen(c, s)
<1>1. TypeOK /\ SubInv
  BY DEF PromiseInv, OrderInv
<1>2. /\ s \notin asked[c] /\ sink' = [sink EXCEPT ![c] = @ \cup {s}]
      /\ UNCHANGED <<handled, ring, client, attached, cOpen, s2c, screen>>
  BY DEF SendAttach, holderVars, serveVars
<1>3. Viewers' = Viewers
  <2>1. \A r \in Session : ViewerOf(r)' = ViewerOf(r)
    BY <1>2 DEF ViewerOf
  <2> QED BY <2>1, ViewsAre, Zenon
<1>4. ASSUME NEW d \in Conn, NEW r \in Session
      PROVE  GivenTo(d, r)' = GivenTo(d, r)
  <2>1. CASE d # c \/ r # s
    <3>1. r \in sink'[d] <=> r \in sink[d]
      BY <1>1, <1>2, <2>1 DEF TypeOK
    <3> QED BY <1>2, <3>1 DEF GivenTo
  <2>2. CASE d = c /\ r = s
    <3>1. s2c[c] \in Seq(Frame) /\ screen[c][s] \in Seq(Nat)
      BY <1>1 DEF TypeOK
    <3>2. \A i \in DOMAIN s2c[c] : ~IsOut(s2c[c][i], s)
      BY <1>1, <1>2 DEF SubInv, OnlySubscribed, IsOut
    <3>3. Carried(s2c[c], s) = <<>>
      BY <3>1, <3>2, CarriedNothing
    <3>4. screen[c][s] \o Carried(s2c[c], s) = screen[c][s]
      BY <3>1, <3>3, EmptyJoins
    <3>5. UNCHANGED <<screen, s2c>>
      BY <1>2
    <3> QED BY <2>2, <3>4, <3>5, Zenon DEF GivenTo
  <2> QED BY <2>1, <2>2
<1>5. Views' = Views
  BY <1>4, ViewsAre, Zenon
<1> QED BY <1>2, <1>3, <1>5 DEF Promise!Listen

LEMMA ClientRefines ==
  ASSUME PromiseInv, NEW c \in Conn, ClientStep(c)
  PROVE  \/ Promise!Leave(c)
         \/ \E s \in Session : Promise!Listen(c, s) \/ Promise!GiveUp(c, s)
         \/ UNCHANGED Promise!streamVars
<1>1. TypeOK /\ ClientServed /\ ConnInv
  BY DEF PromiseInv, OrderInv, ExitInv
<1>2. CASE Dial(c)
  <2>1. c # client \/ client = NoConn
    BY <1>1, <1>2 DEF Dial, ConnInv, ClientServed
  <2>2. UNCHANGED <<handled, ring, sink, screen, s2c, client, attached>> /\ cOpen' = cOpen \cup {c}
    BY <1>2 DEF Dial, holderVars
  <2>3. \A s \in Session : ViewerOf(s)' = ViewerOf(s)
    BY <2>1, <2>2, HolderAssumption DEF ViewerOf
  <2> QED BY <2>2, <2>3, GivenSame, Unseen
<1>3. CASE SendRequest(c)
  <2>1. UNCHANGED <<handled, ring, sink, screen, s2c, client, attached, cOpen>>
    BY <1>3 DEF SendRequest, holderVars, serveVars
  <2> QED BY <2>1, ClientLostUnseen
<1>4. CASE ClientCloses(c)
  <2>1. /\ UNCHANGED <<handled, ring, sink, screen, client, attached>>
        /\ cOpen' = cOpen \ {c} /\ s2c' = [s2c EXCEPT ![c] = <<>>]
    BY <1>4 DEF ClientCloses, holderVars, serveVars, clientVars
  <2>2. \A s \in Session : ViewerOf(s)' = IF ViewerOf(s) = c THEN NoConn ELSE ViewerOf(s)
    BY <2>1, HolderAssumption DEF ViewerOf
  <2>3. \A d \in Conn : s2c'[d] = IF d = c THEN <<>> ELSE s2c[d]
    BY <1>1, <2>1 DEF TypeOK
  <2>4. \A d \in Conn \ {c}, s \in Session : GivenTo(d, s)' = GivenTo(d, s)
    BY <2>1, <2>3 DEF GivenTo
  <2>5. ASSUME NEW s \in Session
        PROVE  GivenTo(c, s)' \in Promise!Prefixes(GivenTo(c, s))
    <3>1. screen[c][s] \in Seq(Nat) /\ <<>> \in Seq(Frame) /\ DOMAIN <<>> = {}
      BY <1>1 DEF TypeOK
    <3>2. Carried(<<>>, s) = <<>>
      BY <3>1, CarriedNothing
    <3>3. screen[c][s] \o Carried(<<>>, s) = screen[c][s]
      BY <3>1, <3>2, EmptyJoins
    <3>4. s2c'[c] = <<>> /\ screen' = screen
      BY <2>1, <2>3
    <3>5. GivenTo(c, s)' = screen[c][s]
      BY <3>3, <3>4, Zenon DEF GivenTo
    <3> QED BY <1>1, <3>5, ScreenIsPrefix
  <2> QED BY <2>1, <2>2, <2>4, <2>5, LeaveStep
<1>5. ASSUME NEW s \in Session, AttachTimesOut(c, s)
      PROVE  Promise!GiveUp(c, s)
  <2>1. /\ UNCHANGED <<handled, ring, client, attached, cOpen, screen, s2c>>
        /\ sink' = [sink EXCEPT ![c] = @ \ {s}]
    BY <1>5 DEF AttachTimesOut, holderVars, serveVars, sockVars
  <2>2. ASSUME NEW d \in Conn, NEW r \in Session, d # c \/ r # s
        PROVE  GivenTo(d, r)' = GivenTo(d, r)
    <3>1. r \in sink'[d] <=> r \in sink[d]
      BY <1>1, <2>1, <2>2 DEF TypeOK
    <3> QED BY <2>1, <3>1 DEF GivenTo
  <2> QED BY <1>1, <2>1, <2>2, GiveUpStep
<1> QED BY <1>2, <1>3, <1>4, <1>5, ClientReadsRefines, SendAttachListens DEF ClientStep

LEMMA StepRefines ==
  PromiseInv /\ [Next]_vars => [Promise!StreamStep]_(Promise!streamVars)
<1> SUFFICES ASSUME PromiseInv, [Next]_vars
             PROVE  Promise!StreamStep \/ UNCHANGED Promise!streamVars
  OBVIOUS
<1>1. CASE UNCHANGED vars
  <2>1. UNCHANGED <<handled, ring, sink, screen, s2c, cOpen, client, attached>>
    BY <1>1 DEF vars, holderVars, serveVars, sockVars, clientVars
  <2> QED BY <2>1, ClientLostUnseen
<1> QED BY <1>1, PumpRefines, ServeRefines, ClientRefines DEF Next, Promise!StreamStep

LEMMA InitRefines == Init => Promise!Start
<1> SUFFICES ASSUME Init PROVE Promise!Start
  OBVIOUS
<1>1. \A s \in Session : ViewerOf(s) = NoConn
  BY DEF Init, ViewerOf
<1>2. \A c \in Conn, s \in Session : GivenTo(c, s) = <<>>
  BY DEF Init, GivenTo
<1>3. Viewers = [s \in Session |-> NoConn] /\ Views = [c \in Conn |-> [s \in Session |-> <<>>]]
  BY <1>1, <1>2, ViewsAre
<1> QED BY <1>3 DEF Init, Promise!Start

(* The holder implements OutputStream: whatever the locks, failed writes,  *)
(* timeouts and closing clients, what is buffered and what each client was *)
(* given are those of a stream with one viewer at a time that keeps the    *)
(* newest chunks while there is none, replays them to the next, and loses  *)
(* at most the end of what a leaving viewer was sent (PromiseKept).        *)
THEOREM HolderKeepsPromise == Spec => PromiseKept
  BY InitPromise, StepPromise, InitRefines, StepRefines, PTL
     DEF Spec, PromiseKept, Promise!StreamSpec
=============================================================================
