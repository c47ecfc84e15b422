-------------------------- MODULE HolderRefinement --------------------------
(* The holder keeps the promise of OutputStream.                           *)
EXTENDS Holder, SequencesExt

(* What the frames w carry of a session, in order.                         *)
DataFor(f, s) == IF IsOut(f, s) THEN f.data ELSE <<>>

Carried(w, s) == FlattenSeq([i \in DOMAIN w |-> DataFor(w[i], s)])

(* What a client has been given of a session and still wants: its screen,  *)
(* then what is on the wire, unless its sink is gone and readLoop will     *)
(* throw that away.                                                        *)
GivenTo(c, s) ==
  IF s \in sink[c] THEN screen[c][s] \o Carried(s2c[c], s) ELSE screen[c][s]

(* A session has a viewer from its subscription to the moment the client's *)
(* end closes; that the holder only notices later is not visible.          *)
ViewerOf(s) == IF s \in attached /\ client \in cOpen THEN client ELSE NoConn

Viewers == [s \in Session |-> ViewerOf(s)]

Views == [c \in Conn |-> [s \in Session |-> GivenTo(c, s)]]

Promise == INSTANCE OutputStream WITH
  Viewer <- Conn, NoViewer <- NoConn, Stream <- Session, Capacity <- RingCapacity,
  emitted <- handled, kept <- ring,
  viewer <- Viewers,
  listening <- sink,
  view <- Views

(* Every step of the holder and its clients is a step of OutputStream or   *)
(* leaves it alone: locks, the write error found late, the order of        *)
(* subscribing and replaying and the gap between reading a chunk and       *)
(* forwarding it cannot be seen from outside.                              *)
PromiseKept == Promise!StreamSpec
=============================================================================
