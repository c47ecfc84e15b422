---------------------------- MODULE OutputStream ----------------------------
(***************************************************************************)
(* What the session holder promises about the output of the programs it    *)
(* owns, with no sockets, locks, threads or requests: a stream has at most *)
(* one viewer; without one its newest chunks are kept; a viewer that comes *)
(* is first given what was kept and from then on everything, in order; a   *)
(* viewer that leaves loses at most the end of what was on its way.        *)
(***************************************************************************)
EXTENDS Integers, Sequences

CONSTANTS
  Viewer,    \* those who may view a stream
  NoViewer,  \* none of them
  Stream,    \* the streams
  Capacity   \* chunks kept of a stream that nobody views, at least one

VARIABLES
  emitted,    \* chunks each stream has produced
  kept,       \* chunks kept for the next viewer
  viewer,     \* who is being given the stream
  listening,  \* streams each viewer is prepared to receive
  view        \* chunks given to each viewer, by stream

streamVars == <<emitted, kept, viewer, listening, view>>

Start ==
  /\ emitted = [s \in Stream |-> 0]
  /\ kept = [s \in Stream |-> <<>>]
  /\ viewer = [s \in Stream |-> NoViewer]
  /\ listening = [v \in Viewer |-> {}]
  /\ view = [v \in Viewer |-> [s \in Stream |-> <<>>]]

(* The newest chunks of q that fit.                                        *)
Newest(q) == IF Len(q) <= Capacity THEN q ELSE SubSeq(q, Len(q) - Capacity + 1, Len(q))

(* q shortened at its end, or as it is.                                    *)
Prefixes(q) == {SubSeq(q, 1, n) : n \in 0..Len(q)}

Give(v, s, chunks) ==
  view' = IF s \in listening[v] THEN [view EXCEPT ![v][s] = @ \o chunks] ELSE view

Emit(s) ==
  /\ emitted' = [emitted EXCEPT ![s] = @ + 1]
  /\ \/ /\ viewer[s] = NoViewer
        /\ kept' = [kept EXCEPT ![s] = Newest(Append(@, emitted[s] + 1))]
        /\ UNCHANGED view
     \/ /\ viewer[s] # NoViewer
        /\ Give(viewer[s], s, <<emitted[s] + 1>>)
        /\ UNCHANGED kept
  /\ UNCHANGED <<viewer, listening>>

Listen(v, s) ==
  /\ listening' = [listening EXCEPT ![v] = @ \cup {s}]
  /\ UNCHANGED <<emitted, kept, viewer, view>>

(* A stream is opened by one viewer at a time.                             *)
Open(v, s) ==
  /\ viewer[s] = NoViewer
  /\ viewer' = [viewer EXCEPT ![s] = v]
  /\ Give(v, s, kept[s])
  /\ kept' = [kept EXCEPT ![s] = <<>>]
  /\ UNCHANGED <<emitted, listening>>

(* A viewer stops listening to one stream: the open call failed.           *)
GiveUp(v, s) ==
  /\ listening' = [listening EXCEPT ![v] = @ \ {s}]
  /\ \E q \in Prefixes(view[v][s]) : view' = [view EXCEPT ![v][s] = q]
  /\ UNCHANGED <<emitted, kept, viewer>>

(* A viewer goes away altogether.                                          *)
Leave(v) ==
  /\ viewer' = [s \in Stream |-> IF viewer[s] = v THEN NoViewer ELSE viewer[s]]
  /\ \E cut \in [Stream -> UNION {Prefixes(view[v][s]) : s \in Stream}] :
       /\ \A s \in Stream : cut[s] \in Prefixes(view[v][s])
       /\ view' = [view EXCEPT ![v] = cut]
  /\ UNCHANGED <<emitted, kept, listening>>

StreamStep ==
  \/ \E s \in Stream : Emit(s)
  \/ \E v \in Viewer : Leave(v)
  \/ \E v \in Viewer, s \in Stream : Listen(v, s) \/ Open(v, s) \/ GiveUp(v, s)

StreamSpec == Start /\ [][StreamStep]_streamVars
=============================================================================
