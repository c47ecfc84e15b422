----------------------------- MODULE InputQueue -----------------------------
(***************************************************************************)
(* The input of a pane: keys and automation input are queued, one          *)
(* goroutine writes them to the child (internal/term/pane.go: Write,       *)
(* TryWrite, inputQueue, inputWriter).                                     *)
(*                                                                         *)
(* The queue has one mutex and one condition variable, on which both the   *)
(* writer and the callers of FlushInput wait: what runs between Lock and   *)
(* Unlock (or Wait) is one step here.  Signal wakes the goroutine that has *)
(* waited longest, Broadcast all of them; either has to get the mutex      *)
(* again before it looks at the queue.  The update loop is the only caller *)
(* of Write and TryWrite; the end of the process comes from elsewhere.     *)
(***************************************************************************)
EXTENDS Integers, Sequences, FiniteSets, SequencesExt

CONSTANTS
  Flusher,        \* goroutines that call FlushInput
  Writer,         \* the goroutine of inputWriter
  NoChunk,        \* nothing to write
  Size,           \* the length of each chunk of input, in order
  MaxQueuedInput  \* bytes a bounded caller may leave in the queue

ASSUME InputQueueAssumption ==
  /\ Writer \notin Flusher
  /\ Size \in Seq(Nat \ {0})
  /\ NoChunk \notin DOMAIN Size
  /\ MaxQueuedInput \in Nat

Chunk == DOMAIN Size
Goroutine == Flusher \cup {Writer}

VARIABLES
  chunks,    \* inputQueue.chunks
  bytes,     \* inputQueue.bytes
  busy,      \* inputQueue.busy
  closed,    \* inputQueue.closed
  exited,    \* Pane.exited
  ended,     \* the child ended, and a write to its PTY may fail
  waiters,   \* goroutines waiting on the condition variable, oldest first
  at,        \* where each goroutine is
  inHand,    \* the chunk the writer has taken
  offer,     \* the input the update loop is about to queue
  next,      \* the next chunk of input
  accepted,  \* history: the chunks queued so far
  written    \* history: the chunks handed to the child so far

queueVars == <<chunks, bytes, busy, closed>>
vars == <<queueVars, exited, ended, waiters, at, inHand, offer, next, accepted, written>>

NoOffer == [chunk |-> NoChunk, bounded |-> FALSE]

Init ==
  /\ chunks = <<>> /\ bytes = 0 /\ busy = FALSE /\ closed = FALSE
  /\ exited = FALSE /\ ended = FALSE
  /\ waiters = <<>>
  /\ at = [g \in Goroutine |-> IF g = Writer THEN "enter" ELSE "idle"]
  /\ inHand = NoChunk /\ offer = NoOffer /\ next = 1
  /\ accepted = <<>> /\ written = <<>>

-----------------------------------------------------------------------------
(* Write and TryWrite: look at Pane.exited, then queue.                    *)

Offers(bounded) ==
  /\ offer = NoOffer /\ next \in Chunk
  /\ next' = next + 1
  /\ offer' = IF exited THEN NoOffer ELSE [chunk |-> next, bounded |-> bounded]
  /\ UNCHANGED <<queueVars, exited, ended, waiters, at, inHand, accepted, written>>

Signal ==
  IF waiters = <<>> THEN UNCHANGED <<waiters, at>>
  ELSE waiters' = Tail(waiters) /\ at' = [at EXCEPT ![Head(waiters)] = "enter"]

Enqueue(c) ==
  /\ chunks' = Append(chunks, c)
  /\ bytes' = bytes + Size[c]
  /\ accepted' = Append(accepted, c)
  /\ Signal

(* Mutant of PushRefused: keys are bounded.                                *)
PushRefusedAll(c, bounded) == closed \/ bytes + Size[c] > MaxQueuedInput

PushRefused(c, bounded) == closed \/ (bounded /\ bytes + Size[c] > MaxQueuedInput)

(* push *)
Push ==
  /\ offer # NoOffer
  /\ offer' = NoOffer
  /\ IF PushRefused(offer.chunk, offer.bounded)
     THEN UNCHANGED <<chunks, bytes, accepted, waiters, at>>
     ELSE Enqueue(offer.chunk)
  /\ UNCHANGED <<busy, closed, exited, ended, inHand, next, written>>

-----------------------------------------------------------------------------
(* inputWriter and pop.                                                    *)

(* at and waiters once everybody waiting has been woken and g does what    *)
(* comes next.                                                             *)
BroadcastThen(g, where, queue) ==
  /\ waiters' = queue
  /\ at' = [h \in Goroutine |->
             IF h = g THEN where
             ELSE IF \E i \in DOMAIN waiters : waiters[i] = h THEN "enter" ELSE at[h]]

(* Mutant of PopWakes: the goroutines that wait for the chunk to be        *)
(* written are left to the next signal.                                    *)
PopWakesNobody(where, queue) ==
  waiters' = waiters \o queue /\ at' = [at EXCEPT ![Writer] = where]

PopWakes(where, queue) ==
  IF busy THEN BroadcastThen(Writer, where, queue)
  ELSE waiters' = waiters \o queue /\ at' = [at EXCEPT ![Writer] = where]

PopWaits ==
  /\ at[Writer] = "enter" /\ chunks = <<>> /\ ~closed
  /\ busy' = FALSE
  /\ PopWakes("waiting", <<Writer>>)
  /\ UNCHANGED <<chunks, bytes, closed, exited, ended, inHand, offer, next, accepted, written>>

(* Mutant of PopTakes: the newest chunk first.                             *)
PopTakesLast ==
  /\ at[Writer] = "enter" /\ chunks # <<>>
  /\ inHand' = Last(chunks)
  /\ chunks' = Front(chunks)
  /\ bytes' = bytes - Size[inHand']
  /\ busy' = TRUE
  /\ PopWakes("writing", <<>>)
  /\ UNCHANGED <<closed, exited, ended, offer, next, accepted, written>>

PopTakes ==
  /\ at[Writer] = "enter" /\ chunks # <<>>
  /\ inHand' = Head(chunks)
  /\ chunks' = Tail(chunks)
  /\ bytes' = bytes - Size[inHand']
  /\ busy' = TRUE
  /\ PopWakes("writing", <<>>)
  /\ UNCHANGED <<closed, exited, ended, offer, next, accepted, written>>

PopEnds ==
  /\ at[Writer] = "enter" /\ chunks = <<>> /\ closed
  /\ busy' = FALSE
  /\ PopWakes("gone", <<>>)
  /\ UNCHANGED <<chunks, bytes, closed, exited, ended, inHand, offer, next, accepted, written>>

(* The child has read enough for the write to return.                      *)
WriteReturns ==
  /\ at[Writer] = "writing"
  /\ written' = Append(written, inHand)
  /\ inHand' = NoChunk
  /\ at' = [at EXCEPT ![Writer] = "enter"]
  /\ UNCHANGED <<queueVars, exited, ended, waiters, offer, next, accepted>>

(* The PTY is closed under the write: the writer ends, busy stays set.     *)
WriteErrs ==
  /\ at[Writer] = "writing" /\ ended
  /\ at' = [at EXCEPT ![Writer] = "gone"]
  /\ UNCHANGED <<queueVars, exited, ended, waiters, inHand, offer, next, accepted, written>>

-----------------------------------------------------------------------------
(* FlushInput and drain.                                                   *)

FlushInput(f) ==
  /\ at[f] = "idle"
  /\ at' = [at EXCEPT ![f] = "enter"]
  /\ UNCHANGED <<queueVars, exited, ended, waiters, inHand, offer, next, accepted, written>>

(* Mutant of Undrained: the chunk being written does not count.            *)
UndrainedQueue == chunks # <<>> /\ ~closed

Undrained == (chunks # <<>> \/ busy) /\ ~closed

Drain(f) ==
  /\ f \in Flusher /\ at[f] = "enter"
  /\ at' = [at EXCEPT ![f] = IF Undrained THEN "waiting" ELSE "idle"]
  /\ waiters' = IF Undrained THEN Append(waiters, f) ELSE waiters
  /\ UNCHANGED <<queueVars, exited, ended, inHand, offer, next, accepted, written>>

-----------------------------------------------------------------------------
(* The end: MarkExited sets the flag, then closes the queue.  Quitting     *)
(* marks a pane of the holder whose child lives on (Detach).               *)

Ends ==
  /\ ~ended
  /\ ended' = TRUE
  /\ UNCHANGED <<queueVars, exited, waiters, at, inHand, offer, next, accepted, written>>

MarkExited ==
  /\ ~exited
  /\ exited' = TRUE /\ ended' = TRUE
  /\ UNCHANGED <<queueVars, waiters, at, inHand, offer, next, accepted, written>>

(* Mutant of CloseQueue: nobody is woken.                                  *)
CloseQueueSilent ==
  /\ exited /\ ~closed
  /\ closed' = TRUE /\ chunks' = <<>> /\ bytes' = 0
  /\ UNCHANGED <<busy, exited, ended, waiters, at, inHand, offer, next, accepted, written>>

CloseQueue ==
  /\ exited /\ ~closed
  /\ closed' = TRUE /\ chunks' = <<>> /\ bytes' = 0
  /\ waiters' = <<>>
  /\ at' = [g \in Goroutine |-> IF at[g] = "waiting" THEN "enter" ELSE at[g]]
  /\ UNCHANGED <<busy, exited, ended, inHand, offer, next, accepted, written>>

-----------------------------------------------------------------------------
Pop == PopWaits \/ PopTakes \/ PopEnds

Next ==
  \/ \E bounded \in BOOLEAN : Offers(bounded)
  \/ Push \/ Pop \/ WriteReturns \/ WriteErrs
  \/ \E f \in Flusher : FlushInput(f) \/ Drain(f)
  \/ Ends \/ MarkExited \/ CloseQueue

Spec == Init /\ [][Next]_vars

(* Goroutines run, the child reads, and the end of a child is noticed.     *)
(* Nothing obliges anybody to type or to flush.                            *)
FairSpec ==
  /\ Spec
  /\ WF_vars(Push) /\ WF_vars(Pop) /\ WF_vars(WriteReturns \/ WriteErrs)
  /\ \A f \in Flusher : WF_vars(Drain(f))
  /\ WF_vars(ended /\ MarkExited) /\ WF_vars(CloseQueue)

-----------------------------------------------------------------------------
TypeOK ==
  /\ chunks \in Seq(Chunk) /\ bytes \in Nat
  /\ busy \in BOOLEAN /\ closed \in BOOLEAN /\ exited \in BOOLEAN /\ ended \in BOOLEAN
  /\ waiters \in Seq(Goroutine)
  /\ at \in [Goroutine -> {"idle", "enter", "waiting", "writing", "gone"}]
  /\ inHand \in Chunk \cup {NoChunk}
  /\ offer \in [chunk : Chunk \cup {NoChunk}, bounded : BOOLEAN]
  /\ next \in 1..(Len(Size) + 1)
  /\ accepted \in Seq(Chunk) /\ written \in Seq(Chunk)

InHand == IF inHand = NoChunk THEN <<>> ELSE <<inHand>>

(* "Pane input, from keyboard, socket, or plugin, is queued in order"      *)
(* (README): what was accepted is written in that order, nothing is left   *)
(* out, and only the end of the pane discards what is still queued.        *)
WrittenInOrder ==
  /\ IsPrefix(written \o InHand, accepted)
  /\ ~closed => written \o InHand \o chunks = accepted

(* The bytes of a queue of chunks: of which of them, and where in it.      *)
BytesOf(queue) == UNION {{i} \X (1 .. Size[queue[i]]) : i \in DOMAIN queue}

(* QueuedInput and the bound see the bytes that are queued, at any time.   *)
BytesCounted == bytes = Cardinality(BytesOf(chunks))

(* All input is accounted for: queued in order and counted, until written. *)
InputComplete == WrittenInOrder /\ BytesCounted

(* A goroutine that sleeps has something to sleep for.  A signal that went *)
(* to a caller of FlushInput instead of the writer would leave input in    *)
(* the queue (inputQueue, one condition variable for both).                *)
NoLostWakeup ==
  /\ at[Writer] = "waiting" => chunks = <<>> /\ ~closed
  /\ \A f \in Flusher : at[f] = "waiting" => Undrained

(* FlushInput "waits until every queued byte has been handed to the child  *)
(* or the pane exited".                                                    *)
FlushWaits ==
  [][\A f \in Flusher : Drain(f) /\ at'[f] = "idle" /\ ~closed => written = accepted]_vars

(* "Keyboard input is never dropped" (README): what Write accepts is       *)
(* written, as long as the child reads and the pane lives.                 *)
KeysArrive ==
  \A c \in Chunk :
    (offer = [chunk |-> c, bounded |-> FALSE])
      ~> (ended \/ \E i \in DOMAIN written : written[i] = c)
=============================================================================
