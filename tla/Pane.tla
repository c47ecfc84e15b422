-------------------------------- MODULE Pane --------------------------------
(***************************************************************************)
(* A pane: its input (InputQueue) and its output (ScreenUpdates) together. *)
(* They share Pane.exited and the end: MarkExited sets the flag, closes    *)
(* the updates channel, which tells the update loop, and closes the input  *)
(* queue, which ends the writer, in this order (internal/term/pane.go).    *)
(* The update loop types into the pane, draws it, closes it and, for a     *)
(* pane in the holder, marks it; the reader of a local pane marks that.    *)
(***************************************************************************)
EXTENDS InputQueue

CONSTANTS
  Kinds,      \* kinds of panes, as in ScreenUpdates
  MaxOutput   \* bound: pieces of output

ASSUME PaneAssumption == Kinds \subseteq {"holder", "local"} /\ MaxOutput \in Nat

VARIABLES kind, content, drawn, feeder, process, updates, marking, exitMsg, listener,
          pane, quit

S == INSTANCE ScreenUpdates

inputVars == <<queueVars, waiters, at, inHand, offer, next, accepted, written>>
screenVars == <<kind, content, drawn, feeder, process, updates, marking, exitMsg, listener,
                pane, quit>>
paneVars == <<inputVars, exited, ended, screenVars>>

PaneInit == Init /\ S!Init

(* The update loop is in the middle of Write, or of MarkExited.            *)
LoopWrites == offer # NoOffer
LoopMarks == kind = "holder" /\ S!Closed /\ ~closed

(* Keys and automation go to a pane that is in the layout.                 *)
Typing ==
  /\ S!LoopFree /\ ~LoopMarks /\ pane = "shown"
  /\ \E bounded \in BOOLEAN : Offers(bounded)
  /\ UNCHANGED screenVars

(* Writing to the holder never fails; a PTY is closed when its child has   *)
(* ended.                                                                  *)
WriterReturns == WriteReturns \/ (kind = "local" /\ WriteErrs)

Writing ==
  /\ \/ Push \/ Pop \/ WriterReturns
     \/ \E f \in Flusher : FlushInput(f) \/ Drain(f)
  /\ UNCHANGED screenVars

(* What the input's side sees of a step of the screen's side: the child    *)
(* ends, or the pane is marked.                                            *)
Seen ==
  /\ ended' = (ended \/ process' = "ended" \/ exited')
  /\ UNCHANGED inputVars

Feeding == (S!Feed \/ S!FeederStep \/ S!ProcessEnds \/ S!Receive) /\ Seen

Looping ==
  /\ ~LoopWrites /\ ~LoopMarks
  /\ S!LoopStep \/ S!ClosePane \/ S!QuitPane
  /\ Seen

(* The last line of MarkExited.                                            *)
Closing == S!Closed /\ CloseQueue /\ UNCHANGED screenVars

PaneNext == Typing \/ Writing \/ Feeding \/ Looping \/ Closing

PaneSpec == PaneInit /\ [][PaneNext]_paneVars

(* As in InputQueue and ScreenUpdates: goroutines run, messages are        *)
(* handled, the child reads.                                               *)
PaneFairSpec ==
  /\ PaneSpec
  /\ WF_paneVars(Push /\ UNCHANGED screenVars) /\ WF_paneVars(Pop /\ UNCHANGED screenVars)
  /\ WF_paneVars(WriterReturns /\ UNCHANGED screenVars)
  /\ \A f \in Flusher : WF_paneVars(Drain(f) /\ UNCHANGED screenVars)
  /\ WF_paneVars(S!FeederStep /\ Seen) /\ WF_paneVars(S!Receive /\ Seen)
  /\ WF_paneVars(Closing)
  /\ WF_paneVars(Looping /\ S!LoopStep)

-----------------------------------------------------------------------------
PaneTypeOK == TypeOK /\ S!TypeOK

(* What ScreenUpdates says of a pane, here while it is typed into: a local *)
(* pane never sends on its closed channel (notify), and output is drawn    *)
(* (waitForUpdate).                                                        *)
LocalNeverPanics == S!LocalNeverPanics
OutputDrawn == S!OutputDrawn
RedrawPending == S!RedrawPending

(* Once a pane is marked, by whichever goroutine, all of MarkExited is     *)
(* done and the writer goes, whatever it was at (MarkExited, inputWriter). *)
MarkedIsReleased == exited ~> (S!Closed /\ closed /\ at[Writer] = "gone")

(* For the theorem that a pane implements its two parts.                   *)
ImplementsParts == Spec /\ S!Spec
=============================================================================
