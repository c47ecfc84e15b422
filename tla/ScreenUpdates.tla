--------------------------- MODULE ScreenUpdates ---------------------------
(***************************************************************************)
(* How output reaches the screen.  A goroutine writes the output of a pane *)
(* to its emulator and leaves a token in Pane.updates, which holds one; a  *)
(* command waits for the token and hands the update loop a message, which  *)
(* redraws and waits again; closing the channel tells it that the process  *)
(* is gone (internal/term/pane.go: Feed, reader, notify, MarkExited,       *)
(* Close, Detach; internal/ui/model.go: waitForUpdate, paneUpdateMsg,      *)
(* HolderExitMsg, removePane, closeAll).                                   *)
(*                                                                         *)
(* The goroutine is the holder client's readLoop for a pane in the holder, *)
(* which delivers the exit after all output, and the pane's own reader for *)
(* a local one, which ends with MarkExited itself.                         *)
(***************************************************************************)
EXTENDS Integers

CONSTANTS
  Kinds,      \* kinds of panes, "holder" (in the holder) or "local" or both
  MaxOutput   \* bound: pieces of output, a natural number

VARIABLES
  kind,      \* whether the holder has the PTY of the pane; it never changes
  content,   \* pieces of output the emulator has
  drawn,     \* pieces of output on the screen
  feeder,    \* the goroutine: reading, about to notify, marking, gone, panicked
  process,   \* the child: "runs", "ended"
  updates,   \* the channel: "empty", "token", and the same closed
  exited,    \* Pane.exited
  marking,   \* the update loop is between setting exited and closing updates
  exitMsg,   \* a HolderExitMsg is on its way
  listener,  \* waitForUpdate: none, waiting, or with a message for the loop
  pane,      \* the pane in the layout: "starting", "shown", "removed"
  quit       \* closeAll: "no", "close" (the connection is next), "done"

vars == <<kind, content, drawn, feeder, process, updates, exited, marking, exitMsg,
          listener, pane, quit>>

Init ==
  /\ kind \in Kinds
  /\ content = 0 /\ drawn = 0
  /\ feeder = "reads" /\ process = "runs"
  /\ updates = "empty" /\ exited = FALSE /\ marking = FALSE
  /\ exitMsg = FALSE /\ listener = "none"
  /\ pane = "starting" /\ quit = "no"

Closed == updates \in {"closed", "closedToken"}
LoopFree == quit = "no" /\ ~marking

Shut == updates' = IF updates \in {"token", "closedToken"} THEN "closedToken" ELSE "closed"

-----------------------------------------------------------------------------
(* The goroutine that has the output.                                      *)

(* Feed, up to the end of its critical section; a child that ended may     *)
(* have left output to read.                                               *)
Feed ==
  /\ feeder = "reads" /\ content < MaxOutput
  /\ content' = content + 1
  /\ feeder' = "notifies"
  /\ UNCHANGED <<kind, drawn, process, updates, exited, marking, exitMsg, listener, pane, quit>>

(* notify: a send that is dropped when a token is there already.  A send   *)
(* to a closed channel panics, in a select too.                            *)
Notify ==
  /\ feeder = "notifies"
  /\ feeder' = IF Closed THEN "panicked" ELSE "reads"
  /\ updates' = IF updates = "empty" THEN "token" ELSE updates
  /\ UNCHANGED <<kind, content, drawn, process, exited, marking, exitMsg, listener, pane, quit>>

ProcessEnds ==
  /\ process = "runs"
  /\ process' = "ended"
  /\ UNCHANGED <<kind, content, drawn, feeder, updates, exited, marking, exitMsg, listener,
                 pane, quit>>

(* Mutant of FeederEnds: a local reader closes the channel without the     *)
(* flag.                                                                   *)
FeederEndsUnmarked ==
  /\ feeder = "reads" /\ process = "ended"
  /\ feeder' = IF kind = "holder" THEN "gone" ELSE "marks"
  /\ exitMsg' = (kind = "holder")
  /\ UNCHANGED <<kind, content, drawn, process, updates, exited, marking, listener, pane, quit>>

(* After the last output: an exit event, or MarkExited, in two steps.      *)
FeederEnds ==
  /\ feeder = "reads" /\ process = "ended"
  /\ \/ kind = "holder" /\ feeder' = "gone" /\ exitMsg' = TRUE /\ UNCHANGED exited
     \/ kind = "local" /\ feeder' = (IF exited THEN "gone" ELSE "marks")
        /\ exited' = TRUE /\ UNCHANGED exitMsg
  /\ UNCHANGED <<kind, content, drawn, process, updates, marking, listener, pane, quit>>

FeederCloses ==
  /\ feeder = "marks"
  /\ feeder' = "gone"
  /\ Shut
  /\ UNCHANGED <<kind, content, drawn, process, exited, marking, exitMsg, listener, pane, quit>>

-----------------------------------------------------------------------------
(* waitForUpdate: a receive gets the token before it sees the end.         *)

Receive ==
  /\ listener = "waits" /\ updates # "empty"
  /\ listener' = IF updates = "closed" THEN "tellsEnd" ELSE "tells"
  /\ updates' = CASE updates = "token" -> "empty"
                  [] updates = "closedToken" -> "closed"
                  [] OTHER -> updates
  /\ UNCHANGED <<kind, content, drawn, feeder, process, exited, marking, exitMsg, pane, quit>>

-----------------------------------------------------------------------------
(* The update loop.  A pane in the holder that had exited before it was    *)
(* attached is marked by the command that starts it.                       *)

PaneStarted ==
  /\ LoopFree /\ pane = "starting"
  /\ pane' = "shown" /\ listener' = "waits" /\ drawn' = content
  /\ \/ UNCHANGED <<exited, updates>>
     \/ /\ kind = "holder" /\ process = "ended" /\ feeder = "gone"
        /\ exited' = TRUE /\ Shut
  /\ UNCHANGED <<kind, content, feeder, process, marking, exitMsg, quit>>

(* Mutant of PaneUpdate: it draws, and does not wait again.                *)
PaneUpdateOnce ==
  /\ LoopFree /\ listener = "tells"
  /\ listener' = "none"
  /\ drawn' = IF pane = "shown" THEN content ELSE drawn
  /\ UNCHANGED <<kind, content, feeder, process, updates, exited, marking, exitMsg, pane, quit>>

PaneUpdate ==
  /\ LoopFree /\ listener = "tells"
  /\ IF pane = "shown"
     THEN drawn' = content /\ listener' = "waits"
     ELSE listener' = "none" /\ UNCHANGED drawn
  /\ UNCHANGED <<kind, content, feeder, process, updates, exited, marking, exitMsg, pane, quit>>

(* Close does nothing any more: the process is gone.                       *)
PaneEnds ==
  /\ LoopFree /\ listener = "tellsEnd"
  /\ listener' = "none"
  /\ pane' = IF pane = "shown" THEN "removed" ELSE pane
  /\ UNCHANGED <<kind, content, drawn, feeder, process, updates, exited, marking, exitMsg, quit>>

(* Close kills the process.                                                *)
Kill == process' = IF exited THEN process ELSE "ended"

(* Mutant of ClosePane: it marks the pane as well.                         *)
ClosePaneMarks ==
  /\ LoopFree /\ pane = "shown"
  /\ pane' = "removed"
  /\ Kill
  /\ exited' = TRUE /\ marking' = ~exited
  /\ UNCHANGED <<kind, content, drawn, feeder, updates, exitMsg, listener, quit>>

(* The user closes the pane.                                               *)
ClosePane ==
  /\ LoopFree /\ pane = "shown"
  /\ pane' = "removed"
  /\ Kill
  /\ UNCHANGED <<kind, content, drawn, feeder, updates, exited, marking, exitMsg, listener, quit>>

HolderExit ==
  /\ LoopFree /\ exitMsg
  /\ exitMsg' = FALSE
  /\ marking' = (pane = "shown" /\ ~exited)
  /\ exited' = (exited \/ pane = "shown")
  /\ UNCHANGED <<kind, content, drawn, feeder, process, updates, listener, pane, quit>>

(* The second step of MarkExited in the update loop, at quit too.          *)
LoopCloses ==
  /\ marking
  /\ marking' = FALSE
  /\ Shut
  /\ UNCHANGED <<kind, content, drawn, feeder, process, exited, exitMsg, listener, pane, quit>>

(* closeAll: a pane in the holder is detached, a local one is closed ...   *)
QuitPane ==
  /\ LoopFree
  /\ quit' = "close"
  /\ IF pane # "shown" THEN UNCHANGED <<exited, marking, process>>
     ELSE IF kind = "holder"
     THEN exited' = TRUE /\ marking' = ~exited /\ UNCHANGED process
     ELSE Kill /\ UNCHANGED <<exited, marking>>
  /\ UNCHANGED <<kind, content, drawn, feeder, updates, exitMsg, listener, pane>>

(* ... and after all panes the connection to the holder is closed, which   *)
(* ends readLoop at its next read.                                         *)
QuitConnection ==
  /\ quit = "close" /\ ~marking
  /\ quit' = "done"
  /\ feeder' = IF kind = "holder" /\ feeder = "reads" THEN "gone" ELSE feeder
  /\ UNCHANGED <<kind, content, drawn, process, updates, exited, marking, exitMsg, listener, pane>>

-----------------------------------------------------------------------------
FeederStep == Notify \/ FeederEnds \/ FeederCloses
LoopStep == PaneStarted \/ PaneUpdate \/ PaneEnds \/ HolderExit \/ LoopCloses \/ QuitConnection

Next ==
  \/ Feed \/ ProcessEnds \/ FeederStep
  \/ Receive \/ LoopStep
  \/ ClosePane \/ QuitPane

Spec == Init /\ [][Next]_vars

(* Goroutines run and the update loop handles its messages.  Output, the   *)
(* end of the child, closing and quitting are up to others.                *)
FairSpec ==
  Spec /\ WF_vars(FeederStep) /\ WF_vars(Receive) /\ WF_vars(PaneUpdate)
       /\ WF_vars(PaneStarted) /\ WF_vars(PaneEnds) /\ WF_vars(HolderExit)
       /\ WF_vars(LoopCloses)

-----------------------------------------------------------------------------
TypeOK ==
  /\ kind \in Kinds /\ content \in 0..MaxOutput /\ drawn \in 0..content
  /\ feeder \in {"reads", "notifies", "marks", "gone", "panicked"}
  /\ process \in {"runs", "ended"}
  /\ updates \in {"empty", "token", "closed", "closedToken"} /\ (Closed => exited)
  /\ exited \in BOOLEAN /\ marking \in BOOLEAN /\ exitMsg \in BOOLEAN
  /\ listener \in {"none", "waits", "tells", "tellsEnd"}
  /\ pane \in {"starting", "shown", "removed"}
  /\ quit \in {"no", "close", "done"}

(* "Feed processes output pushed from the holder. Safe from any            *)
(* goroutine", and so is MarkExited: no send meets a closed channel.       *)
NoSendOnClosed == feeder # "panicked"

(* It holds of local panes: their reader itself closes the channel, and    *)
(* the update loop only ever kills the process (closeAll, Close).          *)
LocalNeverPanics == kind = "local" => NoSendOnClosed

(* "Updates delivers a signal whenever the screen content changed": what   *)
(* is written to a pane that stays is drawn, the last piece included.      *)
OutputDrawn == content > drawn ~> (content = drawn \/ pane = "removed" \/ quit # "no")

(* Its safe half: as long as the program shows the pane, output that is    *)
(* not on the screen has somebody on the way to it.  The update loop has   *)
(* the message, or waitForUpdate waits and the token is there or will be,  *)
(* because the goroutine that wrote the output has still to notify.        *)
RedrawPending ==
  content > drawn /\ pane = "shown" /\ quit = "no" =>
    \/ listener = "tells"
    \/ listener = "waits" /\ (updates \in {"token", "closedToken"} \/ feeder = "notifies")

(* "The channel closes when the subprocess exits" (Updates), also of a     *)
(* pane that was closed: it ends the goroutines that wait for output and   *)
(* for input.                                                              *)
ChannelCloses ==
  (process = "ended" /\ pane = "removed") ~> (Closed \/ quit # "no")
=============================================================================
