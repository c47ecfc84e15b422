\* Both kinds of pane, three chunks of input, two pieces of output.
CONSTANTS
  Flusher = {f1}
  Writer = w
  NoChunk = 0
  Size <- Sizes
  MaxQueuedInput = 2
  Kinds = {"local", "holder"}
  MaxOutput = 2
SPECIFICATION PaneFairSpec
INVARIANTS InputComplete NoLostWakeup LocalNeverPanics
PROPERTIES FlushWaits KeysArrive OutputDrawn MarkedIsReleased
CHECK_DEADLOCK FALSE
