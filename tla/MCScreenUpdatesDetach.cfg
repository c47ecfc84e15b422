\* Quitting while a pane in the holder has output.
CONSTANTS
  Kinds = {"holder"}
  MaxOutput = 4
SPECIFICATION Spec
INVARIANT NoSendOnClosed
CHECK_DEADLOCK FALSE
