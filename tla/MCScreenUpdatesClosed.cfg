\* A pane in the holder that is closed.
CONSTANTS
  Kinds = {"holder"}
  MaxOutput = 4
SPECIFICATION FairSpec
PROPERTY ChannelCloses
CHECK_DEADLOCK FALSE
