\* A program that ends while its pane starts.
CONSTANTS
  p1 = p1
  p2 = p2
  f1 = f1
  Pane = {p1}
  Floating = {}
  Dir <- OneDir
  MaxSession = 2
  MaxLaunch = 1
  MaxRestart = 0
SPECIFICATION FairSpec
PROPERTIES ExitedPaneCloses
CHECK_DEADLOCK FALSE
