\* A floating pane at quit.
CONSTANTS
  p1 = p1
  p2 = p2
  f1 = f1
  Pane = {p1, f1}
  Floating = {f1}
  Dir <- OneDir
  MaxSession = 2
  MaxLaunch = 1
  MaxRestart = 0
SPECIFICATION FairSpec
PROPERTIES FloatingGone
CHECK_DEADLOCK FALSE
