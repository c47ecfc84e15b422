\* Two panes in one directory; the holder is replaced between launches.
CONSTANTS
  p1 = p1
  p2 = p2
  f1 = f1
  Pane = {p1, p2}
  Floating = {}
  Dir <- OneDir
  MaxSession = 3
  MaxLaunch = 2
  MaxRestart = 1
SPECIFICATION Spec
INVARIANTS NoSharedSession
CHECK_DEADLOCK FALSE
