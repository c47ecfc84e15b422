\* A pane that is kept and a floating one in another directory; the holder
\* is replaced between the launches.
CONSTANTS
  p1 = p1
  p2 = p2
  f1 = f1
  Pane = {p1, f1}
  Floating = {f1}
  Dir <- TwoDirs
  MaxSession = 2
  MaxLaunch = 2
  MaxRestart = 1
SPECIFICATION FairSpec
INVARIANTS NeverWrongWorkspace ShownPaneSaved SessionsMatchPanes
PROPERTY UnwantedEnds
CHECK_DEADLOCK FALSE
