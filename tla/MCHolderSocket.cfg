\* An old holder, a launch and a stop at the same time, with a crash.
CONSTANTS
  None = None
  Tui = {t1}
  Stopper = {s1}
  HolderProc = {h1, h2, h3}
  Old = {h1}
  Initial = h1
  MaxSession = 1
  MaxCrash = 1
  MaxLaunching = 2
SPECIFICATION FairSpec
INVARIANT Exclusive
PROPERTY LaunchEnds
CHECK_DEADLOCK FALSE
