\* Two launches at once find no holder.
CONSTANTS
  None = None
  Tui = {t1, t2}
  Stopper = {}
  HolderProc = {h1, h2, h3}
  Old = {}
  Initial = None
  MaxSession = 1
  MaxCrash = 0
  MaxLaunching = 2
SPECIFICATION Spec
INVARIANT NoSessionsOrphaned
CHECK_DEADLOCK FALSE
