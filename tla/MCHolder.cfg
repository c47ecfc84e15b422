\* One session, two terminal interfaces one after the other.
CONSTANTS
  Conn = {c1, c2}
  NoConn = NoConn
  MaxSession = 1
  RingCapacity = 2
  MaxOutput = 3
  MaxRequests = 2
  ClientOps = {"start", "kill", "shutdown"}
SPECIFICATION Spec
SYMMETRY Symmetry
INVARIANTS RingIsNewest InOrder ExitAfterOutput
PROPERTY PromiseKept
CHECK_DEADLOCK FALSE
