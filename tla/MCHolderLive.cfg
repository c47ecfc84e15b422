\* Two terminal interfaces, under fairness.
CONSTANTS
  Conn = {c1, c2}
  NoConn = NoConn
  MaxSession = 1
  RingCapacity = 1
  MaxOutput = 1
  MaxRequests = 2
  ClientOps = {"start", "kill", "query"}
SPECIFICATION FairSpec
PROPERTY ExitEventuallyKnown
CHECK_DEADLOCK FALSE
