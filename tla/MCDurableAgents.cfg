SPECIFICATION Spec
CONSTANTS
    MaxPane = 2
    MaxKey = 2
    MaxConv = 2
    MaxRev = 1
    Watched = 1
INVARIANTS DistinctAgents ViewsShowBinding AttachUnderWay
PROPERTIES ObservationsForward
CHECK_DEADLOCK FALSE
