SPECIFICATION Spec
CONSTANTS
    Conns = {l1, l2}
    Listeners = {l1, l2}
    Spaces = {s1}
    MaxPane = 2
    QueueCap = 1
    Methods = {}
    Actions = {}
    Agents = {1, 2}
    MaxRequests = 1
    MaxTurns = 2
    MaxUser = 1
    None = None
PROPERTIES FinishNoticed NoNeedlessLoss
CHECK_DEADLOCK FALSE
