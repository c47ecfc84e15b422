SPECIFICATION Spec
CONSTANTS
    Conns = {c1}
    Listeners = {}
    Spaces = {s1}
    MaxPane = 2
    QueueCap = 1
    Methods = {"status", "workspace.create", "workspace.move", "workspace.close", "pane.create", "pane.close", "pane.send_text", "pane.wait", "menu.register"}
    Actions = {a1}
    Agents = {1}
    MaxRequests = 2
    MaxTurns = 0
    MaxUser = 1
    None = None
INVARIANT AnswersOwnRequest
PROPERTY ConnectionsMoveOn
CHECK_DEADLOCK FALSE
