SPECIFICATION HostSpec
CONSTANTS
    Revs = {r1, r2}
    Clients = {c1}
    Ids = {i1}
    EventCap = 1
    MaxGens = 2
    MaxEdits = 1
    NoFile = NoFile
    Notice = Notice
    Quota = 1
    Kinds = {"text", "view", "pane", "subscription"}
INVARIANT OneGeneration
PROPERTIES UiFollows AuthorityEnds
CHECK_DEADLOCK FALSE
