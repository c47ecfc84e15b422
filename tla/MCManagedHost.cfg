\* One goroutine besides the poll, and one `hrdx continuous`.
SPECIFICATION HostSpec
CONSTANTS
    Conns = {k1, k2, k3}
    Cmds = {a, s, p}
    Poller = p
    Shells = {s}
    None = None
    Kinds = {"restore", "start", "stop"}
    MaxSpawns = 2
    MaxCommands = 2
    MaxFaults = 1
INVARIANT NoConnectionLost
PROPERTIES StoppedStaysOff PollsReachHost
CHECK_DEADLOCK FALSE
