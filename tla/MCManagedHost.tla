---------------------------- MODULE MCManagedHost ----------------------------
(* Checks the managed host and the connection that commands share.         *)
EXTENDS ManagedHost

\* Once a host serves for good, polls reach it for good, whatever happened to
\* the connection that was shared (continuous.go:515).
PollsReachHost == (\E i \in Procs : <>[](proc[i] = "serving")) => <>[]connected

NobodyStarts == \A c \in Cmds : cmd[c].kind \notin Starting

\* Expected to fail, without any fault: the pid file names the host that serves
\* ("so hrdx can stop the service it started", managed.go:14).
ServiceRecorded ==
    NobodyStarts /\ (\A c \in Cmds : cmd[c].kind # "stop") => \A i \in Procs : proc[i] = "serving" => pidFile = i

\* Expected to fail: a stop given while a start was under way is still marked
\* when that start has ended (managed.go:19, "automatic startup stays off until
\* the user starts the host again").
StopStaysMarked == settled # "no" /\ NobodyStarts => stopped

\* Expected to fail: a start that lost the race finds the winner (managed.go:40,
\* "the probe then finds the winner").
LoserFindsWinner ==
    [][\A c \in Cmds : At(c, "await") /\ proc[cmd[c].pid] = "ended" /\ NoAnswer /\ cmd'[c].at = "idle" => ~Locked]_vars
=============================================================================
