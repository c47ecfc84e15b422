----------------------------- MODULE ManagedHost -----------------------------
(***************************************************************************)
(* internal/continuous/managed.go and the commands around it: the host     *)
(* that hrdx starts for the durable agents of a project, with the files it *)
(* leaves in the store, and the shared connection to it (HostPool).        *)
(*                                                                         *)
(* Commands are goroutines of hrdx, or `hrdx continuous start` and `stop`, *)
(* each a process of its own.  They meet at three things without a lock:   *)
(* whether a host answers, the pid file and the file that marks a stop on  *)
(* purpose.  The zot host itself is external: a process that takes the     *)
(* writer lock of the store, answers after a while, and ends at once when  *)
(* the lock is taken.                                                      *)
(***************************************************************************)
EXTENDS HostPool, Naturals

CONSTANTS
    Poller,      \* the command that polls; there is one poll at a time
    Shells,      \* commands that are processes of their own
    Kinds,       \* the commands given: "new" and "restore" prepare a durable pane,
                 \* "start" and "stop" are the user's, "call" is any other request
    MaxSpawns,   \* bound: host processes started
    MaxCommands, \* bound: commands the user and the restored panes give
    MaxFaults    \* bound: crashes of hrdx and of hosts, connections gone silent

ASSUME HostAssumption ==
    /\ Kinds \subseteq {"new", "restore", "start", "stop", "call"} /\ Poller \in Cmds \ Shells /\ Shells \subseteq Cmds
    /\ MaxSpawns \in Nat \ {0} /\ MaxCommands \in Nat /\ MaxFaults \in Nat

Procs == 1 .. MaxSpawns

VARIABLES
    proc,       \* the host processes, which stand for their pids
    pidFile,    \* hrdx-host.pid: 0 when there is none
    stopped,    \* hrdx-host.stopped
    cmd,        \* the commands: their kind, what they are at, the process they
                \* started or are to stop
    given,      \* commands given so far
    faults,     \* faults so far
    connected,  \* m.hostState[profile].connected
    settled     \* history: nobody asked for a host since a stop was marked, "yes"
                \* when nobody was starting one either, else "raced"

files == <<pidFile, stopped>>
budget == <<given, faults>>
vars == <<pvars, proc, files, cmd, budget, connected, settled>>

Starting == {"new", "restore", "start"}
Steps == {"idle", "probe", "manage", "spawn", "record", "clear", "await",
          "drop", "readPid", "verify", "mark", "interrupt", "forget", "get"}
NoCmd == [kind |-> "none", at |-> "idle", pid |-> 0]

\* hrdx is launched, with a host it started earlier or without.
HostInit ==
    /\ Init
    /\ \E first \in {"none", "serving"} :
          /\ proc = [i \in Procs |-> IF i = 1 THEN first ELSE "none"]
          /\ pidFile = IF first = "serving" THEN 1 ELSE 0
    /\ stopped = FALSE
    /\ cmd = [c \in Cmds |-> NoCmd] /\ given = 0 /\ faults = 0
    /\ connected = FALSE /\ settled = "no"

At(c, step) == cmd[c].at = step
Becomes(c, step) == cmd' = [cmd EXCEPT ![c].at = step]
Finishes(c) == cmd' = [cmd EXCEPT ![c] = NoCmd]

\* Whether a host answers; one that is stopping may or may not.
Answers == \E i \in Procs : proc[i] \in {"serving", "stopping"}
NoAnswer == \A i \in Procs : proc[i] # "serving"

-----------------------------------------------------------------------------
(* zot continuous serve.                                                   *)

Locked == \E i \in Procs : proc[i] \in {"locked", "serving", "stopping"}

ProcStarts(i) ==
    /\ proc[i] = "starting"
    /\ proc' = [proc EXCEPT ![i] = IF Locked THEN "ended" ELSE "locked"]
    /\ UNCHANGED <<pvars, files, cmd, budget, connected, settled>>

ProcServes(i) ==
    /\ proc[i] = "locked" /\ proc' = [proc EXCEPT ![i] = "serving"]
    /\ UNCHANGED <<pvars, files, cmd, budget, connected, settled>>

\* After an interrupt, or by itself.
ProcEnds(i) ==
    /\ \/ proc[i] = "stopping" /\ UNCHANGED faults
       \/ proc[i] \in {"locked", "serving"} /\ faults < MaxFaults /\ faults' = faults + 1
    /\ proc' = [proc EXCEPT ![i] = "ended"] /\ HostCloses
    /\ UNCHANGED <<files, cmd, given, connected, settled>>

-----------------------------------------------------------------------------
(* StartManaged.                                                           *)

Unpooled == UNCHANGED <<pvars, connected>>

\* A start is done once a host answers; a pane goes on to connect to it.
Started(c) ==
    /\ IF cmd[c].kind = "start" THEN Finishes(c) ELSE Becomes(c, "get")
    /\ UNCHANGED <<proc, budget, settled>> /\ Unpooled

Failed(c) == Finishes(c) /\ UNCHANGED <<proc, budget, settled>> /\ Unpooled

\* The first probe of StartManaged.
Manages(c) ==
    /\ At(c, "manage")
    /\ \/ Answers /\ Becomes(c, "clear")
       \/ NoAnswer /\ Becomes(c, "spawn")
    /\ UNCHANGED <<proc, files, budget, settled>> /\ Unpooled

\* There is no zot, or no room for its store.
SpawnFails(c) == At(c, "spawn") /\ Failed(c) /\ UNCHANGED files

Spawn(c) ==
    /\ At(c, "spawn")
    /\ \E i \in Procs : /\ proc[i] = "none" /\ \A j \in 1 .. i - 1 : proc[j] # "none"
                        /\ proc' = [proc EXCEPT ![i] = "starting"]
                        /\ cmd' = [cmd EXCEPT ![c] = [kind |-> @.kind, at |-> "record", pid |-> i]]
    /\ UNCHANGED <<files, budget, settled>> /\ Unpooled

RecordPid(c) ==
    /\ At(c, "record") /\ pidFile' = cmd[c].pid /\ Becomes(c, "clear")
    /\ UNCHANGED <<stopped, proc, budget, settled>> /\ Unpooled

\* After the probe found a host, or one was spawned.
ClearStopped(c) ==
    /\ At(c, "clear") /\ stopped' = FALSE
    /\ IF cmd[c].pid = 0 THEN Started(c)
       ELSE Becomes(c, "await") /\ UNCHANGED <<proc, budget, settled>> /\ Unpooled
    /\ UNCHANGED pidFile

\* Each tick probes; a process that exited may have lost the race.
Awaits(c) ==
    /\ At(c, "await")
    /\ \/ Answers /\ Started(c)
       \/ proc[cmd[c].pid] = "ended" /\ NoAnswer /\ Failed(c)
    /\ UNCHANGED files

\* Twenty seconds, or the thirty of the command.
GivesUp(c) == At(c, "await") /\ Failed(c) /\ UNCHANGED files

-----------------------------------------------------------------------------
(* StopManaged.                                                            *)

\* The interface gives up its connection first, the command line has none.
Drops(c) ==
    /\ At(c, "drop")
    /\ IF c \in Shells THEN UNCHANGED <<conn, pool>> ELSE Drop
    /\ Becomes(c, "readPid") /\ UNCHANGED <<get, proc, files, budget, connected, settled>>

ReadsPid(c) ==
    /\ At(c, "readPid")
    /\ IF pidFile = 0 THEN Failed(c)
       ELSE /\ cmd' = [cmd EXCEPT ![c] = [kind |-> @.kind, at |-> "verify", pid |-> pidFile]]
            /\ UNCHANGED <<proc, budget, settled>> /\ Unpooled
    /\ UNCHANGED files

\* "Only signal a recorded pid while the host still answers".
Verifies(c) ==
    /\ At(c, "verify")
    /\ \/ Answers /\ Becomes(c, "mark") /\ UNCHANGED <<pidFile, proc, budget, settled>> /\ Unpooled
       \/ NoAnswer /\ pidFile' = 0 /\ Failed(c)
    /\ UNCHANGED stopped

Settles == settled' = IF \A d \in Cmds : cmd[d].kind \notin Starting THEN "yes" ELSE "raced"

MarksStopped(c) ==
    /\ At(c, "mark") /\ stopped' = TRUE /\ Becomes(c, "interrupt")
    /\ Settles /\ UNCHANGED <<pidFile, proc, budget>> /\ Unpooled

\* A pid whose process has ended belongs to nobody, and the stop fails, or to
\* some other process by now.
Interrupts(c) ==
    /\ At(c, "interrupt")
    /\ LET i == cmd[c].pid IN
       \/ /\ proc[i] # "ended"
          /\ proc' = [proc EXCEPT ![i] = IF @ \in {"serving", "stopping"} THEN "stopping" ELSE "ended"]
          /\ Becomes(c, "forget") /\ UNCHANGED <<budget, settled>> /\ Unpooled
       \/ proc[i] = "ended" /\ Becomes(c, "forget") /\ UNCHANGED <<proc, budget, settled>> /\ Unpooled
       \/ proc[i] = "ended" /\ Failed(c)
    /\ UNCHANGED files

ForgetsPid(c) ==
    /\ At(c, "forget") /\ pidFile' = 0 /\ Finishes(c)
    /\ UNCHANGED <<stopped, proc, budget, settled>> /\ Unpooled

-----------------------------------------------------------------------------
(* The commands.                                                           *)

\* The panel, the socket, the command line, panes that are made or restored.
Begins(c, kind) ==
    /\ c # Poller /\ At(c, "idle") /\ given < MaxCommands /\ given' = given + 1
    /\ c \in Shells => kind \in {"start", "stop"}
    /\ cmd' = [cmd EXCEPT ![c] = [kind |-> kind, pid |-> 0,
                                  at |-> CASE kind \in {"new", "restore"} -> "probe"
                                           [] kind = "start" -> "manage"
                                           [] kind = "stop" -> "drop"
                                           [] kind = "call" -> "get"]]
    /\ settled' = IF kind \in {"new", "start"} THEN "no" ELSE settled
    /\ UNCHANGED <<pvars, proc, files, faults, connected>>

\* Mutant of StaysOff: a restored pane starts its host whenever it can.
StaysOffNever(c) == FALSE

\* IntentionallyStopped, asked for panes that are restored.
StaysOff(c) == cmd[c].kind = "restore" /\ stopped

\* prepareDurable, up to its call of StartManaged.
Probes(c) ==
    /\ At(c, "probe")
    /\ \/ Answers /\ Becomes(c, "get")
       \/ NoAnswer /\ IF StaysOff(c) THEN Finishes(c) ELSE Becomes(c, "manage")
    /\ UNCHANGED <<proc, files, budget, settled>> /\ Unpooled

\* A poll begins with every tick, and reads the status.
Polls ==
    /\ At(Poller, "idle") /\ cmd' = [cmd EXCEPT ![Poller] = [kind |-> "poll", at |-> "get", pid |-> 0]]
    /\ Looks(Poller) /\ UNCHANGED <<proc, files, budget, connected, settled>>

\* Pool.Get.
Gets(c) ==
    /\ At(c, "get")
    /\ \/ Looks(c) \/ Checks(c) \/ Stores(c)
       \/ Answers /\ \E k \in Conns : Dials(c, k)
       \/ NoAnswer /\ DialFails(c)
    /\ UNCHANGED <<proc, files, cmd, budget, connected, settled>>

Reached(c) == get[c].at = "use" /\ conn[get[c].old] = "open" /\ Answers

\* What it wanted of the host, answered or not.
Uses(c) ==
    /\ At(c, "get") /\ c # Poller /\ Ends(c) /\ Finishes(c)
    /\ UNCHANGED <<proc, files, budget, connected, settled>>

PollAnswered ==
    /\ At(Poller, "get") /\ Reached(Poller) /\ Ends(Poller) /\ Finishes(Poller)
    /\ connected' = TRUE /\ UNCHANGED <<proc, files, budget, settled>>

PollFails ==
    /\ At(Poller, "get") /\ ~(Reached(Poller) /\ ~NoAnswer) /\ Ends(Poller) /\ Becomes(Poller, "drop")
    /\ UNCHANGED <<proc, files, budget, connected, settled>>

\* Mutant of PollDrops: the connection is kept.
PollKeeps ==
    /\ At(Poller, "drop") /\ Finishes(Poller) /\ connected' = FALSE
    /\ UNCHANGED <<pvars, proc, files, budget, settled>>

PollDrops ==
    /\ At(Poller, "drop") /\ Drop /\ Finishes(Poller) /\ connected' = FALSE
    /\ UNCHANGED <<get, proc, files, budget, settled>>

-----------------------------------------------------------------------------
(* Faults.                                                                 *)

Fault == faults < MaxFaults /\ faults' = faults + 1 /\ UNCHANGED given

\* hrdx dies and is launched again.
Crash ==
    /\ Fault /\ Relaunch /\ connected' = FALSE
    /\ cmd' = [c \in Cmds |-> IF c \in Shells THEN cmd[c] ELSE NoCmd]
    /\ UNCHANGED <<proc, files, settled>>

\* The process of a command dies.
ShellDies(c) ==
    /\ c \in Shells /\ ~At(c, "idle") /\ Fault /\ Finishes(c)
    /\ UNCHANGED <<pvars, proc, files, connected, settled>>

Silence(k) == Fault /\ GoesSilent(k) /\ UNCHANGED <<proc, files, cmd, connected, settled>>

Noticed(k) == ReadLoopEnds(k) /\ UNCHANGED <<proc, files, cmd, budget, connected, settled>>

-----------------------------------------------------------------------------
StartStep(c) ==
    Manages(c) \/ SpawnFails(c) \/ Spawn(c) \/ RecordPid(c) \/ ClearStopped(c) \/ Awaits(c) \/ GivesUp(c)
StopStep(c) ==
    c # Poller /\ (Drops(c) \/ ReadsPid(c) \/ Verifies(c) \/ MarksStopped(c) \/ Interrupts(c) \/ ForgetsPid(c))
CommandStep(c) == Probes(c) \/ StartStep(c) \/ StopStep(c) \/ Gets(c) \/ Uses(c)
PollStep == PollAnswered \/ PollFails \/ PollDrops

Next ==
    \/ \E c \in Cmds : CommandStep(c) \/ \E kind \in Kinds : Begins(c, kind)
    \/ Polls \/ PollStep \/ Crash
    \/ \E c \in Cmds : ShellDies(c)
    \/ \E i \in Procs : ProcStarts(i) \/ ProcServes(i) \/ ProcEnds(i)
    \/ \E k \in Conns : Silence(k) \/ Noticed(k)

\* Commands have deadlines, ticks go on, and a process that was started or
\* interrupted gets on with it.
Fairness ==
    /\ \A c \in Cmds : WF_vars(CommandStep(c))
    /\ WF_vars(Polls) /\ WF_vars(PollStep)
    /\ \A i \in Procs : WF_vars(ProcStarts(i)) /\ WF_vars(ProcServes(i)) /\ WF_vars(proc[i] = "stopping" /\ ProcEnds(i))
    /\ \A k \in Conns : WF_vars(Noticed(k))

HostSpec == HostInit /\ [][Next]_vars /\ Fairness

-----------------------------------------------------------------------------
TypeOK ==
    /\ PoolTypeOK
    /\ proc \in [Procs -> {"none", "starting", "locked", "serving", "stopping", "ended"}]
    /\ pidFile \in 0 .. MaxSpawns /\ stopped \in BOOLEAN
    /\ cmd \in [Cmds -> [kind : Kinds \cup {"none", "poll"}, at : Steps, pid : 0 .. MaxSpawns]]
    /\ given \in Nat /\ faults \in Nat /\ connected \in BOOLEAN
    /\ settled \in {"no", "yes", "raced"}

\* A host stopped on purpose is not started by panes that are restored, however
\* often hrdx dies and whatever was under way before: only by a pane that is
\* made and an explicit start (managed.go:20, "automatic startup stays off").
Spawns == \E i \in Procs : proc[i] = "none" /\ proc'[i] # "none"
StoppedStaysOff == [][settled = "yes" => ~Spawns]_vars
=============================================================================
