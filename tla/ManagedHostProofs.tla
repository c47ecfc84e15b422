-------------------------- MODULE ManagedHostProofs --------------------------
(***************************************************************************)
(* The commands around a managed host use the pool of connections as       *)
(* HostPool says, so that they lose none; and a host that was stopped on   *)
(* purpose stays off.                                                      *)
(*                                                                         *)
(* The second is an action property.  Its invariant, StopInv, says why a   *)
(* step cannot start a host: once nobody was asked for one, whoever is on  *)
(* the way to start it is a pane that is restored and has yet to look at   *)
(* the mark, and the mark is there, because only a start takes it away.    *)
(***************************************************************************)
EXTENDS ManagedHost, TLAPS

-----------------------------------------------------------------------------
(***************************************************************************)
(* No connection to a continuous host is lost, for any number of commands  *)
(* and connections.                                                        *)
(*                                                                         *)
(* NoConnectionLost is not inductive: Stores replaces what is in the pool, *)
(* and only the history of the command says that nothing is open there.    *)
(* PoolInv remembers it: a command that dials found its old connection     *)
(* ended, which stays so as long as the command refers to it, and what two *)
(* commands have dialled are two connections.                              *)
(***************************************************************************)

DialledApart ==
    /\ \A c \in Cmds : get[c].at = "store" <=> get[c].new # None
    /\ \A c \in Cmds : get[c].new # None => get[c].new # pool
    /\ \A c, d \in Cmds : get[c].new # None /\ get[c].new = get[d].new => c = d

OldEnded ==
    \A c \in Cmds : get[c].at \in {"dial", "store"} /\ get[c].old # None => conn[get[c].old] = "done"

PoolInv == PoolTypeOK /\ NoConnectionLost /\ DialledApart /\ OldEnded

LEMMA InitPoolInv == Init => PoolInv
  BY PoolAssumption DEF Init, Idle, Alive, PoolInv, PoolTypeOK, NoConnectionLost, DialledApart,
     OldEnded, States, Stages

\* Steps of Get that leave the connections and the pool alone, and keep nothing
\* a command has dialled: the command had dialled nothing.
LEMMA GoesPoolInv ==
  ASSUME PoolInv, NEW c \in Cmds, get[c].at # "store", UNCHANGED <<conn, pool>>,
         NEW stage \in Stages \ {"store"}, NEW old \in Conns \cup {None}, Goes(c, stage, old, None),
         stage = "dial" /\ old # None => conn[old] = "done"
  PROVE  PoolInv'
<1> USE PoolAssumption DEF Goes, PoolInv, PoolTypeOK
<1>1. PoolTypeOK'
  OBVIOUS
<1>2. \A d \in Cmds : get'[d] = IF d = c THEN [at |-> stage, old |-> old, new |-> None] ELSE get[d]
  OBVIOUS
<1>3. NoConnectionLost'
  BY <1>2 DEF NoConnectionLost, Alive
<1>4. DialledApart'
  BY <1>2 DEF DialledApart
<1>5. OldEnded'
  BY <1>2 DEF OldEnded
<1> QED
  BY <1>1, <1>3, <1>4, <1>5

\* Dialling takes a connection that nobody refers to.
LEMMA DialsPoolInv ==
  ASSUME PoolInv, NEW c \in Cmds, NEW k \in Conns, Dials(c, k)
  PROVE  PoolInv'
<1> USE PoolAssumption DEF Dials, Goes, PoolInv, PoolTypeOK
<1>0. Free(k)
  OBVIOUS
<1>1. PoolTypeOK'
  BY DEF States, Stages
<1>2. \A d \in Cmds : get'[d] = IF d = c THEN [at |-> "store", old |-> get[c].old, new |-> k] ELSE get[d]
  OBVIOUS
<1>3. \A l \in Conns : conn'[l] = IF l = k THEN "open" ELSE conn[l]
  OBVIOUS
<1>4. NoConnectionLost'
  <2> SUFFICES ASSUME NEW l \in Conns, Alive(l)'
               PROVE  l = pool' \/ \E d \in Cmds : get'[d].at = "store" /\ get'[d].new = l
    BY DEF NoConnectionLost
  <2>1. CASE l = k
    BY <1>2, <2>1
  <2>2. CASE l # k
    <3>1. Alive(l)
      BY <1>3, <2>2 DEF Alive
    <3>2. CASE l = pool
      BY <3>2
    <3>3. CASE \E d \in Cmds : get[d].at = "store" /\ get[d].new = l
      BY <1>2, <3>3
    <3> QED
      BY <3>1, <3>2, <3>3 DEF NoConnectionLost
  <2> QED
    BY <2>1, <2>2
<1>5. DialledApart'
  BY <1>0, <1>2 DEF DialledApart, Free
<1>6. OldEnded'
  BY <1>0, <1>2, <1>3 DEF OldEnded, Free
<1> QED
  BY <1>1, <1>4, <1>5, <1>6

\* Looking again: the connection dialled is shared, or closed.
LEMMA StoresPoolInv ==
  ASSUME PoolInv, NEW c \in Cmds, Stores(c)
  PROVE  PoolInv'
<1> USE PoolAssumption DEF Stores, Goes, PoolInv, PoolTypeOK
<1> DEFINE new == get[c].new
<1>0. new \in Conns /\ new # pool
  BY DEF DialledApart
<1>1. CASE Connected(get[c].old)
  <2>1. pool \in Conns /\ pool' = pool
    BY <1>1 DEF Connected
  <2>2. \A d \in Cmds : get'[d] = IF d = c THEN [at |-> "use", old |-> pool, new |-> None] ELSE get[d]
    BY <1>1
  <2>3. conn' \in [Conns -> States]
    BY <1>0, <1>1 DEF Closed, States
  <2>4. \A l \in Conns : conn'[l] = IF l = new /\ Alive(l) THEN "closed" ELSE conn[l]
    BY <1>0, <1>1 DEF Closed
  <2>5. PoolTypeOK'
    BY <1>1, <2>1, <2>3 DEF Stages
  <2>6. NoConnectionLost'
    <3> SUFFICES ASSUME NEW l \in Conns, Alive(l)'
                 PROVE  l = pool' \/ \E d \in Cmds : get'[d].at = "store" /\ get'[d].new = l
      BY DEF NoConnectionLost
    <3>1. Alive(l) /\ l # new
      BY <2>4 DEF Alive
    <3>2. CASE \E d \in Cmds : get[d].at = "store" /\ get[d].new = l
      BY <2>2, <3>1, <3>2
    <3> QED
      BY <2>1, <3>1, <3>2 DEF NoConnectionLost
  <2>7. DialledApart'
    BY <2>1, <2>2 DEF DialledApart
  <2>8. OldEnded'
    BY <2>2, <2>4 DEF OldEnded, Alive
  <2> QED
    BY <2>5, <2>6, <2>7, <2>8
<1>2. CASE ~Connected(get[c].old)
  <2>1. pool' = new /\ conn' = conn
    BY <1>2
  <2>2. \A d \in Cmds : get'[d] = IF d = c THEN [at |-> "use", old |-> new, new |-> None] ELSE get[d]
    BY <1>2
  <2>3. PoolTypeOK'
    BY <1>0, <1>2 DEF Stages
  <2>4. pool \in Conns => conn[pool] = "done"
    BY <1>2 DEF Connected, OldEnded
  <2>5. NoConnectionLost'
    <3> SUFFICES ASSUME NEW l \in Conns, Alive(l)'
                 PROVE  l = pool' \/ \E d \in Cmds : get'[d].at = "store" /\ get'[d].new = l
      BY DEF NoConnectionLost
    <3>1. Alive(l) /\ l # pool
      BY <2>1, <2>4 DEF Alive
    <3>2. PICK d \in Cmds : get[d].at = "store" /\ get[d].new = l
      BY <3>1 DEF NoConnectionLost
    <3> QED
      BY <2>1, <2>2, <3>2
  <2>6. DialledApart'
    BY <1>0, <2>1, <2>2 DEF DialledApart
  <2>7. OldEnded'
    BY <2>1, <2>2 DEF OldEnded
  <2> QED
    BY <2>3, <2>5, <2>6, <2>7
<1> QED
  BY <1>1, <1>2

\* What happens to connections brings none to life.
LEMMA EndsPoolInv ==
  ASSUME PoolInv, conn' \in [Conns -> States], UNCHANGED get,
         pool' = pool \/ (pool' = None /\ (pool # None => conn'[pool] \in {"closed", "done"})),
         \A k \in Conns : /\ conn'[k] \in {"open", "silent"} => Alive(k)
                          /\ conn[k] = "done" => conn'[k] = "done"
  PROVE  PoolInv'
<1> USE PoolAssumption DEF PoolInv, PoolTypeOK
<1>1. PoolTypeOK'
  OBVIOUS
<1>2. NoConnectionLost'
  BY DEF NoConnectionLost, Alive
<1>3. DialledApart'
  BY DEF DialledApart
<1>4. OldEnded'
  BY DEF OldEnded
<1> QED
  BY <1>1, <1>2, <1>3, <1>4

LEMMA NextPoolInv == PoolInv /\ [PoolNext]_pvars => PoolInv'
<1> SUFFICES ASSUME PoolInv, [PoolNext]_pvars PROVE PoolInv'
  OBVIOUS
<1> USE PoolAssumption
<1>1. ASSUME NEW c \in Cmds, Looks(c) PROVE PoolInv'
  BY <1>1, GoesPoolInv DEF Looks, Stages, PoolInv, PoolTypeOK
<1>2. ASSUME NEW c \in Cmds, Checks(c) PROVE PoolInv'
  <2>1. get[c].old \in Conns \cup {None} /\ get[c].at # "store"
    BY <1>2 DEF Checks, PoolInv, PoolTypeOK
  <2>2. CASE get[c].old # None /\ conn[get[c].old] # "done"
    BY <1>2, <2>1, <2>2, GoesPoolInv DEF Checks, Stages
  <2>3. CASE ~(get[c].old # None /\ conn[get[c].old] # "done")
    BY <1>2, <2>1, <2>3, GoesPoolInv DEF Checks, Stages
  <2> QED
    BY <2>2, <2>3
<1>3. ASSUME NEW c \in Cmds, DialFails(c) \/ Ends(c) PROVE PoolInv'
  BY <1>3, GoesPoolInv DEF DialFails, Ends, Stages
<1>4. ASSUME NEW c \in Cmds, GetStep(c) PROVE PoolInv'
  BY <1>1, <1>2, <1>3, <1>4, DialsPoolInv, StoresPoolInv DEF GetStep
<1>5. CASE Drop /\ UNCHANGED get
  <2>1. conn' \in [Conns -> States]
    BY <1>5 DEF Drop, Closed, States, PoolInv, PoolTypeOK
  <2> QED
    BY <1>5, <2>1, EndsPoolInv DEF Drop, Closed, Alive, States, PoolInv, PoolTypeOK
<1>6. CASE HostCloses
  <2>1. conn' \in [Conns -> States]
    BY <1>6 DEF HostCloses, States, PoolInv, PoolTypeOK
  <2>2. \A k \in Conns : /\ conn'[k] \in {"open", "silent"} => Alive(k)
                         /\ conn[k] = "done" => conn'[k] = "done"
    BY <1>6 DEF HostCloses, Alive
  <2>3. pool' = pool /\ UNCHANGED get
    BY <1>6 DEF HostCloses
  <2> QED
    BY <2>1, <2>2, <2>3, EndsPoolInv
<1>7. ASSUME NEW k \in Conns, GoesSilent(k) \/ ReadLoopEnds(k) PROVE PoolInv'
  <2>1. conn' \in [Conns -> States]
    BY <1>7 DEF GoesSilent, ReadLoopEnds, States, PoolInv, PoolTypeOK
  <2>2. \A l \in Conns : /\ conn'[l] \in {"open", "silent"} => Alive(l)
                         /\ conn[l] = "done" => conn'[l] = "done"
    BY <1>7 DEF GoesSilent, ReadLoopEnds, Alive, PoolInv, PoolTypeOK
  <2>3. pool' = pool /\ UNCHANGED get
    BY <1>7 DEF GoesSilent, ReadLoopEnds
  <2> QED
    BY <2>1, <2>2, <2>3, EndsPoolInv
<1>8. CASE Relaunch
  <2>1. conn' = [k \in Conns |-> "done"] /\ pool' = None /\ get' = [c \in Cmds |-> Idle]
    BY <1>8 DEF Relaunch
  <2> QED
    BY <2>1 DEF Idle, Alive, PoolInv, PoolTypeOK, NoConnectionLost, DialledApart, OldEnded, States, Stages
<1>9. CASE UNCHANGED pvars
  BY <1>9 DEF pvars, PoolInv, PoolTypeOK, NoConnectionLost, DialledApart, OldEnded, Alive
<1> QED
  BY <1>3, <1>4, <1>5, <1>6, <1>7, <1>8, <1>9 DEF PoolNext

LEMMA PoolInvariance == PoolSpec => []PoolInv
<1>1. Init => PoolInv
  BY InitPoolInv
<1>2. PoolInv /\ [PoolNext]_pvars => PoolInv'
  BY NextPoolInv
<1> QED
  BY <1>1, <1>2, PTL DEF PoolSpec

\* A connection that is open is shared, or about to be: however many commands
\* dial, drop and look again at once (pool.go Get, Drop).
THEOREM PoolLosesNothing == PoolSpec => []NoConnectionLost
<1>1. PoolInv => NoConnectionLost
  BY DEF PoolInv
<1> QED
  BY <1>1, PoolInvariance, PTL

-----------------------------------------------------------------------------
(* The commands around the pool.                                           *)

LEMMA HostStepIsPoolStep == [Next]_vars => [PoolNext]_pvars
<1> SUFFICES ASSUME [Next]_vars PROVE [PoolNext]_pvars
  OBVIOUS
<1> USE DEF Unpooled
<1>1. ASSUME NEW c \in Cmds, Probes(c) \/ StartStep(c) PROVE [PoolNext]_pvars
  <2>1. UNCHANGED pvars
    BY <1>1 DEF Probes, StartStep, Manages, SpawnFails, Spawn, RecordPid, ClearStopped, Awaits,
                GivesUp, Started, Failed
  <2> QED
    BY <2>1
<1>2. ASSUME NEW c \in Cmds, StopStep(c) PROVE [PoolNext]_pvars
  <2>1. CASE Drops(c)
    BY <2>1 DEF Drops, PoolNext, pvars
  <2>2. CASE ~Drops(c)
    <3>1. UNCHANGED pvars
      BY <1>2, <2>2 DEF StopStep, ReadsPid, Verifies, MarksStopped, Interrupts, ForgetsPid, Failed
    <3> QED
      BY <3>1
  <2> QED
    BY <2>1, <2>2
<1>3. ASSUME NEW c \in Cmds, Gets(c) \/ Uses(c) PROVE [PoolNext]_pvars
  BY <1>3 DEF Gets, Uses, PoolNext, GetStep
<1>4. ASSUME NEW c \in Cmds, NEW kind \in Kinds, Begins(c, kind) PROVE [PoolNext]_pvars
  BY <1>4 DEF Begins
<1>5. CASE Polls \/ PollStep
  BY <1>5, HostAssumption DEF Polls, PollStep, PollAnswered, PollFails, PollDrops, PoolNext, GetStep
<1>6. ASSUME Crash \/ (\E c \in Cmds : ShellDies(c)) PROVE [PoolNext]_pvars
  BY <1>6 DEF Crash, ShellDies, PoolNext
<1>7. ASSUME NEW i \in Procs, ProcStarts(i) \/ ProcServes(i) \/ ProcEnds(i) PROVE [PoolNext]_pvars
  BY <1>7 DEF ProcStarts, ProcServes, ProcEnds, PoolNext
<1>8. ASSUME NEW k \in Conns, Silence(k) \/ Noticed(k) PROVE [PoolNext]_pvars
  BY <1>8 DEF Silence, Noticed, PoolNext
<1>9. CASE UNCHANGED vars
  BY <1>9 DEF vars
<1> QED
  BY <1>1, <1>2, <1>3, <1>4, <1>5, <1>6, <1>7, <1>8, <1>9 DEF Next, CommandStep

\* The commands and faults of ManagedHost do to the connections what HostPool
\* allows, and nothing else.
THEOREM HostImplementsPool == HostSpec => PoolSpec
<1>1. HostInit => Init
  BY DEF HostInit
<1>2. [Next]_vars => [PoolNext]_pvars
  BY HostStepIsPoolStep
<1> QED
  BY <1>1, <1>2, PTL DEF HostSpec, PoolSpec

\* No command, crash or end of a host loses an open connection.
THEOREM HostLosesNoConnection == HostSpec => []NoConnectionLost
  BY HostImplementsPool, PoolLosesNothing, PTL

-----------------------------------------------------------------------------
(* What a stop on purpose leaves behind.                                   *)

StopTypes ==
    /\ cmd \in [Cmds -> [kind : Kinds \cup {"none", "poll"}, at : Steps, pid : Procs \cup {0}]]
    /\ pidFile \in Procs \cup {0} /\ stopped \in BOOLEAN
    /\ proc \in [Procs -> {"none", "starting", "locked", "serving", "stopping", "ended"}]

\* A pid that is recorded or remembered is that of a process that was started.
PidsBorn ==
    /\ pidFile # 0 => proc[pidFile] # "none"
    /\ \A c \in Cmds : cmd[c].pid # 0 => proc[cmd[c].pid] # "none"

\* Only those who want a host are on the way to start one, and the poll does not.
Managing == {"manage", "spawn", "record", "clear", "await"}
StartersManage ==
    /\ \A c \in Cmds : cmd[c].at \in Managing \cup {"probe"} => cmd[c].kind \in Starting
    /\ cmd[Poller].kind \notin Starting

\* Whoever wants one has yet to look at the mark, or found a host.
MarkStands ==
    settled = "yes" =>
       stopped /\ \A c \in Cmds : cmd[c].kind \in Starting => cmd[c].kind = "restore" /\ cmd[c].at \in {"probe", "get"}

StopInv == StopTypes /\ PidsBorn /\ StartersManage /\ MarkStands

LEMMA ProcsNat == Procs \subseteq Nat \ {0} /\ 0 \notin Procs /\ 1 \in Procs
  BY HostAssumption DEF Procs

LEMMA InitStopInv == HostInit => StopInv
<1> SUFFICES ASSUME HostInit PROVE StopInv
  OBVIOUS
<1>1. \A c \in Cmds : cmd[c] = NoCmd
  BY DEF HostInit
<1>2. StopTypes
  BY ProcsNat DEF HostInit, NoCmd, Steps, StopTypes
<1>3. PidsBorn
  BY <1>1, ProcsNat DEF HostInit, NoCmd, PidsBorn
<1>4. StartersManage
  BY <1>1, HostAssumption DEF NoCmd, Managing, Starting, StartersManage
<1>5. MarkStands
  BY DEF HostInit, MarkStands
<1> QED
  BY <1>2, <1>3, <1>4, <1>5 DEF StopInv

\* Steps of a command that start no process and leave the pids alone.
LEMMA CommandStopInv ==
  ASSUME StopInv, NEW c \in Cmds, NEW new \in [kind : Kinds \cup {"none", "poll"}, at : Steps, pid : {0, cmd[c].pid}],
         cmd' = [cmd EXCEPT ![c] = new], proc' = proc, pidFile' \in {0, pidFile, cmd[c].pid}, stopped' \in BOOLEAN,
         new.at \in Managing \cup {"probe"} => new.kind \in Starting, c = Poller => new.kind \notin Starting,
         settled' = "yes" =>
            /\ stopped' /\ (new.kind \in Starting => new.kind = "restore" /\ new.at \in {"probe", "get"})
            /\ settled = "yes" \/ \A d \in Cmds : cmd[d].kind \notin Starting
  PROVE  StopInv'
<1> USE DEF StopInv
<1>1. \A d \in Cmds : cmd'[d] = IF d = c THEN new ELSE cmd[d]
  BY DEF StopTypes
<1>2. StopTypes'
  BY DEF StopTypes
<1>3. PidsBorn'
  BY <1>1 DEF PidsBorn, StopTypes
<1>4. StartersManage'
  BY <1>1, HostAssumption DEF StartersManage
<1>5. MarkStands'
  BY <1>1 DEF MarkStands
<1> QED
  BY <1>2, <1>3, <1>4, <1>5

\* Steps of a host process: none is born.
LEMMA ProcessStopInv ==
  ASSUME StopInv, UNCHANGED <<cmd, files, settled>>,
         proc' \in [Procs -> {"none", "starting", "locked", "serving", "stopping", "ended"}],
         \A i \in Procs : proc[i] # "none" => proc'[i] # "none"
  PROVE  StopInv'
  BY DEF StopInv, StopTypes, PidsBorn, StartersManage, MarkStands, files

LEMMA BecomesStopInv ==
  ASSUME StopInv, NEW c \in Cmds, NEW step \in Steps, Becomes(c, step), proc' = proc,
         pidFile' \in {0, pidFile, cmd[c].pid}, stopped' \in BOOLEAN, settled' = settled,
         step \in Managing \cup {"probe"} => cmd[c].kind \in Starting,
         settled = "yes" => stopped' /\ (cmd[c].kind \in Starting => step = "get")
  PROVE  StopInv'
<1> DEFINE new == [kind |-> cmd[c].kind, at |-> step, pid |-> cmd[c].pid]
<1>1. new \in [kind : Kinds \cup {"none", "poll"}, at : Steps, pid : {0, cmd[c].pid}]
  BY DEF StopInv, StopTypes
<1>2. cmd' = [cmd EXCEPT ![c] = new]
  <2>1. cmd[c] \in [kind : Kinds \cup {"none", "poll"}, at : Steps, pid : Procs \cup {0}]
    BY DEF StopInv, StopTypes
  <2>2. [cmd[c] EXCEPT !.at = step] = new
    BY <2>1
  <2> QED
    BY <2>2 DEF Becomes
<1>3. new.kind = cmd[c].kind /\ new.at = step
  OBVIOUS
<1>4. settled = "yes" => (cmd[c].kind \in Starting => cmd[c].kind = "restore")
  BY DEF StopInv, MarkStands
<1>5. c = Poller => cmd[c].kind \notin Starting
  BY DEF StopInv, StartersManage
<1> HIDE DEF new
<1> QED
  BY <1>1, <1>2, <1>3, <1>4, <1>5, CommandStopInv

LEMMA FinishesStopInv ==
  ASSUME StopInv, NEW c \in Cmds, Finishes(c), proc' = proc, pidFile' \in {0, pidFile, cmd[c].pid},
         stopped' \in BOOLEAN, settled' = settled, settled = "yes" => stopped'
  PROVE  StopInv'
<1>1. NoCmd \in [kind : Kinds \cup {"none", "poll"}, at : Steps, pid : {0, cmd[c].pid}]
  BY DEF NoCmd, Steps
<1>2. NoCmd.kind \notin Starting /\ NoCmd.at \notin Managing \cup {"probe"}
  BY DEF NoCmd, Starting, Managing
<1>3. cmd' = [cmd EXCEPT ![c] = NoCmd]
  BY DEF Finishes
<1> DEFINE new == NoCmd
<1>4. /\ new \in [kind : Kinds \cup {"none", "poll"}, at : Steps, pid : {0, cmd[c].pid}]
      /\ new.kind \notin Starting /\ new.at \notin Managing \cup {"probe"}
      /\ cmd' = [cmd EXCEPT ![c] = new]
  BY <1>1, <1>2, <1>3
<1> HIDE DEF new
<1> QED
  BY <1>4, CommandStopInv

\* Whoever is on the way to start a host shows that no stop is settled.
LEMMA ManagingUnsettled ==
  ASSUME StopInv, NEW c \in Cmds, cmd[c].at \in Managing
  PROVE  settled # "yes" /\ cmd[c].kind \in Starting
  BY DEF StopInv, StartersManage, MarkStands, Managing

LEMMA StartStopInv ==
  ASSUME StopInv, NEW c \in Cmds, StartStep(c)
  PROVE  StopInv'
<1> USE DEF At
<1>0. stopped \in BOOLEAN
  BY DEF StopInv, StopTypes
<1>1. cmd[c].at \in Managing
  BY DEF StartStep, Manages, SpawnFails, Spawn, RecordPid, ClearStopped, Awaits, GivesUp, Managing
<1>2. settled # "yes" /\ cmd[c].kind \in Starting
  BY <1>1, ManagingUnsettled
<1>3. ASSUME Started(c), pidFile' = pidFile, stopped' \in BOOLEAN PROVE StopInv'
  BY <1>2, <1>3, BecomesStopInv, FinishesStopInv DEF Started, Steps
<1>4. ASSUME Failed(c), UNCHANGED files PROVE StopInv'
  BY <1>0, <1>2, <1>4, FinishesStopInv DEF Failed, files
<1>5. CASE Manages(c)
  BY <1>0, <1>2, <1>5, BecomesStopInv DEF Manages, Steps, files
<1>6. CASE Spawn(c)
  <2>1. PICK i \in Procs : /\ proc[i] = "none"
                           /\ proc' = [proc EXCEPT ![i] = "starting"]
                           /\ cmd' = [cmd EXCEPT ![c] = [kind |-> @.kind, at |-> "record", pid |-> i]]
    BY <1>6 DEF Spawn
  <2>2. UNCHANGED <<files, settled>>
    BY <1>6 DEF Spawn
  <2>3. \A d \in Cmds : cmd'[d] = IF d = c THEN [kind |-> cmd[c].kind, at |-> "record", pid |-> i] ELSE cmd[d]
    BY <2>1 DEF StopInv, StopTypes
  <2>4. StopTypes'
    BY <2>1, <2>2, ProcsNat DEF StopInv, StopTypes, files, Steps
  <2>5. \A j \in Procs : proc'[j] = IF j = i THEN "starting" ELSE proc[j]
    BY <2>1 DEF StopInv, StopTypes
  <2>6. PidsBorn'
    <3>1. pidFile' # 0 => proc'[pidFile'] # "none"
      BY <2>2, <2>5 DEF StopInv, PidsBorn, StopTypes, files
    <3>2. ASSUME NEW d \in Cmds, cmd'[d].pid # 0 PROVE proc'[cmd'[d].pid] # "none"
      <4>1. CASE d = c
        BY <2>3, <2>5, <4>1
      <4>2. CASE d # c
        BY <2>3, <2>5, <3>2, <4>2 DEF StopInv, PidsBorn, StopTypes
      <4> QED
        BY <4>1, <4>2
    <3> QED
      BY <3>1, <3>2 DEF PidsBorn
  <2>7. StartersManage'
    BY <1>2, <2>3, HostAssumption DEF StopInv, StartersManage
  <2>8. MarkStands'
    BY <1>2, <2>2 DEF MarkStands
  <2> QED
    BY <2>4, <2>6, <2>7, <2>8 DEF StopInv
<1>7. CASE RecordPid(c) \/ ClearStopped(c)
  <2>1. CASE RecordPid(c)
    BY <1>0, <1>2, <2>1, BecomesStopInv DEF RecordPid, Steps
  <2>2. CASE ClearStopped(c) /\ cmd[c].pid = 0
    BY <1>3, <2>2 DEF ClearStopped
  <2>3. CASE ClearStopped(c) /\ cmd[c].pid # 0
    BY <1>2, <2>3, BecomesStopInv DEF ClearStopped, Steps
  <2> QED
    BY <1>7, <2>1, <2>2, <2>3
<1>8. CASE SpawnFails(c) \/ Awaits(c) \/ GivesUp(c)
  BY <1>0, <1>3, <1>4, <1>8 DEF SpawnFails, Awaits, GivesUp, files
<1> QED
  BY <1>5, <1>6, <1>7, <1>8 DEF StartStep

LEMMA StopStepStopInv ==
  ASSUME StopInv, NEW c \in Cmds, StopStep(c)
  PROVE  StopInv'
<1> USE DEF At
<1>0. stopped \in BOOLEAN /\ (settled = "yes" => stopped)
  BY DEF StopInv, StopTypes, MarkStands
<1>1. cmd[c].at \notin Managing \cup {"probe", "get"}
  BY DEF StopStep, Drops, ReadsPid, Verifies, MarksStopped, Interrupts, ForgetsPid, Managing
<1>2. settled = "yes" => cmd[c].kind \notin Starting
  BY <1>1 DEF StopInv, MarkStands
<1>3. ASSUME NEW step \in Steps \ (Managing \cup {"probe"}), Becomes(c, step), UNCHANGED <<proc, files, settled>>
      PROVE StopInv'
  BY <1>0, <1>2, <1>3, BecomesStopInv DEF files
<1>4. ASSUME Finishes(c), pidFile' \in {0, pidFile}, UNCHANGED <<proc, stopped, settled>> PROVE StopInv'
  BY <1>0, <1>4, FinishesStopInv
<1>5. CASE Drops(c)
  BY <1>3, <1>5 DEF Drops, Steps, Managing
<1>6. CASE ReadsPid(c)
  <2>1. CASE pidFile = 0
    BY <1>4, <1>6, <2>1 DEF ReadsPid, Failed, files
  <2>2. CASE pidFile # 0
    <3> DEFINE new == [kind |-> cmd[c].kind, at |-> "verify", pid |-> pidFile]
    <3>1. UNCHANGED <<proc, files, settled>>
      BY <1>6, <2>2 DEF ReadsPid
    <3>2. \A d \in Cmds : cmd'[d] = IF d = c THEN new ELSE cmd[d]
      BY <1>6, <2>2 DEF ReadsPid, StopInv, StopTypes
    <3>3. cmd' \in [Cmds -> [kind : Kinds \cup {"none", "poll"}, at : Steps, pid : Procs \cup {0}]]
      BY <1>6, <2>2 DEF ReadsPid, StopInv, StopTypes, Steps
    <3>4. StopTypes'
      BY <3>1, <3>3 DEF StopInv, StopTypes, files
    <3>5. PidsBorn'
      BY <3>1, <3>2 DEF StopInv, PidsBorn, files
    <3>6. StartersManage' /\ MarkStands'
      BY <1>2, <3>1, <3>2, HostAssumption DEF StopInv, StartersManage, MarkStands, Managing, files
    <3> QED
      BY <3>4, <3>5, <3>6 DEF StopInv
  <2> QED
    BY <2>1, <2>2
<1>7. CASE Verifies(c)
  <2>1. CASE Becomes(c, "mark") /\ UNCHANGED <<pidFile, proc, budget, settled>>
    BY <1>3, <1>7, <2>1 DEF Verifies, Steps, Managing, files
  <2>2. CASE pidFile' = 0 /\ Failed(c)
    BY <1>4, <1>7, <2>2 DEF Verifies, Failed
  <2> QED
    BY <1>7, <2>1, <2>2 DEF Verifies
<1>8. CASE MarksStopped(c)
  <2> DEFINE new == [kind |-> cmd[c].kind, at |-> "interrupt", pid |-> cmd[c].pid]
  <2>1. stopped' = TRUE /\ UNCHANGED <<pidFile, proc>>
    BY <1>8 DEF MarksStopped
  <2>2. \A d \in Cmds : cmd'[d] = IF d = c THEN new ELSE cmd[d]
    BY <1>8 DEF MarksStopped, Becomes, StopInv, StopTypes
  <2>3. cmd' \in [Cmds -> [kind : Kinds \cup {"none", "poll"}, at : Steps, pid : Procs \cup {0}]]
    BY <1>8 DEF MarksStopped, Becomes, StopInv, StopTypes, Steps
  <2>4. settled' = "yes" => \A d \in Cmds : cmd[d].kind \notin Starting
    BY <1>8 DEF MarksStopped, Settles
  <2>5. StopTypes'
    BY <2>1, <2>3 DEF StopInv, StopTypes
  <2>6. PidsBorn' /\ StartersManage' /\ MarkStands'
    BY <2>1, <2>2, <2>4, HostAssumption DEF StopInv, PidsBorn, StartersManage, MarkStands, Managing
  <2> QED
    BY <2>5, <2>6 DEF StopInv
<1>9. CASE Interrupts(c)
  <2> DEFINE i == cmd[c].pid
  <2>1. CASE proc' = proc
    BY <1>3, <1>4, <1>9, <2>1 DEF Interrupts, Steps, Managing, Failed, files
  <2>2. CASE proc' # proc
    <3>1. /\ proc' = [proc EXCEPT ![i] = IF @ \in {"serving", "stopping"} THEN "stopping" ELSE "ended"]
          /\ Becomes(c, "forget") /\ UNCHANGED <<files, settled>>
      BY <1>9, <2>2 DEF Interrupts, Failed
    <3> DEFINE new == [kind |-> cmd[c].kind, at |-> "forget", pid |-> cmd[c].pid]
    <3>2. \A d \in Cmds : cmd'[d] = IF d = c THEN new ELSE cmd[d]
      BY <3>1 DEF Becomes, StopInv, StopTypes
    <3>3. cmd' \in [Cmds -> [kind : Kinds \cup {"none", "poll"}, at : Steps, pid : Procs \cup {0}]]
      BY <3>1 DEF Becomes, StopInv, StopTypes, Steps
    <3>4. proc' \in [Procs -> {"none", "starting", "locked", "serving", "stopping", "ended"}]
      BY <3>1 DEF StopInv, StopTypes
    <3>5. \A j \in Procs : proc[j] # "none" => proc'[j] # "none"
      BY <3>1 DEF StopInv, StopTypes
    <3>6. StopTypes'
      BY <3>1, <3>3, <3>4 DEF StopInv, StopTypes, files
    <3>7. PidsBorn'
      BY <3>1, <3>2, <3>5 DEF StopInv, StopTypes, PidsBorn, files
    <3>8. StartersManage' /\ MarkStands'
      BY <1>2, <3>1, <3>2, HostAssumption DEF StopInv, StartersManage, MarkStands, Managing, files
    <3> QED
      BY <3>6, <3>7, <3>8 DEF StopInv
  <2> QED
    BY <2>1, <2>2
<1>10. CASE ForgetsPid(c)
  BY <1>4, <1>10 DEF ForgetsPid
<1> QED
  BY <1>5, <1>6, <1>7, <1>8, <1>9, <1>10 DEF StopStep

LEMMA ProbesStopInv ==
  ASSUME StopInv, NEW c \in Cmds, Probes(c)
  PROVE  StopInv'
<1> USE DEF At
<1>0. stopped \in BOOLEAN /\ (settled = "yes" => stopped) /\ UNCHANGED <<proc, files, settled>>
  BY DEF StopInv, StopTypes, MarkStands, Probes
<1>1. cmd[c].kind \in Starting /\ (settled = "yes" => cmd[c].kind = "restore")
  BY DEF Probes, StopInv, StartersManage, MarkStands
<1>2. CASE Becomes(c, "get") \/ Finishes(c)
  BY <1>0, <1>1, <1>2, BecomesStopInv, FinishesStopInv DEF Steps, Managing, files
<1>3. CASE Becomes(c, "manage") /\ ~StaysOff(c)
  BY <1>0, <1>1, <1>3, BecomesStopInv DEF Steps, StaysOff, files
<1> QED
  BY <1>2, <1>3 DEF Probes

LEMMA BeginsStopInv ==
  ASSUME StopInv, NEW c \in Cmds, NEW kind \in Kinds, Begins(c, kind)
  PROVE  StopInv'
<1> DEFINE step == CASE kind \in {"new", "restore"} -> "probe"
                     [] kind = "start" -> "manage"
                     [] kind = "stop" -> "drop"
                     [] kind = "call" -> "get"
           new == [kind |-> kind, at |-> step, pid |-> 0]
<1>0. step \in Steps /\ (step \in Managing \cup {"probe"} => kind \in Starting)
  BY HostAssumption DEF Steps, Starting, Managing
<1>1. kind = "restore" => step = "probe"
  OBVIOUS
<1>2. new \in [kind : Kinds \cup {"none", "poll"}, at : Steps, pid : {0, cmd[c].pid}]
  BY <1>0
<1>3. c # Poller /\ cmd' = [cmd EXCEPT ![c] = new] /\ UNCHANGED <<proc, files>>
  BY DEF Begins
<1>4. settled' = "yes" => settled = "yes" /\ kind \notin {"new", "start"}
  BY DEF Begins
<1>5. kind \in Starting => kind \in {"new", "restore", "start"}
  BY DEF Starting
<1>6. settled = "yes" => stopped
  BY DEF StopInv, MarkStands
<1>7. stopped' \in BOOLEAN /\ pidFile' = pidFile /\ stopped' = stopped
  BY <1>3 DEF StopInv, StopTypes, files
<1>8. new.kind = kind /\ new.at = step
  OBVIOUS
<1> HIDE DEF new, step
<1> QED
  BY <1>0, <1>1, <1>2, <1>3, <1>4, <1>5, <1>6, <1>7, <1>8, CommandStopInv

\* Using the connection and polling start nothing.
LEMMA UseStopInv ==
  ASSUME StopInv, NEW c \in Cmds, Gets(c) \/ Uses(c)
  PROVE  StopInv'
<1>0. stopped \in BOOLEAN /\ (settled = "yes" => stopped) /\ UNCHANGED <<proc, files, settled>>
  BY DEF StopInv, StopTypes, MarkStands, Gets, Uses
<1>1. CASE Gets(c)
  BY <1>1 DEF Gets, StopInv, StopTypes, PidsBorn, StartersManage, MarkStands, files
<1>2. CASE Uses(c)
  BY <1>0, <1>2, FinishesStopInv DEF Uses, files
<1> QED
  BY <1>1, <1>2

LEMMA PollStopInv ==
  ASSUME StopInv, Polls \/ PollStep
  PROVE  StopInv'
<1> USE HostAssumption
<1>0. stopped \in BOOLEAN /\ (settled = "yes" => stopped) /\ UNCHANGED <<proc, files, settled>>
  BY DEF StopInv, StopTypes, MarkStands, Polls, PollStep, PollAnswered, PollFails, PollDrops
<1>1. CASE Polls
  <2> DEFINE new == [kind |-> "poll", at |-> "get", pid |-> 0]
  <2>1. new \in [kind : Kinds \cup {"none", "poll"}, at : Steps, pid : {0, cmd[Poller].pid}]
    BY DEF Steps
  <2>2. cmd' = [cmd EXCEPT ![Poller] = new]
    BY <1>1 DEF Polls
  <2>3. new.kind \notin Starting /\ new.at \notin Managing \cup {"probe"}
    BY DEF Starting, Managing
  <2> HIDE DEF new
  <2> QED
    BY <1>0, <2>1, <2>2, <2>3, CommandStopInv DEF files
<1>2. CASE PollAnswered \/ PollDrops
  BY <1>0, <1>2, FinishesStopInv DEF PollAnswered, PollDrops, files
<1>3. CASE PollFails
  <2>1. cmd[Poller].kind \notin Starting
    BY DEF StopInv, StartersManage
  <2> QED
    BY <1>0, <1>3, <2>1, BecomesStopInv DEF PollFails, files, Steps, Managing
<1> QED
  BY <1>1, <1>2, <1>3 DEF PollStep

LEMMA NextStopInv == StopInv /\ [Next]_vars => StopInv'
<1> SUFFICES ASSUME StopInv, [Next]_vars PROVE StopInv'
  OBVIOUS
<1>1. ASSUME NEW c \in Cmds, CommandStep(c) PROVE StopInv'
  BY <1>1, ProbesStopInv, StartStopInv, StopStepStopInv, UseStopInv DEF CommandStep
<1>2. ASSUME NEW c \in Cmds, NEW kind \in Kinds, Begins(c, kind) PROVE StopInv'
  BY <1>2, BeginsStopInv
<1>3. CASE Polls \/ PollStep
  BY <1>3, PollStopInv
<1>4. CASE Crash
  <2>1. \A c \in Cmds : cmd'[c] = IF c \in Shells THEN cmd[c] ELSE NoCmd
    BY <1>4 DEF Crash
  <2>2. UNCHANGED <<proc, files, settled>>
    BY <1>4 DEF Crash
  <2>3. NoCmd \in [kind : Kinds \cup {"none", "poll"}, at : Steps, pid : Procs \cup {0}]
    BY DEF NoCmd, Steps
  <2>4. cmd' \in [Cmds -> [kind : Kinds \cup {"none", "poll"}, at : Steps, pid : Procs \cup {0}]]
    BY <1>4, <2>3 DEF Crash, StopInv, StopTypes
  <2>5. NoCmd.kind \notin Starting /\ NoCmd.at \notin Managing \cup {"probe"} /\ NoCmd.pid = 0
    BY DEF NoCmd, Starting, Managing
  <2>6. StopTypes'
    BY <2>2, <2>4 DEF StopInv, StopTypes, files
  <2>7. PidsBorn'
    BY <2>1, <2>2, <2>5 DEF StopInv, PidsBorn, files
  <2>8. StartersManage' /\ MarkStands'
    BY <2>1, <2>2, <2>5, HostAssumption DEF StopInv, StartersManage, MarkStands, files
  <2> QED
    BY <2>6, <2>7, <2>8 DEF StopInv
<1>5. ASSUME NEW c \in Cmds, ShellDies(c) PROVE StopInv'
  <2>1. UNCHANGED <<proc, files, settled>> /\ Finishes(c)
    BY <1>5 DEF ShellDies
  <2> QED
    BY <2>1, FinishesStopInv DEF files, StopInv, StopTypes, MarkStands
<1>6. ASSUME NEW i \in Procs, ProcStarts(i) \/ ProcServes(i) \/ ProcEnds(i) PROVE StopInv'
  <2>1. UNCHANGED <<cmd, files, settled>>
    BY <1>6 DEF ProcStarts, ProcServes, ProcEnds
  <2>2. proc[i] # "none" /\ \E new \in {"locked", "serving", "ended"} : proc' = [proc EXCEPT ![i] = new]
    BY <1>6 DEF ProcStarts, ProcServes, ProcEnds
  <2>3. /\ proc' \in [Procs -> {"none", "starting", "locked", "serving", "stopping", "ended"}]
        /\ \A j \in Procs : proc[j] # "none" => proc'[j] # "none"
    BY <2>2 DEF StopInv, StopTypes
  <2> QED
    BY <2>1, <2>3, ProcessStopInv
<1>7. CASE (\E k \in Conns : Silence(k) \/ Noticed(k)) \/ UNCHANGED vars
  <2>1. UNCHANGED <<proc, cmd, files, settled>>
    BY <1>7 DEF Silence, Noticed, vars
  <2> QED
    BY <2>1 DEF StopInv, StopTypes, PidsBorn, StartersManage, MarkStands, files
<1> QED
  BY <1>1, <1>2, <1>3, <1>4, <1>5, <1>6, <1>7 DEF Next

\* Only a command that is past its first probe starts a process.
LEMMA OnlySpawnSpawns ==
  ASSUME StopInv, [Next]_vars, Spawns
  PROVE  \E c \in Cmds : cmd[c].at \in Managing
<1> PICK i \in Procs : proc[i] = "none" /\ proc'[i] # "none"
  BY DEF Spawns
<1>1. ASSUME NEW c \in Cmds, Spawn(c) PROVE \E d \in Cmds : cmd[d].at \in Managing
  BY <1>1 DEF Spawn, At, Managing
<1>2. ASSUME NEW c \in Cmds, StartStep(c), ~Spawn(c) PROVE FALSE
  BY <1>2 DEF StartStep, Manages, SpawnFails, RecordPid, ClearStopped, Awaits, GivesUp, Started, Failed
<1>3. ASSUME NEW c \in Cmds, StopStep(c) PROVE FALSE
  <2>1. CASE Interrupts(c)
    <3>1. cmd[c].pid # 0 => proc[cmd[c].pid] # "none"
      BY DEF StopInv, PidsBorn
    <3>2. \/ proc' = proc
          \/ proc' = [proc EXCEPT ![cmd[c].pid] = IF @ \in {"serving", "stopping"} THEN "stopping" ELSE "ended"]
      BY <2>1 DEF Interrupts, Failed
    <3> QED
      BY <3>1, <3>2, ProcsNat DEF StopInv, StopTypes
  <2>2. CASE ~Interrupts(c)
    BY <1>3, <2>2 DEF StopStep, Drops, ReadsPid, Verifies, MarksStopped, ForgetsPid, Failed
  <2> QED
    BY <2>1, <2>2
<1>4. ASSUME NEW c \in Cmds, Probes(c) \/ Gets(c) \/ Uses(c) PROVE FALSE
  BY <1>4 DEF Probes, Gets, Uses
<1>5. ASSUME NEW c \in Cmds, NEW kind \in Kinds, Begins(c, kind) PROVE FALSE
  BY <1>5 DEF Begins
<1>6. ASSUME Polls \/ PollStep \/ Crash PROVE FALSE
  BY <1>6 DEF Polls, PollStep, PollAnswered, PollFails, PollDrops, Crash
<1>7. ASSUME NEW j \in Procs, ProcStarts(j) \/ ProcServes(j) \/ ProcEnds(j) PROVE FALSE
  BY <1>7 DEF ProcStarts, ProcServes, ProcEnds, StopInv, StopTypes
<1>8. ASSUME (\E c \in Cmds : ShellDies(c)) \/ (\E k \in Conns : Silence(k) \/ Noticed(k)) \/ UNCHANGED vars
      PROVE FALSE
  BY <1>8 DEF ShellDies, Silence, Noticed, vars
<1> QED
  BY <1>1, <1>2, <1>3, <1>4, <1>5, <1>6, <1>7, <1>8 DEF Next, CommandStep

\* A stop on purpose holds, for any number of commands, hosts and crashes
\* (managed.go StopManaged, IntentionallyStopped; continuous.go prepareDurable).
THEOREM StopHolds == HostSpec => StoppedStaysOff
<1>1. HostInit => StopInv
  BY InitStopInv
<1>2. StopInv /\ [Next]_vars => StopInv'
  BY NextStopInv
<1>3. StopInv /\ [Next]_vars => [settled = "yes" => ~Spawns]_vars
  BY OnlySpawnSpawns, ManagingUnsettled
<1> QED
  BY <1>1, <1>2, <1>3, PTL DEF HostSpec, StoppedStaysOff
=============================================================================
