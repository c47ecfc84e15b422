------------------------------ MODULE HostPool ------------------------------
(***************************************************************************)
(* internal/continuous/pool.go: the connection to a continuous host that   *)
(* the background commands of hrdx share.  Get looks at the pool, dials    *)
(* and looks again, without the lock in between; Drop, the end of the host *)
(* and the read loop of a connection act meanwhile.                        *)
(*                                                                         *)
(* One profile is modelled; profiles share nothing but the lock.  Whether  *)
(* a dial or a call succeeds is left open: ManagedHost says when it does.  *)
(***************************************************************************)
CONSTANTS
    Conns,   \* connections; one that ended and that nobody refers to is used again
    Cmds,    \* goroutines of background commands
    None

ASSUME PoolAssumption == None \notin Conns

VARIABLES
    conn,    \* connections: "open", "silent" when nothing arrives any more,
             \* "closed" by either side, "done" once the read loop has noticed
    pool,    \* p.conns[profile.ID]
    get      \* what a command is at in Get, with the connection it knows of
             \* and the one it dialled

pvars == <<conn, pool, get>>

States == {"open", "silent", "closed", "done"}
Stages == {"idle", "check", "dial", "store", "use", "failed"}

Idle == [at |-> "idle", old |-> None, new |-> None]

Init ==
    /\ conn = [k \in Conns |-> "done"] /\ pool = None
    /\ get = [c \in Cmds |-> Idle]

Alive(k) == conn[k] \in {"open", "silent"}
Free(k) == conn[k] = "done" /\ k # pool /\ \A c \in Cmds : k \notin {get[c].old, get[c].new}

Goes(c, stage, old, new) == get' = [get EXCEPT ![c] = [at |-> stage, old |-> old, new |-> new]]
Closed(k) == IF k # None /\ Alive(k) THEN [conn EXCEPT ![k] = "closed"] ELSE conn

-----------------------------------------------------------------------------
(* Get.                                                                    *)

Looks(c) == get[c].at = "idle" /\ Goes(c, "check", pool, None) /\ UNCHANGED <<conn, pool>>

Checks(c) ==
    /\ get[c].at = "check"
    /\ LET k == get[c].old IN
       IF k # None /\ conn[k] # "done" THEN Goes(c, "use", k, None) ELSE Goes(c, "dial", k, None)
    /\ UNCHANGED <<conn, pool>>

\* DialWith, which closes what it opened when the host refuses its token.
Dials(c, k) ==
    /\ get[c].at = "dial" /\ Free(k) /\ k = CHOOSE l \in Conns : Free(l)
    /\ conn' = [conn EXCEPT ![k] = "open"]
    /\ Goes(c, "store", get[c].old, k) /\ UNCHANGED pool

DialFails(c) == get[c].at = "dial" /\ Goes(c, "failed", None, None) /\ UNCHANGED <<conn, pool>>

\* Mutant of Connected: whatever is in the pool is replaced.
ConnectedNever(old) == FALSE

\* Another command connected first.
Connected(old) == pool # None /\ pool # old /\ conn[pool] # "done"

Stores(c) ==
    /\ get[c].at = "store"
    /\ IF Connected(get[c].old)
       THEN /\ conn' = Closed(get[c].new)
            /\ Goes(c, "use", pool, None) /\ UNCHANGED pool
       ELSE /\ pool' = get[c].new
            /\ Goes(c, "use", get[c].new, None) /\ UNCHANGED conn

\* The caller is done with the connection, or was given none.
Ends(c) == get[c].at \in {"use", "failed"} /\ Goes(c, "idle", None, None) /\ UNCHANGED <<conn, pool>>

-----------------------------------------------------------------------------
(* What else happens to connections.                                       *)

\* The lock is released before the close.  Until the read loop notices, a
\* connection that is closed is taken for one that is open, so one step will do.
Drop == conn' = Closed(pool) /\ pool' = None

\* The host ends, and with it the connections it has not lost.
HostCloses == conn' = [k \in Conns |-> IF conn[k] = "open" THEN "closed" ELSE conn[k]] /\ UNCHANGED <<pool, get>>

GoesSilent(k) == conn[k] = "open" /\ conn' = [conn EXCEPT ![k] = "silent"] /\ UNCHANGED <<pool, get>>

\* readLoop, which closes Done.
ReadLoopEnds(k) == conn[k] = "closed" /\ conn' = [conn EXCEPT ![k] = "done"] /\ UNCHANGED <<pool, get>>

\* The process ends and is launched again.
Relaunch ==
    /\ conn' = [k \in Conns |-> "done"] /\ pool' = None
    /\ get' = [c \in Cmds |-> Idle]

GetStep(c) ==
    \/ Looks(c) \/ Checks(c) \/ DialFails(c) \/ Stores(c)
    \/ \E k \in Conns : Dials(c, k)

PoolNext ==
    \/ \E c \in Cmds : GetStep(c) \/ Ends(c)
    \/ Drop /\ UNCHANGED get
    \/ HostCloses \/ Relaunch
    \/ \E k \in Conns : GoesSilent(k) \/ ReadLoopEnds(k)

PoolSpec == Init /\ [][PoolNext]_pvars

-----------------------------------------------------------------------------
PoolTypeOK ==
    /\ conn \in [Conns -> States]
    /\ pool \in Conns \cup {None}
    /\ get \in [Cmds -> [at : Stages, old : Conns \cup {None}, new : Conns \cup {None}]]

\* No connection is lost: one that is open is the one that is shared, or was
\* dialled just now by a command that has yet to look again ("keep one
\* connection", pool.go:113).
NoConnectionLost ==
    \A k \in Conns : Alive(k) => k = pool \/ \E c \in Cmds : get[c].at = "store" /\ get[c].new = k
=============================================================================
