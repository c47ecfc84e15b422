---------------------------- MODULE PluginRuntime ----------------------------
(***************************************************************************)
(* internal/plugin: the runtime that owns the processes of one plugin, the *)
(* watcher that revokes a changed approval, and the approval file that     *)
(* `hrdx plugins` edits while hrdx runs.                                   *)
(*                                                                         *)
(* Registrations of different plugins share only the event queue, so one   *)
(* plugin is modelled.  A generation is one process: generation g is the   *)
(* g-th session startLocked made, and r.sessions[id] is always the last    *)
(* one.  Every section of code under r.mu is one action; the package and   *)
(* the approval are told apart by the revision of the package's digest.    *)
(* A lifecycle notice (transition's send) is queued in the step that sets  *)
(* the status: the queue is only read by the UI, which asks for the status *)
(* again when it reads one.                                                *)
(***************************************************************************)
EXTENDS Naturals, Sequences, FiniteSets

CONSTANTS
    Revs,          \* the revisions of the package on disk
    Clients,       \* goroutines of the UI's commands (restart, reload, action)
    Ids,           \* IDs a plugin gives to its host requests
    EventCap,      \* cap(r.events): 64 in the code
    MaxGens,       \* bound: generations started
    MaxEdits,      \* bound: changes of the package or of the approval file
    NoFile,        \* there is no approval file
    Notice         \* an event that carries a status

ASSUME RuntimeAssumption ==
    /\ Revs # {} /\ EventCap \in Nat \ {0} /\ MaxGens \in Nat \ {0} /\ MaxEdits \in Nat
    /\ Notice \notin Ids /\ NoFile \notin [rev : Revs, on : BOOLEAN]

Gens == 1 .. MaxGens
Approvals == [rev : Revs, on : BOOLEAN]

\* What session.run is doing: verifying the package and starting the process,
\* stages 0 and 1 of its loop (a hello, then a ready frame), 2 and 3, the
\* deferred cleanup, and after close(s.done).
Stages == {"verify", "handshake", "running", "stopping", "reap", "done"}
States == {"approved", "starting", "handshaking", "ready", "stopping", "stopped",
           "failed", "blocked"}

VARIABLES
    package,   \* the revision of the package on disk
    file,      \* the approval file
    edits,     \* the changes made to either
    entry,     \* r.entries[id].Approval
    last,      \* the last generation started, 0 for none: r.sessions[id]
    session,   \* the sessions
    status,    \* r.statuses[id]: its state and generation, 0 for none
    closing,   \* r.closing
    events,    \* r.events: notices and host requests
    incoming,  \* s.incoming: the state of every request of the last session
    client,    \* the commands' goroutines
    watch      \* the watcher has found a difference and goes on to revoke

disk == <<package, file, edits>>
runtime == <<entry, last, session, status, closing, events, incoming>>
rvars == <<disk, runtime, client, watch>>

NoSession == [appr |-> [rev |-> CHOOSE r \in Revs : TRUE, on |-> FALSE],
              stage |-> "done", stop |-> FALSE, cancelled |-> FALSE]
NewSession(e) == [appr |-> e, stage |-> "verify", stop |-> FALSE, cancelled |-> FALSE]
Sessions == [appr : Approvals, stage : Stages, stop : BOOLEAN, cancelled : BOOLEAN]

\* The states of a host request: not in s.incoming; in the event queue; with
\* the UI; answered; its context ended before an answer; its response sent
\* but still in s.incoming, whose entry a deferred function deletes.
RequestStates == {"none", "queued", "answered", "sent"}

Idle == [pc |-> "idle", gen |-> 0, appr |-> NoFile]

RuntimeInit ==
    /\ package = CHOOSE r \in Revs : TRUE
    /\ file = [rev |-> package, on |-> TRUE]
    /\ edits = 0
    /\ entry = file
    /\ last = 0
    /\ session = [g \in Gens |-> NoSession]
    /\ status = [state |-> "approved", gen |-> 0]
    /\ closing = FALSE
    /\ events = <<>>
    /\ incoming = [i \in Ids |-> "none"]
    /\ client = [c \in Clients |-> Idle]
    /\ watch = FALSE

-----------------------------------------------------------------------------
(* The files: the management commands, the settings window, the package.   *)

\* VerifyApproval: the approval is enabled and made for these contents.
Verified(pkg, appr) == appr # NoFile /\ appr.on /\ appr.rev = pkg

\* Only what changes while hrdx runs matters.
Edit == ~closing /\ edits < MaxEdits /\ edits' = edits + 1

EditPackage ==
    /\ Edit /\ package' \in Revs \ {package}
    /\ UNCHANGED <<file, runtime, client, watch>>

CliApprove ==
    /\ Edit /\ file' = [rev |-> package, on |-> TRUE]
    /\ UNCHANGED <<package, runtime, client, watch>>

\* disable, and enable, which verifies the package before it saves: to enable
\* again what was disabled is not counted.
CliSetEnabled(on) ==
    /\ file # NoFile /\ file' = [file EXCEPT !.on = on]
    /\ IF on THEN ~closing /\ ~file.on /\ Verified(package, file') /\ UNCHANGED edits ELSE Edit
    /\ UNCHANGED <<package, runtime, client, watch>>

CliRevoke ==
    /\ Edit /\ file # NoFile /\ file' = NoFile
    /\ UNCHANGED <<package, runtime, client, watch>>

-----------------------------------------------------------------------------
(* Helpers.                                                                 *)

Live(g) == g # 0 /\ session[g].stage # "done"
Usable(g) == Live(g) /\ ~session[g].stop /\ ~session[g].cancelled

Notify(e) == IF Len(events) < EventCap THEN Append(events, e) ELSE events

\* session.transition: a revoked plugin is reported blocked.
Transition(g, s) ==
    /\ status' = [state |-> IF entry.on THEN s ELSE "blocked", gen |-> g]
    /\ events' = Notify(Notice)

\* Mutant of StartLocked: a session that is stopping is replaced at once.
StartStopping(e, s) ==
    IF last = MaxGens \/ (Live(last) /\ ~session[last].stop)
    THEN status' = s /\ UNCHANGED <<last, session, incoming>>
    ELSE /\ last' = last + 1
         /\ session' = [session EXCEPT ![last + 1] = NewSession(e)]
         /\ status' = [state |-> "starting", gen |-> last + 1]
         /\ incoming' = [i \in Ids |-> "none"]

\* startLocked: its refusals, and what it does with the approval e when none
\* applies.  It leaves a session that has not ended alone (the status is then
\* s), and no generation is made when its random name cannot be read, which is
\* how the bound MaxGens shows.
CanStart(e, explicit) ==
    /\ ~closing /\ e.on
    /\ explicit \/ /\ status.state \in {"approved", "ready", "starting", "handshaking"}
                   /\ last # 0 => ~session[last].stop /\ ~session[last].cancelled

StartLocked(e, s) ==
    IF Live(last) \/ last = MaxGens
    THEN /\ status' = s
         /\ UNCHANGED <<last, session, incoming>>
    ELSE /\ last' = last + 1
         /\ session' = [g \in Gens |-> IF g = last THEN NoSession
                                       ELSE IF g = last + 1 THEN NewSession(e)
                                       ELSE session[g]]
         /\ status' = [state |-> "starting", gen |-> last + 1]
         /\ incoming' = [i \in Ids |-> "none"]

\* The context is cancelled; whether stop is closed no longer matters, so it
\* is, and the approval is not read again.
Ended(stage) == [NoSession EXCEPT !.stage = stage, !.stop = TRUE, !.cancelled = TRUE]

CloseStop(g) == IF g = 0 THEN session ELSE [session EXCEPT ![g].stop = TRUE]

\* Stop, under one lock.  It sends no notice.
StopLocked ==
    /\ session' = CloseStop(last)
    /\ status' = IF entry.on THEN [status EXCEPT !.state = "stopped"] ELSE status

-----------------------------------------------------------------------------
(* session.run.                                                             *)

\* The package is inspected and fingerprinted, the stop is looked at, and the
\* process is started, which may fail.  A stop that comes after the look is
\* taken by the loop.
RunStart(g) ==
    /\ session[g].stage = "verify"
    /\ LET ok == Verified(package, session[g].appr) IN
       \/ /\ ok /\ ~session[g].stop
          /\ Transition(g, "handshaking")
          /\ session' = [session EXCEPT ![g].stage = "handshake"]
       \/ /\ Transition(g, IF ~ok THEN "blocked"
                            ELSE IF session[g].stop THEN "stopped" ELSE "failed")
          /\ session' = [session EXCEPT ![g] = Ended("done")]
    /\ UNCHANGED <<disk, entry, last, closing, incoming, client, watch>>

Looping(g) == session[g].stage \in {"handshake", "running", "stopping"}

\* The loop ends with status s; the deferred functions cancel the context
\* first, then kill the process and wait for every goroutine of the session.
RunEnd(g, s) ==
    /\ Transition(g, s)
    /\ session' = [session EXCEPT ![g] = Ended("reap")]
    /\ UNCHANGED <<disk, entry, last, closing, incoming, client, watch>>

\* case <-s.ctx.Done(): a failure recorded by session.fail.
RunCancelled(g) ==
    /\ Looping(g) /\ session[g].cancelled
    /\ RunEnd(g, IF session[g].stop THEN "stopped" ELSE "failed")

\* case <-stop: taken once, then the shutdown frame and its timer.
RunStop(g) ==
    /\ Looping(g) /\ session[g].stop /\ session[g].stage # "stopping"
    /\ session' = [session EXCEPT ![g].stage = "stopping"]
    /\ Transition(g, "stopping")
    /\ UNCHANGED <<disk, entry, last, closing, incoming, client, watch>>

\* The process exits, closes its output, or sends a frame that ends it.
RunExit(g) ==
    /\ Looping(g)
    /\ RunEnd(g, IF session[g].stop THEN "stopped" ELSE "failed")

\* A frame that is not the one the stage expects, or one too many in a second.
RunBadFrame(g) ==
    /\ session[g].stage \in {"handshake", "running"}
    /\ RunEnd(g, "failed")

\* case <-timer.C: the handshake's or the shutdown's.
RunTimer(g) ==
    /\ session[g].stage \in {"handshake", "stopping"}
    /\ RunEnd(g, IF session[g].stage = "stopping" THEN "stopped" ELSE "failed")

\* select may take this frame although stop is closed: the status says ready
\* until the next turn of the loop.
RunReady(g) ==
    /\ session[g].stage = "handshake"
    /\ session' = [session EXCEPT ![g].stage = "running"]
    /\ Transition(g, "ready")
    /\ UNCHANGED <<disk, entry, last, closing, incoming, client, watch>>

\* The cleanup: the process is killed and reaped, the workers have ended.
RunDone(g) ==
    /\ session[g].stage = "reap" /\ \A i \in Ids : incoming[i] = "none"
    /\ session' = [session EXCEPT ![g].stage = "done"]
    /\ UNCHANGED <<disk, entry, last, status, closing, events, incoming, client, watch>>

-----------------------------------------------------------------------------
(* session.hostRequest: a request of the plugin to the UI.                  *)

\* An ID that is in s.incoming disconnects the plugin; an event queue that is
\* full answers busy at once.
HostRequest(i) ==
    /\ last # 0 /\ session[last].stage = "running"
    /\ IF incoming[i] # "none"
       THEN /\ session' = [session EXCEPT ![last].cancelled = TRUE]
            /\ UNCHANGED <<incoming, events>>
       ELSE /\ incoming' = [incoming EXCEPT ![i] =
                    IF Len(events) < EventCap THEN "queued" ELSE "answered"]
            /\ events' = Notify(i)
            /\ UNCHANGED session
    /\ UNCHANGED <<disk, entry, last, status, closing, client, watch>>

\* The request's context ends: ten seconds, a cancel frame, or the session.
\* Its event is still read, and then wakes the UI like a notice: it is denied,
\* and nobody waits for the answer.
RequestExpires(i) ==
    /\ incoming[i] = "queued"
    /\ incoming' = [incoming EXCEPT ![i] = "answered"]
    /\ events' = [k \in DOMAIN events |-> IF events[k] = i THEN Notice ELSE events[k]]
    /\ UNCHANGED <<disk, entry, last, session, status, closing, client, watch>>

\* The worker sends the response, or cannot because the session is cancelled.
RequestSend(i) ==
    /\ incoming[i] = "answered"
    /\ incoming' = [incoming EXCEPT ![i] = "sent"]
    /\ UNCHANGED <<disk, entry, last, session, status, closing, events, client, watch>>

\* The deferred delete of s.incoming[frame.ID].
RequestForget(i) ==
    /\ incoming[i] = "sent"
    /\ incoming' = [incoming EXCEPT ![i] = "none"]
    /\ UNCHANGED <<disk, entry, last, session, status, closing, events, client, watch>>

\* Runtime.Authorize for a request of generation g whose context has not ended.
Authorized(g) ==
    /\ ~closing /\ g = last /\ Usable(g)
    /\ status = [state |-> "ready", gen |-> g] /\ entry.on

-----------------------------------------------------------------------------
(* Restart, Reload and Activate run in the goroutine of a UI command.       *)

Go(c, pc, g) == client' = [client EXCEPT ![c].pc = pc, ![c].gen = g]

\* The goroutine returns its message to the UI.
Return(c) == client' = [client EXCEPT ![c] = [Idle EXCEPT !.pc = "result"]]

\* Restart begins with Stop, and Reload comes to it after its checks; the
\* session is read under a second lock.
StopAs(c, to) ==
    /\ StopLocked
    /\ client' = [client EXCEPT ![c].pc = to]
    /\ UNCHANGED <<disk, entry, last, closing, events, incoming, watch>>

Restart(c) == client[c] = Idle /\ StopAs(c, "restart_read")

ReloadStop(c) == client[c].pc = "reload_stop" /\ StopAs(c, "reload_read")

ClientRead(c, from, to) ==
    /\ client[c].pc = from
    /\ Go(c, to, last)
    /\ UNCHANGED <<disk, runtime, watch>>

\* case <-s.done, or the command's context times out.
ClientWaited(c, from, to) ==
    /\ client[c].pc = from
    /\ IF Live(client[c].gen) THEN Return(c) ELSE Go(c, to, 0)
    /\ UNCHANGED <<disk, runtime, watch>>

RestartStart(c) ==
    /\ client[c].pc = "restart_start"
    /\ Return(c)
    /\ IF CanStart(entry, TRUE)
       THEN StartLocked(entry, status)
       ELSE UNCHANGED <<last, session, status, incoming>>
    /\ UNCHANGED <<disk, entry, closing, events, watch>>

\* Reload reads the registration, then the file, then the package.  The path
\* and the scopes never change here; the package must match the new approval.
Reload(c) ==
    /\ client[c] = Idle
    /\ IF Verified(package, file)
       THEN client' = [client EXCEPT ![c].pc = "reload_stop", ![c].appr = file]
       ELSE Return(c)
    /\ UNCHANGED <<disk, runtime, watch>>

\* One lock section: the registration is replaced, the status has no
\* generation, and startLocked leaves a session that lives as it is.
ReloadInstall(c) ==
    /\ client[c].pc = "reload_install"
    /\ Return(c)
    /\ IF closing
       THEN UNCHANGED <<entry, last, session, status, incoming>>
       ELSE /\ entry' = client[c].appr
            /\ StartLocked(client[c].appr, [state |-> "approved", gen |-> 0])
    /\ UNCHANGED <<disk, closing, events, watch>>

\* Activate: startLocked without explicit, then it waits for ready.
Activate(c) ==
    /\ client[c] = Idle
    /\ IF CanStart(entry, FALSE)
       THEN /\ StartLocked(entry, status)
            /\ IF Live(last)' THEN Go(c, "activate_wait", last') ELSE Return(c)
       ELSE /\ Return(c)
            /\ UNCHANGED <<last, session, status, incoming>>
    /\ UNCHANGED <<disk, entry, closing, events, watch>>

\* s.ready, s.done or the time-out; then the UI is told.
ActivateWaited(c) ==
    /\ client[c].pc = "activate_wait"
    /\ IF session[client[c].gen].stage = "running" /\ ~session[client[c].gen].stop
       THEN client' = [client EXCEPT ![c].pc = "activated"] ELSE Return(c)
    /\ UNCHANGED <<disk, runtime, watch>>

\* CallGeneration and session.call: the call ends with a reply, its time-out
\* or the end of the session, and never reaches another generation.
CallEnds(c) ==
    /\ client[c].pc = "call"
    /\ Return(c)
    /\ UNCHANGED <<disk, runtime, watch>>

ClientStep(c) ==
    \/ ClientRead(c, "restart_read", "restart_wait")
    \/ ClientWaited(c, "restart_wait", "restart_start")
    \/ RestartStart(c)
    \/ ReloadStop(c)
    \/ ClientRead(c, "reload_read", "reload_wait")
    \/ ClientWaited(c, "reload_wait", "reload_install")
    \/ ReloadInstall(c)
    \/ ActivateWaited(c)
    \/ CallEnds(c)

-----------------------------------------------------------------------------
(* WatchApprovals: every 500 ms, a copy of the registrations, then the file *)
(* of each, without the lock; a file that differs from the copy leads to   *)
(* revoke, whatever either of them is by then.                             *)

WatchTick ==
    /\ ~closing /\ ~watch /\ entry.on /\ file # entry
    /\ watch' = TRUE
    /\ UNCHANGED <<disk, runtime, client>>

\* Mutant of WatchRevoke: the approval is revoked and the process left running.
WatchRevokeOnly ==
    /\ watch /\ watch' = FALSE
    /\ entry' = [entry EXCEPT !.on = FALSE]
    /\ status' = [status EXCEPT !.state = "blocked"]
    /\ events' = Notify(Notice)
    /\ UNCHANGED <<disk, last, session, closing, incoming, client>>

WatchRevoke ==
    /\ watch /\ watch' = FALSE
    /\ entry' = [entry EXCEPT !.on = FALSE]
    /\ status' = [status EXCEPT !.state = "blocked"]
    /\ session' = CloseStop(last)
    /\ events' = Notify(Notice)
    /\ UNCHANGED <<disk, last, closing, incoming, client>>

-----------------------------------------------------------------------------
\* What the code does about a session and a request by itself, whatever the
\* plugin does: only one generation is ever in one of these steps.
SessionEnds(g) ==
    \/ RunStart(g) \/ RunCancelled(g) \/ RunStop(g) \/ RunTimer(g) \/ RunDone(g)

RequestEnds(i) == RequestExpires(i) \/ RequestSend(i) \/ RequestForget(i)

DiskStep ==
    \/ EditPackage \/ CliApprove \/ CliRevoke
    \/ \E on \in BOOLEAN : CliSetEnabled(on)

RuntimeNext ==
    \/ DiskStep
    \/ \E g \in Gens : SessionEnds(g) \/ RunReady(g) \/ RunExit(g) \/ RunBadFrame(g)
    \/ \E i \in Ids : RequestEnds(i) \/ HostRequest(i)
    \/ \E c \in Clients : ClientStep(c)
    \/ WatchTick \/ WatchRevoke
=============================================================================
