---------------------------- MODULE PluginProofs ----------------------------
(***************************************************************************)
(* A plugin has at most one process, for every number of generations,      *)
(* goroutines and requests.  The proof needs one thing besides the types:   *)
(* only the last generation can be anything but done, so that whatever      *)
(* moves a session moves the last one, and whatever starts one finds none   *)
(* that lives.                                                             *)
(***************************************************************************)
EXTENDS PluginHost, TLAPS

ReadyNamesLast == status.state = "ready" => last # 0

PluginInv == TypeOK /\ OneGeneration /\ ReadyNamesLast

-----------------------------------------------------------------------------
LEMMA Bounds == MaxGens \in Nat \ {0} /\ EventCap \in Nat \ {0} /\ MaxEdits \in Nat /\ Revs # {}
  BY RuntimeAssumption

LEMMA RecordTypes ==
  /\ NoSession \in Sessions /\ NoSession.stage = "done"
  /\ \A e \in Approvals : NewSession(e) \in Sessions /\ e.on \in BOOLEAN
  /\ \A stage \in Stages : Ended(stage) \in Sessions /\ Ended(stage).stage = stage
  /\ Idle \in [pc : ClientPcs, gen : 0 .. MaxGens, appr : Approvals \cup {NoFile}]
  /\ [Idle EXCEPT !.pc = "result"] \in [pc : ClientPcs, gen : 0 .. MaxGens, appr : Approvals \cup {NoFile}]
  /\ Idle.pc = "idle" /\ [Idle EXCEPT !.pc = "result"].pc = "result"
<1>1. NoSession \in Sessions /\ NoSession.stage = "done"
  BY Bounds DEF NoSession, Sessions, Approvals, Stages
<1>2. \A e \in Approvals : NewSession(e) \in Sessions /\ e.on \in BOOLEAN
  BY DEF NewSession, Sessions, Approvals, Stages
<1>3. \A stage \in Stages : Ended(stage) \in Sessions /\ Ended(stage).stage = stage
  BY <1>1 DEF Ended, Sessions
<1>4. 0 \in 0 .. MaxGens
  BY Bounds
<1> QED
  BY <1>1, <1>2, <1>3, <1>4 DEF Idle, ClientPcs

\* The queue of events stays typed and bounded.
LEMMA NotifyTyped ==
  ASSUME TypeOK, NEW e \in Ids \cup {Notice}
  PROVE  Notify(e) \in Seq(Ids \cup {Notice}) /\ Len(Notify(e)) <= EventCap
  BY Bounds DEF TypeOK, Notify

\* A step of session g goes on with it, and says so in the status.
LEMMA SessionMoves ==
  ASSUME PluginInv, NEW g \in Gens, session[g].stage # "done",
         NEW s \in States, NEW x \in Sessions,
         session' = [session EXCEPT ![g] = x], Transition(g, s),
         s = "ready" => x.stage = "running",
         UNCHANGED <<disk, entry, last, closing, incoming, client, watch, uivars>>
  PROVE  PluginInv'
<1> USE DEF PluginInv
<1>1. g = last /\ last # 0 /\ g \in 0 .. MaxGens
  BY Bounds DEF OneGeneration, Gens
<1>2. /\ session' \in [Gens -> Sessions] /\ \A h \in Gens : h # g => session'[h] = session[h]
      /\ session'[g] = x
  BY DEF TypeOK
<1>3. status'.state \in {s, "blocked"} /\ status'.gen = g /\ status' \in [state : States, gen : 0 .. MaxGens]
  BY <1>1 DEF Transition, States
<1>4. events' \in Seq(Ids \cup {Notice}) /\ Len(events') <= EventCap
  BY NotifyTyped DEF Transition
<1>5. TypeOK'
  BY <1>2, <1>3, <1>4 DEF TypeOK, disk, uivars
<1>6. OneGeneration' /\ ReadyNamesLast'
  BY <1>1, <1>2, <1>3 DEF OneGeneration, ReadyNamesLast
<1> QED
  BY <1>5, <1>6

\* A step that moves no session and does not say ready.
LEMMA NoSessionMoves ==
  ASSUME PluginInv, TypeOK', last' = last, status' = status \/ status'.state # "ready",
         \A g \in Gens : session'[g].stage = session[g].stage
  PROVE  PluginInv'
<1>1. last \in Gens \/ last = 0
  BY Bounds DEF PluginInv, TypeOK, Gens
<1> QED
  BY <1>1 DEF PluginInv, OneGeneration, ReadyNamesLast

LEMMA CloseStopKeeps ==
  ASSUME TypeOK
  PROVE  /\ CloseStop(last) \in [Gens -> Sessions]
         /\ \A g \in Gens : CloseStop(last)[g].stage = session[g].stage
<1>1. CASE last = 0
  BY <1>1 DEF CloseStop, TypeOK
<1>2. CASE last # 0
  <2>1. last \in Gens /\ [session[last] EXCEPT !.stop = TRUE] \in Sessions
    <3>1. last \in Gens
      BY <1>2, Bounds DEF TypeOK, Gens
    <3>2. session[last] \in Sessions
      BY <3>1 DEF TypeOK
    <3> QED
      BY <3>1, <3>2 DEF Sessions
  <2> QED
    BY <1>2, <2>1 DEF CloseStop, TypeOK, Sessions
<1> QED
  BY <1>1, <1>2

LEMMA StopKeeps ==
  ASSUME TypeOK, StopLocked
  PROVE  /\ session' \in [Gens -> Sessions] /\ \A g \in Gens : session'[g].stage = session[g].stage
         /\ status' \in [state : States, gen : 0 .. MaxGens]
         /\ status' = status \/ status'.state # "ready"
<1>1. [status EXCEPT !.state = "stopped"] \in [state : States, gen : 0 .. MaxGens]
  BY DEF TypeOK, States
<1> QED
  BY <1>1, CloseStopKeeps DEF StopLocked, TypeOK

\* A generation is started only after the one before is done.
LEMMA StartKeeps ==
  ASSUME PluginInv, NEW e \in Approvals, NEW s \in [state : States, gen : 0 .. MaxGens],
         s = status \/ s.state # "ready", StartLocked(e, s)
  PROVE  /\ last' \in 0 .. MaxGens /\ session' \in [Gens -> Sessions]
         /\ status' \in [state : States, gen : 0 .. MaxGens] /\ incoming' \in [Ids -> RequestStates]
         /\ OneGeneration' /\ ReadyNamesLast'
<1> USE DEF PluginInv
<1>1. CASE UNCHANGED <<last, session, incoming>> /\ status' = s
  <2>1. last \in Gens \/ last = 0
    BY Bounds DEF TypeOK, Gens
  <2> QED
    BY <1>1, <2>1 DEF TypeOK, OneGeneration, ReadyNamesLast
<1>2. CASE ~Live(last) /\ last # MaxGens
  <2>1. /\ last' = last + 1 /\ last' \in Gens /\ last' # 0 /\ last \in 0 .. MaxGens
        /\ incoming' = [i \in Ids |-> "none"]
    BY <1>2, Bounds DEF StartLocked, TypeOK, Gens
  <2>2. session' = [g \in Gens |-> IF g = last THEN NoSession ELSE IF g = last' THEN NewSession(e) ELSE session[g]]
    BY <1>2, <2>1 DEF StartLocked
  <2>3. status' = [state |-> "starting", gen |-> last'] /\ last' \in 0 .. MaxGens
    BY <1>2, <2>1, Bounds DEF StartLocked, Gens
  <2>4. session' \in [Gens -> Sessions]
    BY <2>2, RecordTypes DEF TypeOK
  <2>5. \A g \in Gens : g # last' => session'[g].stage = "done"
    BY <2>2, RecordTypes DEF OneGeneration
  <2> QED
    BY <2>1, <2>3, <2>4, <2>5 DEF OneGeneration, ReadyNamesLast, RequestStates, States
<1> QED
  BY <1>1, <1>2 DEF StartLocked

-----------------------------------------------------------------------------
(* The runtime.                                                            *)

LEMMA SessionStepInv ==
  ASSUME PluginInv, UNCHANGED uivars, NEW g \in Gens,
         SessionEnds(g) \/ RunReady(g) \/ RunExit(g) \/ RunBadFrame(g)
  PROVE  PluginInv'
<1> USE DEF PluginInv
<1>1. session[g] \in Sessions
  BY DEF TypeOK
<1> DEFINE At(stage) == [session[g] EXCEPT !.stage = stage]
<1>2. \A stage \in Stages : At(stage) \in Sessions /\ At(stage).stage = stage
  BY <1>1 DEF Sessions
<1>3. ASSUME NEW stage \in Stages PROVE [session EXCEPT ![g].stage = stage] = [session EXCEPT ![g] = At(stage)]
  BY DEF TypeOK
<1>4. CASE RunStart(g)
  <2>1. CASE /\ Transition(g, "handshaking") /\ session' = [session EXCEPT ![g].stage = "handshake"]
    BY <1>2, <1>3, <1>4, <2>1, SessionMoves DEF RunStart, Stages, States
  <2>2. ASSUME NEW s \in {"blocked", "stopped", "failed"}, Transition(g, s), session' = [session EXCEPT ![g] = Ended("done")]
        PROVE  PluginInv'
    BY <1>4, <2>2, RecordTypes, SessionMoves DEF RunStart, Stages, States
  <2> QED
    BY <1>4, <2>1, <2>2 DEF RunStart
<1>5. ASSUME NEW s \in {"stopped", "failed"}, RunEnd(g, s), session[g].stage # "done" PROVE PluginInv'
  BY <1>5, RecordTypes, SessionMoves DEF RunEnd, Stages, States
<1>6. CASE RunCancelled(g) \/ RunExit(g) \/ RunBadFrame(g) \/ RunTimer(g)
  BY <1>5, <1>6 DEF RunCancelled, RunExit, RunBadFrame, RunTimer, Looping
<1>7. CASE RunStop(g)
  BY <1>2, <1>3, <1>7, SessionMoves DEF RunStop, Looping, Stages, States
<1>8. CASE RunReady(g)
  BY <1>2, <1>3, <1>8, SessionMoves DEF RunReady, Stages, States
<1>9. CASE RunDone(g)
  <2>1. session' = [session EXCEPT ![g] = At("done")] /\ session[g].stage = "reap" /\ At("done") \in Sessions
    BY <1>2, <1>3, <1>9 DEF RunDone, Stages
  <2>2. UNCHANGED <<disk, entry, last, status, closing, events, incoming, client, watch, uivars>>
    BY <1>9 DEF RunDone
  <2>3. session' \in [Gens -> Sessions] /\ \A h \in Gens : session'[h] = IF h = g THEN At("done") ELSE session[h]
    BY <2>1 DEF TypeOK
  <2>4. TypeOK'
    BY <2>2, <2>3 DEF TypeOK, disk, uivars
  <2>5. g = last
    BY <2>1 DEF OneGeneration
  <2> QED
    BY <1>2, <2>1, <2>2, <2>3, <2>4, <2>5 DEF OneGeneration, ReadyNamesLast, Stages
<1> QED
  BY <1>4, <1>6, <1>7, <1>8, <1>9 DEF SessionEnds

\* What changes neither a session's stage nor the status: requests, the files
\* and the watcher's look.
LEMMA QuietInv ==
  ASSUME PluginInv, UNCHANGED uivars,
         DiskStep \/ WatchTick \/ \E i \in Ids : RequestEnds(i) \/ HostRequest(i)
  PROVE  PluginInv'
<1> USE DEF PluginInv
<1>1. UNCHANGED <<entry, last, status, closing, client>>
  BY DEF DiskStep, EditPackage, CliApprove, CliRevoke, CliSetEnabled, WatchTick, RequestEnds, RequestExpires, RequestSend,
         RequestForget, HostRequest, runtime
<1>2. CASE DiskStep
  <2>1. UNCHANGED <<session, events, incoming, watch>>
    BY <1>2 DEF DiskStep, EditPackage, CliApprove, CliRevoke, CliSetEnabled, runtime
  <2>2. edits' \in 0 .. MaxEdits
    BY <1>2, Bounds DEF TypeOK, DiskStep, Edit, EditPackage, CliApprove, CliRevoke, CliSetEnabled
  <2>3. package' \in Revs /\ file' \in Approvals \cup {NoFile}
    <3>1. file # NoFile => \A on \in BOOLEAN : [file EXCEPT !.on = on] \in Approvals
      BY DEF TypeOK, Approvals
    <3>2. [rev |-> package, on |-> TRUE] \in Approvals
      BY DEF TypeOK, Approvals
    <3> QED
      BY <1>2, <3>1, <3>2 DEF TypeOK, DiskStep, EditPackage, CliApprove, CliRevoke, CliSetEnabled
  <2>4. TypeOK'
    BY <1>1, <2>1, <2>2, <2>3 DEF TypeOK, uivars
  <2> QED
    BY <1>1, <2>1, <2>4, NoSessionMoves
<1>3. CASE WatchTick
  <2>1. TypeOK'
    BY <1>3 DEF TypeOK, WatchTick, disk, runtime, uivars
  <2> QED
    BY <1>1, <1>3, <2>1, NoSessionMoves DEF WatchTick, runtime
<1>4. ASSUME NEW i \in Ids, RequestEnds(i) PROVE PluginInv'
  <2>1. UNCHANGED <<disk, session, watch>> /\ incoming' \in [Ids -> RequestStates]
    BY <1>4 DEF TypeOK, RequestEnds, RequestExpires, RequestSend, RequestForget, RequestStates
  <2>2. events' \in Seq(Ids \cup {Notice}) /\ Len(events') <= EventCap
    <3>1. [k \in DOMAIN events |-> IF events[k] = i THEN Notice ELSE events[k]] \in Seq(Ids \cup {Notice})
      <4>1. events \in [1 .. Len(events) -> Ids \cup {Notice}] /\ DOMAIN events = 1 .. Len(events) /\ Len(events) \in Nat
        BY DEF TypeOK
      <4>2. [k \in 1 .. Len(events) |-> IF events[k] = i THEN Notice ELSE events[k]] \in [1 .. Len(events) -> Ids \cup {Notice}]
        BY <4>1
      <4> QED
        BY <4>1, <4>2
    <3>2. Len([k \in DOMAIN events |-> IF events[k] = i THEN Notice ELSE events[k]]) = Len(events)
      BY <3>1 DEF TypeOK
    <3> QED
      BY <1>4, <3>1, <3>2 DEF TypeOK, RequestEnds, RequestExpires, RequestSend, RequestForget
  <2>3. TypeOK'
    BY <1>1, <2>1, <2>2 DEF TypeOK, disk, uivars
  <2> QED
    BY <1>1, <2>1, <2>3, NoSessionMoves
<1>5. ASSUME NEW i \in Ids, HostRequest(i) PROVE PluginInv'
  <2>1. last \in Gens
    BY <1>5, Bounds DEF TypeOK, HostRequest, Gens
  <2>2. session' \in [Gens -> Sessions] /\ \A g \in Gens : session'[g].stage = session[g].stage
    <3>1. session[last] \in Sessions
      BY <2>1 DEF TypeOK
    <3>2. [session[last] EXCEPT !.cancelled = TRUE] \in Sessions
          /\ [session[last] EXCEPT !.cancelled = TRUE].stage = session[last].stage
      BY <3>1 DEF Sessions
    <3>3. session' = session \/ session' = [session EXCEPT ![last] = [session[last] EXCEPT !.cancelled = TRUE]]
      BY <1>5, <2>1 DEF TypeOK, HostRequest
    <3> QED
      BY <2>1, <3>2, <3>3 DEF TypeOK
  <2>3. incoming' \in [Ids -> RequestStates] /\ UNCHANGED <<disk, watch>>
    BY <1>5 DEF TypeOK, HostRequest, RequestStates
  <2>4. events' \in Seq(Ids \cup {Notice}) /\ Len(events') <= EventCap
    BY <1>5, NotifyTyped DEF TypeOK, HostRequest
  <2>5. TypeOK'
    BY <1>1, <2>2, <2>3, <2>4 DEF TypeOK, disk, uivars
  <2> QED
    BY <1>1, <2>2, <2>5, NoSessionMoves
<1> QED
  BY <1>2, <1>3, <1>4, <1>5

LEMMA WatchRevokeInv == ASSUME PluginInv, UNCHANGED uivars, WatchRevoke PROVE PluginInv'
<1> USE DEF PluginInv
<1>1. [entry EXCEPT !.on = FALSE] \in Approvals
  BY DEF TypeOK, Approvals
<1>2. [status EXCEPT !.state = "blocked"] \in [state : States, gen : 0 .. MaxGens]
  BY DEF TypeOK, States
<1>3. events' \in Seq(Ids \cup {Notice}) /\ Len(events') <= EventCap
  BY NotifyTyped DEF WatchRevoke
<1>4. session' \in [Gens -> Sessions] /\ \A g \in Gens : session'[g].stage = session[g].stage
  BY CloseStopKeeps DEF WatchRevoke
<1>5. TypeOK'
  BY <1>1, <1>2, <1>3, <1>4 DEF WatchRevoke, TypeOK, disk, uivars
<1>6. status'.state = "blocked"
  BY DEF WatchRevoke, TypeOK
<1> QED
  BY <1>4, <1>5, <1>6, NoSessionMoves DEF WatchRevoke

-----------------------------------------------------------------------------
(* The commands' goroutines.                                               *)

ClientRecords == [pc : ClientPcs, gen : 0 .. MaxGens, appr : Approvals \cup {NoFile}]
ClientsTyped ==
    /\ client \in [Clients -> ClientRecords]
    /\ \A c \in Clients : client[c].pc \in Reloading => client[c].appr \in Approvals

LEMMA ClientBecomes ==
  ASSUME TypeOK, NEW c \in Clients, NEW x \in ClientRecords, x.pc \in Reloading => x.appr \in Approvals,
         client' = [client EXCEPT ![c] = x]
  PROVE  ClientsTyped'
  BY DEF TypeOK, ClientsTyped, ClientRecords

LEMMA ClientReturns == ASSUME TypeOK, NEW c \in Clients, Return(c) PROVE ClientsTyped'
  BY RecordTypes, ClientBecomes DEF Return, ClientRecords, Reloading

LEMMA ClientGoes ==
  ASSUME TypeOK, NEW c \in Clients, NEW pc \in ClientPcs, NEW g \in 0 .. MaxGens, Go(c, pc, g),
         pc \in Reloading => client[c].pc \in Reloading
  PROVE  ClientsTyped'
<1>1. client[c] \in ClientRecords /\ (client[c].pc \in Reloading => client[c].appr \in Approvals)
  BY DEF TypeOK, ClientRecords
<1> DEFINE x == [client[c] EXCEPT !.pc = pc, !.gen = g]
<1>2. x \in ClientRecords /\ x.pc = pc /\ x.appr = client[c].appr
  BY <1>1 DEF ClientRecords
<1>3. client' = [client EXCEPT ![c] = x]
  BY <1>1 DEF Go, TypeOK, ClientRecords
<1> HIDE DEF x
<1> QED
  BY <1>1, <1>2, <1>3, ClientBecomes

LEMMA ClientPcMoves ==
  ASSUME TypeOK, NEW c \in Clients, NEW pc \in ClientPcs, client' = [client EXCEPT ![c].pc = pc],
         pc \in Reloading => client[c].pc \in Reloading
  PROVE  ClientsTyped'
<1>1. client[c] \in ClientRecords /\ (client[c].pc \in Reloading => client[c].appr \in Approvals)
  BY DEF TypeOK, ClientRecords
<1> DEFINE x == [client[c] EXCEPT !.pc = pc]
<1>2. x \in ClientRecords /\ x.pc = pc /\ x.appr = client[c].appr
  BY <1>1 DEF ClientRecords
<1>3. client' = [client EXCEPT ![c] = x]
  BY DEF TypeOK
<1> HIDE DEF x
<1> QED
  BY <1>1, <1>2, <1>3, ClientBecomes

LEMMA StopAsInv ==
  ASSUME PluginInv, UNCHANGED uivars, NEW c \in Clients, NEW pc \in ClientPcs, StopAs(c, pc),
         pc \in Reloading => client[c].pc \in Reloading
  PROVE  PluginInv'
<1> USE DEF PluginInv
<1>1. ClientsTyped'
  BY ClientPcMoves DEF StopAs
<1>2. TypeOK'
  BY <1>1, StopKeeps DEF StopAs, TypeOK, ClientsTyped, ClientRecords, disk, uivars
<1> QED
  BY <1>2, StopKeeps, NoSessionMoves DEF StopAs

\* A goroutine that leaves the runtime alone.
LEMMA ClientOnlyInv ==
  ASSUME PluginInv, ClientsTyped', UNCHANGED <<disk, runtime, watch, uivars>>
  PROVE  PluginInv'
<1>1. TypeOK'
  BY DEF PluginInv, TypeOK, ClientsTyped, ClientRecords, disk, runtime, uivars
<1> QED
  BY <1>1, NoSessionMoves DEF runtime

\* A goroutine, or the UI, that may start a generation.
LEMMA StarterInv ==
  ASSUME PluginInv, ClientsTyped', entry' \in Approvals,
         NEW e \in Approvals, NEW s \in [state : States, gen : 0 .. MaxGens],
         s = status \/ s.state # "ready",
         StartLocked(e, s) \/ UNCHANGED <<last, session, status, incoming>>,
         UNCHANGED <<disk, closing, events, watch, uiPc, request>>,
         contrib' \in [Kinds -> 0 .. MaxGens], uiStatus' \in {"offered", "blocked", "down"}
  PROVE  PluginInv'
<1> USE DEF PluginInv
<1>1. /\ last' \in 0 .. MaxGens /\ session' \in [Gens -> Sessions]
      /\ status' \in [state : States, gen : 0 .. MaxGens] /\ incoming' \in [Ids -> RequestStates]
      /\ OneGeneration' /\ ReadyNamesLast'
  <2>1. CASE StartLocked(e, s)
    BY <2>1, StartKeeps
  <2>2. CASE UNCHANGED <<last, session, status, incoming>>
    BY <2>2 DEF TypeOK, OneGeneration, ReadyNamesLast
  <2> QED
    BY <2>1, <2>2
<1>2. TypeOK'
  BY <1>1 DEF TypeOK, ClientsTyped, ClientRecords, disk
<1> QED
  BY <1>1, <1>2

LEMMA ClientStepInv ==
  ASSUME PluginInv, UNCHANGED uivars, NEW c \in Clients, ClientStep(c) PROVE PluginInv'
<1> USE DEF PluginInv
<1>1. /\ client[c] \in ClientRecords /\ (client[c].pc \in Reloading => client[c].appr \in Approvals)
      /\ last \in 0 .. MaxGens /\ 0 \in 0 .. MaxGens
  BY Bounds DEF TypeOK, ClientRecords
<1>2. CASE ClientRead(c, "restart_read", "restart_wait") \/ ClientRead(c, "reload_read", "reload_wait")
  BY <1>1, <1>2, ClientGoes, ClientOnlyInv DEF ClientRead, ClientPcs, Reloading
<1>3. CASE ClientWaited(c, "restart_wait", "restart_start") \/ ClientWaited(c, "reload_wait", "reload_install")
  <2>1. ClientsTyped'
    BY <1>1, <1>3, ClientGoes, ClientReturns DEF ClientWaited, ClientPcs, Reloading
  <2> QED
    BY <1>3, <2>1, ClientOnlyInv DEF ClientWaited
<1>4. CASE ReloadStop(c)
  BY <1>4, StopAsInv DEF ReloadStop, ClientPcs, Reloading
<1>5. CASE ActivateWaited(c) \/ CallEnds(c)
  <2>1. ClientsTyped'
    BY <1>5, ClientPcMoves, ClientReturns DEF ActivateWaited, CallEnds, ClientPcs, Reloading
  <2> QED
    BY <1>5, <2>1, ClientOnlyInv DEF ActivateWaited, CallEnds
<1>6. CASE RestartStart(c)
  <2>1. entry \in Approvals /\ status \in [state : States, gen : 0 .. MaxGens]
    BY DEF TypeOK
  <2>2. contrib' \in [Kinds -> 0 .. MaxGens] /\ uiStatus' \in {"offered", "blocked", "down"} /\ UNCHANGED <<uiPc, request>>
    BY DEF TypeOK, uivars
  <2> QED
    BY <1>6, <2>1, <2>2, ClientReturns, StarterInv DEF RestartStart
<1>7. CASE ReloadInstall(c)
  <2>1. entry \in Approvals /\ client[c].appr \in Approvals
    BY <1>1, <1>7 DEF TypeOK, ReloadInstall, Reloading
  <2>2. contrib' \in [Kinds -> 0 .. MaxGens] /\ uiStatus' \in {"offered", "blocked", "down"} /\ UNCHANGED <<uiPc, request>>
    BY DEF TypeOK, uivars
  <2>3. [state |-> "approved", gen |-> 0] \in [state : States, gen : 0 .. MaxGens]
    BY <1>1 DEF States
  <2> QED
    BY <1>7, <2>1, <2>2, <2>3, ClientReturns, StarterInv DEF ReloadInstall
<1> QED
  BY <1>2, <1>3, <1>4, <1>5, <1>6, <1>7 DEF ClientStep

LEMMA RuntimeInv == ASSUME PluginInv, RuntimeNext, UNCHANGED uivars PROVE PluginInv'
  BY SessionStepInv, QuietInv, WatchRevokeInv, ClientStepInv DEF RuntimeNext

-----------------------------------------------------------------------------
(* The UI.                                                                 *)

LEMMA ViewTyped == \A s : View(s) \in {"offered", "blocked", "down"}
  BY DEF View

LEMMA SyncTyped ==
  ASSUME TypeOK, SyncPluginStates
  PROVE  contrib' \in [Kinds -> 0 .. MaxGens] /\ uiStatus' \in {"offered", "blocked", "down"}
<1>1. 0 \in 0 .. MaxGens
  BY Bounds
<1> QED
  BY <1>1, ViewTyped DEF SyncPluginStates, Pruned, TypeOK

\* The UI works on its own state and on the queue of events.
LEMMA UiInv ==
  ASSUME PluginInv, UNCHANGED <<disk, entry, last, session, status, closing, watch>>,
         ClientsTyped', events' \in Seq(Ids \cup {Notice}), Len(events') <= EventCap, incoming' \in [Ids -> RequestStates],
         uiPc' \in {"wait", "apply", "quit"}, request'.gen \in 0 .. MaxGens, uiPc' = "apply" => request'.id \in Ids,
         contrib' \in [Kinds -> 0 .. MaxGens], uiStatus' \in {"offered", "blocked", "down"}
  PROVE  PluginInv'
<1>1. TypeOK'
  BY DEF PluginInv, TypeOK, ClientsTyped, ClientRecords, disk
<1> QED
  BY <1>1, NoSessionMoves

LEMMA AnswerTyped ==
  ASSUME TypeOK, NEW g, NEW i, Answer(g, i) PROVE incoming' \in [Ids -> RequestStates]
  BY DEF TypeOK, Answer, RequestStates

LEMMA UiStepInv == ASSUME PluginInv, UiStep PROVE PluginInv'
<1> USE DEF PluginInv
<1>1. ClientsTyped /\ 0 \in 0 .. MaxGens
  BY Bounds DEF TypeOK, ClientsTyped, ClientRecords
<1>2. CASE UiEvent
  <2>1. Tail(events) \in Seq(Ids \cup {Notice}) /\ Len(Tail(events)) <= EventCap /\ Head(events) \in Ids \cup {Notice}
    BY <1>2, Bounds DEF UiEvent, TypeOK
  <2>2. ClientsTyped' /\ UNCHANGED <<disk, entry, last, session, status, closing, watch>> /\ events' = Tail(events)
    BY <1>1, <1>2 DEF UiEvent, ClientsTyped
  <2>3. incoming' \in [Ids -> RequestStates]
    BY <1>2, AnswerTyped DEF UiEvent, TypeOK
  <2>4. uiPc' \in {"wait", "apply", "quit"} /\ request'.gen \in 0 .. MaxGens /\ (uiPc' = "apply" => request'.id \in Ids)
    BY <1>2, <2>1 DEF UiEvent, TypeOK
  <2> QED
    BY <1>2, <2>1, <2>2, <2>3, <2>4, SyncTyped, UiInv DEF UiEvent
<1>3. CASE UiApply
  <2>1. contrib' \in [Kinds -> 0 .. MaxGens]
    BY <1>1, <1>3 DEF UiApply, ApplyOther, ApplyStatus, ApplySubscribe, ApplyPane, ApplyView, Adds, Removes, TypeOK
  <2>2. incoming' \in [Ids -> RequestStates]
    BY <1>3, AnswerTyped DEF UiApply
  <2>3. UNCHANGED <<disk, entry, last, session, status, closing, watch, events>> /\ ClientsTyped'
    BY <1>1, <1>3 DEF UiApply, ClientsTyped
  <2>4. uiPc' = "wait" /\ request'.gen \in 0 .. MaxGens /\ uiStatus' = uiStatus
    BY <1>1, <1>3 DEF UiApply, NoRequest
  <2> QED
    BY <2>1, <2>2, <2>3, <2>4, UiInv DEF TypeOK
<1>4. CASE UiTick
  <2>1. contrib' \in [Kinds -> 0 .. MaxGens]
    BY <1>1, <1>4 DEF UiTick, Pruned, TypeOK
  <2>2. UNCHANGED rvars /\ ClientsTyped' /\ UNCHANGED <<uiPc, request>> /\ uiStatus' \in {"offered", "blocked", "down"}
    BY <1>1, <1>4, ViewTyped DEF UiTick, rvars, ClientsTyped
  <2> QED
    BY <2>1, <2>2, UiInv DEF TypeOK, rvars, runtime
<1>5. ASSUME NEW c \in Clients, UiActivated(c) \/ UiResult(c) PROVE PluginInv'
  <2>1. ClientsTyped'
    BY <1>5, RecordTypes, ClientPcMoves, ClientBecomes DEF UiActivated, UiResult, ClientPcs, Reloading, ClientRecords
  <2>2. UNCHANGED <<disk, runtime, watch, uiPc, request>> /\ SyncPluginStates
    BY <1>5 DEF UiActivated, UiResult
  <2> QED
    BY <2>1, <2>2, SyncTyped, UiInv DEF TypeOK, runtime
<1> QED
  BY <1>2, <1>3, <1>4, <1>5 DEF UiStep

LEMMA UiStopsInv == ASSUME PluginInv, UiStop \/ UiDisable PROVE PluginInv'
<1> USE DEF PluginInv
<1>1. /\ StopLocked /\ SyncPluginStates
      /\ UNCHANGED <<entry, last, closing, events, incoming, client, watch, uiPc, request>>
  BY DEF UiStop, UiDisable
<1>2. package' \in Revs /\ file' \in Approvals \cup {NoFile} /\ edits' \in 0 .. MaxEdits
  <2>1. CASE UiStop
    BY <2>1 DEF UiStop, disk, TypeOK
  <2>2. CASE UiDisable
    <3>1. [file EXCEPT !.on = FALSE] \in Approvals
      BY <2>2 DEF UiDisable, TypeOK, Approvals
    <3> QED
      BY <2>2, <3>1, Bounds DEF UiDisable, Edit, TypeOK
  <2> QED
    BY <2>1, <2>2
<1>3. TypeOK'
  BY <1>1, <1>2, StopKeeps, SyncTyped DEF TypeOK
<1> QED
  BY <1>1, <1>3, StopKeeps, NoSessionMoves

LEMMA UiCommandInv == ASSUME PluginInv, NEW c \in Clients, UiCommand(c) PROVE PluginInv'
<1> USE DEF PluginInv
<1>1. UNCHANGED uivars /\ contrib' \in [Kinds -> 0 .. MaxGens] /\ uiStatus' \in {"offered", "blocked", "down"}
  BY DEF UiCommand, uivars, TypeOK
<1>2. CASE Restart(c)
  BY <1>1, <1>2, StopAsInv DEF Restart, ClientPcs, Reloading
<1>3. CASE Reload(c)
  <2>1. ASSUME Verified(package, file), client' = [client EXCEPT ![c].pc = "reload_stop", ![c].appr = file]
        PROVE  ClientsTyped'
    <3> DEFINE x == [client[c] EXCEPT !.pc = "reload_stop", !.appr = file]
    <3>1. client[c] \in ClientRecords /\ file \in Approvals
      BY <2>1 DEF TypeOK, ClientRecords, Verified
    <3>2. x \in ClientRecords /\ x.appr = file
      BY <3>1 DEF ClientRecords, ClientPcs
    <3>3. client' = [client EXCEPT ![c] = x]
      BY <2>1, <3>1 DEF TypeOK, ClientRecords
    <3> HIDE DEF x
    <3> QED
      BY <3>1, <3>2, <3>3, ClientBecomes
  <2>2. ClientsTyped'
    BY <1>3, <2>1, ClientReturns DEF Reload
  <2> QED
    BY <1>1, <1>3, <2>2, ClientOnlyInv DEF Reload
<1>4. CASE Activate(c)
  <2>1. entry \in Approvals /\ status \in [state : States, gen : 0 .. MaxGens]
    BY DEF TypeOK
  <2>2. StartLocked(entry, status) \/ UNCHANGED <<last, session, status, incoming>>
    BY <1>4 DEF Activate
  <2>3. last' \in 0 .. MaxGens
    BY <2>1, <2>2, StartKeeps DEF TypeOK
  <2>4. ClientsTyped'
    BY <1>4, <2>3, ClientGoes, ClientReturns DEF Activate, ClientPcs, Reloading
  <2> QED
    BY <1>1, <1>4, <2>1, <2>2, <2>4, StarterInv DEF Activate, uivars
<1> QED
  BY <1>2, <1>3, <1>4 DEF UiCommand

LEMMA UiOtherInv == ASSUME PluginInv, UiStart \/ UiQuit \/ UiCloseView PROVE PluginInv'
<1> USE DEF PluginInv
<1>1. ClientsTyped /\ 0 \in 0 .. MaxGens
  BY Bounds DEF TypeOK, ClientsTyped, ClientRecords
<1>2. CASE UiStart
  <2>1. entry \in Approvals /\ status \in [state : States, gen : 0 .. MaxGens] /\ StartLocked(entry, status)
    BY <1>2 DEF TypeOK, UiStart
  <2>2. UNCHANGED <<disk, entry, closing, events, client, watch, uiPc, request>> /\ SyncPluginStates
    BY <1>2 DEF UiStart
  <2>3. ClientsTyped'
    BY <1>1, <2>2 DEF ClientsTyped
  <2> QED
    BY <2>1, <2>2, <2>3, SyncTyped, StarterInv
<1>3. CASE UiQuit
  <2>1. session' \in [Gens -> Sessions] /\ \A g \in Gens : session'[g].stage = session[g].stage
    BY <1>3, CloseStopKeeps DEF UiQuit
  <2>2. TypeOK'
    BY <1>1, <1>3, <2>1 DEF UiQuit, TypeOK, disk
  <2> QED
    BY <1>3, <2>1, <2>2, NoSessionMoves DEF UiQuit
<1>4. CASE UiCloseView
  <2>1. contrib' \in [Kinds -> 0 .. MaxGens] /\ UNCHANGED rvars /\ UNCHANGED <<uiPc, uiStatus, request>>
    BY <1>1, <1>4 DEF UiCloseView, Removes, TypeOK
  <2>2. ClientsTyped'
    BY <1>1, <2>1 DEF ClientsTyped, rvars
  <2> QED
    BY <2>1, <2>2, UiInv DEF TypeOK, rvars, runtime
<1> QED
  BY <1>2, <1>3, <1>4

-----------------------------------------------------------------------------
LEMMA InitPluginInv == HostInit => PluginInv
<1> SUFFICES ASSUME HostInit PROVE PluginInv
  OBVIOUS
<1> USE DEF HostInit, RuntimeInit
<1>1. /\ last = 0 /\ last \in 0 .. MaxGens /\ edits \in 0 .. MaxEdits /\ package \in Revs
      /\ events \in Seq(Ids \cup {Notice}) /\ Len(events) <= EventCap
  BY Bounds
<1>2. file \in Approvals /\ entry \in Approvals
  BY <1>1 DEF Approvals
<1>3. /\ session \in [Gens -> Sessions] /\ \A g \in Gens : session[g].stage = "done"
      /\ client \in [Clients -> [pc : ClientPcs, gen : 0 .. MaxGens, appr : Approvals \cup {NoFile}]]
      /\ \A c \in Clients : client[c].pc = "idle"
  BY RecordTypes
<1>4. status \in [state : States, gen : 0 .. MaxGens] /\ request.gen \in 0 .. MaxGens /\ status.state = "approved"
  BY <1>1 DEF States, NoRequest
<1>5. TypeOK
  BY <1>1, <1>2, <1>3, <1>4, ViewTyped DEF TypeOK, Reloading, RequestStates
<1> QED
  BY <1>3, <1>4, <1>5 DEF PluginInv, OneGeneration, ReadyNamesLast

LEMMA StepPluginInv == PluginInv /\ [HostNext]_vars => PluginInv'
<1> SUFFICES ASSUME PluginInv, [HostNext]_vars PROVE PluginInv'
  OBVIOUS
<1>1. CASE UNCHANGED vars
  BY <1>1 DEF vars, rvars, disk, runtime, uivars, PluginInv, TypeOK, OneGeneration, ReadyNamesLast
<1> QED
  BY <1>1, RuntimeInv, UiStepInv, UiStopsInv, UiCommandInv, UiOtherInv DEF HostNext

LEMMA PluginInvAlways == HostSpec => []PluginInv
  BY InitPluginInv, StepPluginInv, PTL DEF HostSpec

\* The runtime and the UI keep to the types of their state.
THEOREM PluginTypes == HostSpec => []TypeOK
  BY PluginInvAlways, PTL DEF PluginInv

\* A plugin has one process at most, and ready is said of the one it has.
THEOREM OneProcess == HostSpec => []OneGeneration
  BY PluginInvAlways, PTL DEF PluginInv
=============================================================================
