-------------------------- MODULE HolderSocketProofs --------------------------
(***************************************************************************)
(* Who uses a holder uses it alone, for any number of terminal interfaces, *)
(* stops, holder processes, old ones among them, and crashes.              *)
(*                                                                         *)
(* Exclusive is not inductive.  That two processes are not answered by one *)
(* holder needs that whoever got an answer and is still connected sits in  *)
(* the only slot (SlotInv); that a stop kills what it listed needs that    *)
(* the sessions are those it compared from the comparison to the shutdown  *)
(* (KillInv), which in turn holds because of the slot: who would change    *)
(* them is not served meanwhile.  The state of the holder is no part of    *)
(* the invariant: a stopping holder accepts and serves like any other.     *)
(***************************************************************************)
EXTENDS HolderSocket, TLAPS

Places == {"idle", "dial", "connect", "redial", "hello", "helloNew", "helloAgain", "replace",
           "remove", "spawn", "await", "attached", "alone", "list", "ask", "relist", "kill"}
WithSlot == {"attached", "replace", "list", "relist", "kill"}
Sessions == SUBSET (1 .. MaxSession)

SocketTypes ==
  /\ path \in HolderProc \cup {None}
  /\ held \in [HolderProc -> Sessions]
  /\ nextID \in [HolderProc -> 1 .. (MaxSession + 1)]
  /\ slot = [h \in HolderProc |-> slot[h]]
  /\ pc \in [Proc -> Places] /\ \A p \in Proc : pc[p] = "redial" => p \in Stopper
  /\ conn \in [Proc -> HolderProc \cup {None}]
  /\ found \in [Stopper -> [of : HolderProc \cup {None}, ids : Sessions]]
  /\ killed \in [Stopper -> [of : HolderProc \cup {None}, ids : Sessions]]

SlotInv == \A p \in Proc : pc[p] \in WithSlot /\ conn[p] # None => slot[conn[p]] = p

Compared(s) == found[s].of = conn[s] => found[s].ids = held[conn[s]]

KillInv ==
  \A s \in Stopper :
    /\ pc[s] # "idle" => killed[s] = Nothing
    /\ pc[s] = "kill" /\ conn[s] # None => Compared(s)

UseInv == SocketTypes /\ SlotInv /\ KillInv /\ KillsAsListed

LEMMA InitUseInv == Init => UseInv
<1> SUFFICES ASSUME Init PROVE UseInv
  OBVIOUS
<1>1. Nothing \in [of : HolderProc \cup {None}, ids : Sessions]
  BY DEF Nothing, Sessions
<1>2. 1 \in 1 .. (MaxSession + 1)
  BY HolderSocketAssumption
<1>3. SocketTypes
  BY <1>1, <1>2, HolderSocketAssumption DEF Init, SocketTypes, Places, Sessions
<1>4. SlotInv
  BY DEF Init, SlotInv
<1>5. KillInv /\ KillsAsListed
  BY DEF Init, KillInv, KillsAsListed, Compared, Proc
<1> QED
  BY <1>3, <1>4, <1>5 DEF UseInv

\* What closes p's connection leaves everybody else in his slot.
LEMMA ClosesOthers ==
  ASSUME SocketTypes, NEW p \in Proc, Closes(p)
  PROVE  /\ conn' \in [Proc -> HolderProc \cup {None}] /\ conn'[p] = None
         /\ slot' = [h \in HolderProc |-> slot'[h]]
         /\ \A q \in Proc : q # p => conn'[q] = conn[q]
         /\ \A h \in HolderProc : slot[h] # p => slot'[h] = slot[h]
  BY DEF SocketTypes, Closes

LEMMA ClosesSlots ==
  ASSUME SocketTypes, SlotInv, NEW p \in Proc, Closes(p), \A q \in Proc : q # p => pc'[q] = pc[q]
  PROVE  SlotInv'
<1> SUFFICES ASSUME NEW q \in Proc, pc'[q] \in WithSlot, conn'[q] # None PROVE slot'[conn'[q]] = q
  BY DEF SlotInv
<1>1. q # p /\ conn'[q] = conn[q] /\ pc'[q] = pc[q]
  BY ClosesOthers
<1>2. conn[q] \in HolderProc /\ slot[conn[q]] = q
  BY <1>1 DEF SlotInv, SocketTypes
<1> QED
  BY <1>1, <1>2, ClosesOthers

\* Only whom p has the slot of is changed.
OnlyServed(p) ==
  held' \in [HolderProc -> Sessions] /\ \A h \in HolderProc : slot[h] # p => held'[h] = held[h]

\* Whoever ends its last request by a shutdown has the slot of the holder it ends.
LEMMA StopsOnlyServed ==
  ASSUME SocketTypes, NEW p \in Proc, StopsHolder(p)
  PROVE  OnlyServed(p)
<1>1. conn[p] \in HolderProc /\ slot[conn[p]] = p /\ held' = [held EXCEPT ![conn[p]] = {}]
  BY DEF StopsHolder, Served, SocketTypes
<1>2. {} \in Sessions
  BY DEF Sessions
<1> QED
  BY <1>1, <1>2 DEF OnlyServed, SocketTypes

LEMMA KeepsServed == ASSUME UseInv, UNCHANGED held, NEW p PROVE OnlyServed(p)
  BY DEF OnlyServed, UseInv, SocketTypes

\* A process closes its connection and leaves, and lists nothing.
LEMMA LeavesUseInv ==
  ASSUME UseInv, NEW p \in Proc, NEW where \in Places \ {"redial"}, pc[p] # "idle", Closes(p), Goto(p, where),
         OnlyServed(p), UNCHANGED <<nextID, found, killed>>, path' \in HolderProc \cup {None}
  PROVE  UseInv'
<1> USE DEF UseInv
<1>1. pc' \in [Proc -> Places] /\ \A q \in Proc : pc'[q] = IF q = p THEN where ELSE pc[q]
  BY DEF Goto, SocketTypes
<1>2. SocketTypes'
  BY <1>1, ClosesOthers DEF SocketTypes, OnlyServed
<1>3. SlotInv'
  BY <1>1, ClosesSlots
<1>4. KillInv'
  <2> SUFFICES ASSUME NEW s \in Stopper
      PROVE  /\ pc'[s] # "idle" => killed'[s] = Nothing
             /\ pc'[s] = "kill" /\ conn'[s] # None => Compared(s)'
    BY DEF KillInv
  <2>1. s \in Proc /\ (pc'[s] # "idle" => killed'[s] = Nothing)
    BY <1>1 DEF KillInv, Proc
  <2>2. ASSUME pc'[s] = "kill", conn'[s] # None PROVE Compared(s)'
    <3>1. s # p /\ conn'[s] = conn[s] /\ pc[s] = "kill" /\ conn[s] \in HolderProc
      BY <1>1, <2>1, <2>2, ClosesOthers DEF SocketTypes
    <3>2. slot[conn[s]] = s
      BY <2>1, <2>2, <3>1 DEF SlotInv, WithSlot
    <3>3. held'[conn[s]] = held[conn[s]]
      BY <3>1, <3>2 DEF OnlyServed
    <3> QED
      BY <2>2, <3>1, <3>3 DEF KillInv, Compared
  <2> QED
    BY <2>1, <2>2
<1>5. KillsAsListed'
  BY DEF KillsAsListed
<1> QED
  BY <1>2, <1>3, <1>4, <1>5

\* A process goes on over the connection it has, or without one.
LEMMA GoesOnUseInv ==
  ASSUME UseInv, NEW p \in Proc, NEW where \in Places \ {"kill"}, pc[p] # "idle", Goto(p, where),
         where = "redial" => p \in Stopper,
         where \in WithSlot => conn[p] = None \/ slot[conn[p]] = p,
         UNCHANGED <<held, nextID, slot, conn, found, killed>>, path' \in HolderProc \cup {None}
  PROVE  UseInv'
<1> USE DEF UseInv
<1>1. pc' \in [Proc -> Places] /\ \A q \in Proc : pc'[q] = IF q = p THEN where ELSE pc[q]
  BY DEF Goto, SocketTypes
<1>2. SocketTypes'
  BY <1>1 DEF SocketTypes
<1>3. SlotInv'
  BY <1>1 DEF SlotInv, SocketTypes
<1>4. KillInv' /\ KillsAsListed'
  BY <1>1 DEF KillInv, KillsAsListed, Compared, SocketTypes, Proc
<1> QED
  BY <1>2, <1>3, <1>4

\* The end of a holder takes its slot and its connections with it.
LEMMA CrashUseInv == ASSUME UseInv, NEW h \in HolderProc, Crash(h) PROVE UseInv'
<1> USE DEF UseInv
<1>1. /\ conn' \in [Proc -> HolderProc \cup {None}]
      /\ \A q \in Proc : conn'[q] # None => conn'[q] = conn[q] /\ conn[q] # h
      /\ \A g \in HolderProc : g # h => slot'[g] = slot[g] /\ held'[g] = held[g]
      /\ slot' = [g \in HolderProc |-> slot'[g]]
      /\ held' \in [HolderProc -> Sessions] /\ UNCHANGED <<path, nextID, pc, found, killed>>
  <2>1. {} \in Sessions
    BY DEF Sessions
  <2> QED
    BY <2>1 DEF Crash, SocketTypes
<1>2. SocketTypes'
  BY <1>1 DEF SocketTypes
<1>3. SlotInv'
  <2> SUFFICES ASSUME NEW q \in Proc, pc[q] \in WithSlot, conn'[q] # None PROVE slot'[conn'[q]] = q
    BY <1>1 DEF SlotInv
  <2>1. conn'[q] = conn[q] /\ conn[q] # h /\ conn[q] \in HolderProc
    BY <1>1 DEF SocketTypes
  <2>2. slot[conn[q]] = q
    BY <2>1 DEF SlotInv
  <2> QED
    BY <1>1, <2>1, <2>2
<1>4. KillInv'
  BY <1>1 DEF KillInv, Compared, SocketTypes, Proc
<1> QED
  BY <1>1, <1>2, <1>3, <1>4 DEF KillsAsListed

\* Closing the listener loses waiting connections, none of which has an answer.
LEMMA CloseListenerUseInv == ASSUME UseInv, NEW h \in HolderProc, CloseListener(h) PROVE UseInv'
<1> USE DEF UseInv
<1>1. /\ conn' \in [Proc -> HolderProc \cup {None}]
      /\ \A q \in Proc : conn'[q] # None => conn'[q] = conn[q]
      /\ path' = None /\ UNCHANGED <<held, nextID, slot, pc, found, killed>>
  BY DEF CloseListener, SocketTypes
<1>2. SocketTypes' /\ SlotInv' /\ KillsAsListed'
  BY <1>1 DEF SocketTypes, SlotInv, KillsAsListed
<1>3. KillInv'
  BY <1>1 DEF KillInv, Compared, Proc
<1> QED
  BY <1>2, <1>3

\* Run returns when nobody is served: what the end of the process takes away was compared by nobody.
LEMMA RunReturnsUseInv == ASSUME UseInv, NEW h \in HolderProc, RunReturns(h) PROVE UseInv'
<1> USE DEF UseInv
<1>1. /\ slot[h] = None /\ path' = None /\ UNCHANGED <<nextID, slot, pc, conn, found, killed>>
      /\ held' \in [HolderProc -> Sessions] /\ \A g \in HolderProc : g # h => held'[g] = held[g]
  <2>1. {} \in Sessions
    BY DEF Sessions
  <2> QED
    BY <2>1 DEF RunReturns, SocketTypes
<1>2. SocketTypes' /\ SlotInv' /\ KillsAsListed'
  BY <1>1 DEF SocketTypes, SlotInv, KillsAsListed
<1>3. ASSUME NEW s \in Stopper, pc[s] = "kill", conn[s] # None PROVE conn[s] # h /\ conn[s] \in HolderProc
  BY <1>1, <1>3, HolderSocketAssumption DEF SlotInv, WithSlot, Proc, SocketTypes
<1>4. KillInv'
  BY <1>1, <1>3 DEF KillInv, Compared, Proc
<1> QED
  BY <1>2, <1>4

LEMMA HolderUseInv == ASSUME UseInv, NEW h \in HolderProc, HolderStep(h) \/ Crash(h) PROVE UseInv'
<1>1. CASE Listen(h)
  BY <1>1 DEF Listen, UseInv, SocketTypes, SlotInv, KillInv, Compared, KillsAsListed
<1>2. CASE Accept(h)
  <2>1. /\ slot[h] = None /\ \A g \in HolderProc : g # h => slot'[g] = slot[g]
        /\ slot' = [g \in HolderProc |-> slot'[g]]
    BY <1>2 DEF Accept, UseInv, SocketTypes
  <2>2. SlotInv'
    BY <1>2, <2>1, HolderSocketAssumption DEF Accept, UseInv, SocketTypes, SlotInv, Proc
  <2>3. SocketTypes'
    BY <1>2, <2>1 DEF Accept, UseInv, SocketTypes
  <2> QED
    BY <1>2, <2>2, <2>3 DEF Accept, UseInv, KillInv, Compared, KillsAsListed
<1> QED
  BY <1>1, <1>2, CloseListenerUseInv, RunReturnsUseInv, CrashUseInv DEF HolderStep

LEMMA BeginUseInv == ASSUME UseInv, NEW p \in Proc, Begin(p) PROVE UseInv'
<1> USE DEF UseInv
<1>1. /\ pc[p] = "idle" /\ pc' \in [Proc -> Places]
      /\ \A q \in Proc : pc'[q] = IF q = p THEN "dial" ELSE pc[q]
  BY DEF Begin, Goto, SocketTypes, Places
<1>2. Nothing \in [of : HolderProc \cup {None}, ids : Sessions]
  BY DEF Nothing, Sessions
<1>3. /\ found' \in [Stopper -> [of : HolderProc \cup {None}, ids : Sessions]]
      /\ killed' \in [Stopper -> [of : HolderProc \cup {None}, ids : Sessions]]
      /\ \A s \in Stopper : s # p => found'[s] = found[s] /\ killed'[s] = killed[s]
      /\ \A s \in Stopper : s = p => killed'[s] = Nothing
  BY <1>2 DEF Begin, SocketTypes
<1>4. SocketTypes'
  BY <1>1, <1>3 DEF Begin, SocketTypes
<1>5. SlotInv'
  BY <1>1 DEF Begin, SlotInv, WithSlot
<1>6. KillInv'
  BY <1>1, <1>3 DEF Begin, KillInv, Compared, Proc
<1>7. KillsAsListed'
  BY <1>3 DEF KillsAsListed
<1> QED
  BY <1>4, <1>5, <1>6, <1>7

LEMMA DialUseInv ==
  ASSUME UseInv, NEW p \in Proc, DialConnects(p) \/ DialRefused(p) \/ HelloAnswered(p) \/ HelloFails(p)
  PROVE  UseInv'
<1>0. path \in HolderProc \cup {None}
  BY DEF UseInv, SocketTypes
<1>1. CASE DialConnects(p)
  <2> USE DEF UseInv
  <2>1. /\ pc[p] \in {"dial", "connect", "redial"}
        /\ Hello[pc[p]] \in {"hello", "helloNew", "helloAgain"}
    BY <1>1 DEF DialConnects, Hello
  <2>2. /\ conn' = [conn EXCEPT ![p] = path] /\ path \in HolderProc
        /\ UNCHANGED <<path, held, nextID, slot, found, killed>>
        /\ pc' = [pc EXCEPT ![p] = Hello[pc[p]]]
    BY <1>0, <1>1 DEF DialConnects, Connects, Goto, Listening
  <2>3. /\ pc' \in [Proc -> Places] /\ pc'[p] \in {"hello", "helloNew", "helloAgain"}
        /\ \A q \in Proc : q # p => pc'[q] = pc[q]
    BY <2>1, <2>2 DEF SocketTypes, Places
  <2>4. SocketTypes'
    BY <2>2, <2>3 DEF SocketTypes
  <2>5. \A q \in Proc : q # p => conn'[q] = conn[q]
    BY <2>2 DEF SocketTypes
  <2>6. SlotInv'
    BY <2>2, <2>3, <2>5 DEF SlotInv, WithSlot
  <2>7. KillInv'
    BY <2>1, <2>2, <2>3, <2>5 DEF KillInv, Compared, Proc
  <2> QED
    BY <2>2, <2>4, <2>6, <2>7 DEF KillsAsListed
<1>2. CASE DialRefused(p)
  <2>1. PICK where \in {"remove", "alone", "idle"} : Goto(p, where)
    <3>1. pc[p] \in {"dial", "connect", "redial"} /\ (pc[p] = "redial" => p \in Stopper)
      BY <1>2 DEF DialRefused, Hello, UseInv, SocketTypes
    <3>2. CASE p \in Stopper
      BY <1>2, <3>1, <3>2, HolderSocketAssumption DEF DialRefused
    <3>3. CASE p \in Tui /\ p \notin Stopper
      BY <1>2, <3>1, <3>3 DEF DialRefused
    <3> QED
      BY <3>2, <3>3 DEF Proc
  <2>2. pc[p] # "idle" /\ where \in Places \ {"kill"} /\ where \notin WithSlot
    BY <1>2, <2>1 DEF DialRefused, Hello, Places, WithSlot
  <2> QED
    BY <1>0, <1>2, <2>1, <2>2, GoesOnUseInv DEF DialRefused
<1>3. CASE HelloAnswered(p)
  <2>1. PICK where \in {"replace", "attached", "list", "relist"} : Goto(p, where)
    BY <1>3 DEF HelloAnswered
  <2>2. pc[p] # "idle" /\ where \in Places \ {"kill"} /\ slot[conn[p]] = p
    BY <1>3, <2>1 DEF HelloAnswered, Served, Places
  <2> QED
    BY <1>0, <1>3, <2>1, <2>2, GoesOnUseInv DEF HelloAnswered
<1>4. CASE HelloFails(p)
  <2>1. PICK where \in {"alone", "idle"} : Goto(p, where)
    BY <1>4 DEF HelloFails
  <2>2. pc[p] # "idle" /\ where \in Places \ {"redial"}
    BY <1>4, <2>1 DEF HelloFails, Places
  <2> QED
    BY <1>0, <1>4, <2>1, <2>2, LeavesUseInv, KeepsServed DEF HelloFails
<1> QED
  BY <1>1, <1>2, <1>3, <1>4

LEMMA LaunchUseInv ==
  ASSUME UseInv, NEW p \in Proc, ReplaceOld(p) \/ RemoveSocket(p) \/ Spawn(p) \/ AwaitSocket(p) \/ Quit(p)
  PROVE  UseInv'
<1>0. path \in HolderProc \cup {None}
  BY DEF UseInv, SocketTypes
<1>1. CASE ReplaceOld(p) \/ Quit(p)
  <2>1. PICK where \in {"remove", "idle"} : Goto(p, where)
    BY <1>1 DEF ReplaceOld, Quit
  <2>2. pc[p] # "idle" /\ where \in Places \ {"redial"} /\ Closes(p) /\ UNCHANGED <<path, nextID, found, killed>>
    BY <1>1, <2>1 DEF ReplaceOld, Quit, StopsHolder, Places
  <2>3. OnlyServed(p)
    BY <1>1, StopsOnlyServed, KeepsServed DEF ReplaceOld, Quit, UseInv
  <2> QED
    BY <1>0, <2>1, <2>2, <2>3, LeavesUseInv
<1>2. CASE RemoveSocket(p) \/ Spawn(p) \/ AwaitSocket(p)
  <2>1. PICK where \in {"spawn", "await", "alone", "connect"} : Goto(p, where)
    BY <1>2 DEF RemoveSocket, Spawn, AwaitSocket
  <2>2. where \in Places \ {"kill"} /\ where \notin WithSlot
    BY DEF Places, WithSlot
  <2>3. pc[p] # "idle" /\ UNCHANGED <<held, nextID, slot, conn, found, killed>>
        /\ path' \in HolderProc \cup {None}
    BY <1>0, <1>2 DEF RemoveSocket, Spawn, AwaitSocket
  <2> QED
    BY <2>1, <2>2, <2>3, GoesOnUseInv
<1> QED
  BY <1>1, <1>2

\* An attached terminal changes sessions in the slot that a stop would need.
LEMMA SessionUseInv == ASSUME UseInv, NEW p \in Tui, StartSession(p) \/ KillSession(p) PROVE UseInv'
<1> USE DEF UseInv
<1>1. /\ pc[p] = "attached" /\ conn[p] \in HolderProc /\ slot[conn[p]] = p
      /\ UNCHANGED <<path, slot, pc, conn, found, killed>>
  BY DEF StartSession, KillSession, Served, SocketTypes, Proc
<1>2. /\ \A h \in HolderProc : h # conn[p] => held'[h] = held[h]
      /\ held' \in [HolderProc -> Sessions] /\ nextID' \in [HolderProc -> 1 .. (MaxSession + 1)]
  <2>1. CASE StartSession(p)
    <3> DEFINE h == conn[p]
    <3>1. /\ nextID[h] \in 1 .. MaxSession /\ nextID[h] + 1 \in 1 .. (MaxSession + 1)
      BY <1>1, <2>1, HolderSocketAssumption DEF StartSession, SocketTypes
    <3>2. held' = [held EXCEPT ![h] = held[h] \cup {nextID[h]}] /\ nextID' = [nextID EXCEPT ![h] = nextID[h] + 1]
      BY <2>1 DEF StartSession
    <3>3. held[h] \cup {nextID[h]} \in Sessions
      BY <1>1, <3>1 DEF SocketTypes, Sessions
    <3> QED
      BY <1>1, <3>1, <3>2, <3>3 DEF SocketTypes
  <2>2. CASE KillSession(p)
    <3>1. PICK id \in held[conn[p]] : held' = [held EXCEPT ![conn[p]] = held[conn[p]] \ {id}]
      BY <2>2 DEF KillSession
    <3>2. held[conn[p]] \ {id} \in Sessions
      BY <1>1 DEF SocketTypes, Sessions
    <3> QED
      BY <1>1, <2>2, <3>1, <3>2 DEF KillSession, SocketTypes
  <2> QED
    BY <2>1, <2>2
<1>3. SocketTypes' /\ SlotInv' /\ KillsAsListed'
  BY <1>1, <1>2 DEF SocketTypes, SlotInv, KillsAsListed
<1>4. ASSUME NEW s \in Stopper, pc[s] = "kill", conn[s] # None PROVE conn[s] # conn[p]
  BY <1>1, <1>4, HolderSocketAssumption DEF SlotInv, WithSlot, Proc
<1>5. KillInv'
  BY <1>1, <1>2, <1>4 DEF KillInv, Compared, SocketTypes, Proc
<1> QED
  BY <1>3, <1>5

LEMMA StopUseInv ==
  ASSUME UseInv, NEW s \in Stopper,
         ListSessions(s) \/ CompareSessions(s) \/ StopHolder(s) \/ StopFails(s) \/ Answer(s)
  PROVE  UseInv'
<1>0. path \in HolderProc \cup {None} /\ s \in Proc
  BY DEF UseInv, SocketTypes, Proc
<1>1. CASE Answer(s)
  <2>1. PICK where \in {"redial", "idle"} : Goto(s, where)
    BY <1>1 DEF Answer
  <2>2. where \in Places \ {"kill"} /\ where \notin WithSlot
    BY DEF Places, WithSlot
  <2> QED
    BY <1>0, <1>1, <2>1, <2>2, GoesOnUseInv DEF Answer
<1>2. CASE StopFails(s)
  <2>1. "idle" \in Places \ {"redial"}
    BY DEF Places
  <2> QED
    BY <1>0, <1>2, <2>1, LeavesUseInv, KeepsServed DEF StopFails
<1>3. CASE ListSessions(s) \/ CompareSessions(s)
  <2> USE DEF UseInv
  <2> DEFINE h == conn[s]
             seen == [of |-> h, ids |-> held[h]]
  <2>1. /\ pc[s] \in {"list", "relist"} /\ h \in HolderProc /\ slot[h] = s
        /\ killed[s] = Nothing /\ UNCHANGED <<path, held, nextID, killed>>
        /\ seen \in [of : HolderProc \cup {None}, ids : Sessions]
    BY <1>0, <1>3 DEF ListSessions, CompareSessions, Served, SocketTypes, KillInv
  <2>2. /\ found' \in [Stopper -> [of : HolderProc \cup {None}, ids : Sessions]]
        /\ \A r \in Stopper : r # s => found'[r] = found[r]
        /\ pc[s] = "list" => found'[s] = seen
        /\ pc[s] = "relist" => found'[s] = found[s]
    <3>1. CASE ListSessions(s)
      <4>1. pc[s] = "list" /\ found' = [found EXCEPT ![s] = seen]
        BY <3>1 DEF ListSessions
      <4> HIDE DEF seen
      <4> QED
        BY <2>1, <4>1 DEF SocketTypes
    <3>2. CASE CompareSessions(s)
      BY <3>2 DEF CompareSessions, SocketTypes
    <3> QED
      BY <1>3, <3>1, <3>2
  <2>3. KillsAsListed'
    BY <2>1, <2>2 DEF KillsAsListed
  <2>4. CASE Goto(s, "kill") /\ UNCHANGED <<conn, slot>>
    <3>1. pc' \in [Proc -> Places] /\ \A q \in Proc : pc'[q] = IF q = s THEN "kill" ELSE pc[q]
      BY <2>4 DEF Goto, SocketTypes, Places
    <3>2. found'[s].of = h => found'[s].ids = held[h]
      <4>1. CASE ListSessions(s)
        BY <4>1, <2>2 DEF ListSessions
      <4>2. CASE CompareSessions(s)
        <5>1. pc'[s] = "kill"
          BY <1>0, <3>1
        <5>2. held[h] = found[s].ids
          BY <1>0, <4>2, <5>1 DEF CompareSessions, Goto, SocketTypes
        <5> QED
          BY <4>2, <2>2, <5>2 DEF CompareSessions
      <4> QED
        BY <1>3, <4>1, <4>2
    <3>3. SocketTypes'
      BY <2>1, <2>2, <2>4, <3>1 DEF SocketTypes
    <3>4. SlotInv'
      BY <2>1, <2>4, <3>1 DEF SlotInv
    <3>5. KillInv'
      BY <2>1, <2>2, <2>4, <3>1, <3>2 DEF KillInv, Compared, Proc
    <3> QED
      BY <2>3, <3>3, <3>4, <3>5
  <2>5. CASE Closes(s) /\ \E where \in {"ask", "idle"} : Goto(s, where)
    <3>1. PICK where \in {"ask", "idle"} : Goto(s, where)
      BY <2>5
    <3>2. pc' \in [Proc -> Places] /\ \A q \in Proc : pc'[q] = IF q = s THEN where ELSE pc[q]
      BY <3>1 DEF Goto, SocketTypes, Places
    <3>3. /\ conn' \in [Proc -> HolderProc \cup {None}] /\ conn'[s] = None
          /\ slot' = [g \in HolderProc |-> slot'[g]]
          /\ \A q \in Proc : q # s => conn'[q] = conn[q]
          /\ \A g \in HolderProc : slot[g] # s => slot'[g] = slot[g]
      BY <1>0, <2>5, ClosesOthers
    <3>4. SocketTypes'
      BY <2>1, <2>2, <3>2, <3>3 DEF SocketTypes
    <3>5. SlotInv'
      BY <1>0, <2>5, <3>2, ClosesSlots
    <3>6. KillInv'
      BY <2>1, <2>2, <3>2, <3>3 DEF KillInv, Compared, Proc
    <3> QED
      BY <2>3, <3>4, <3>5, <3>6
  <2> QED
    BY <1>3, <2>4, <2>5 DEF ListSessions, CompareSessions
<1>4. CASE StopHolder(s)
  <2> USE DEF UseInv
  <2> DEFINE h == conn[s]
             gone == [of |-> h, ids |-> held[h]]
  <2>1. /\ pc[s] = "kill" /\ h \in HolderProc /\ Closes(s) /\ Goto(s, "idle")
        /\ killed' = [killed EXCEPT ![s] = gone] /\ UNCHANGED <<path, nextID, found>>
        /\ gone \in [of : HolderProc \cup {None}, ids : Sessions]
    BY <1>0, <1>4 DEF StopHolder, StopsHolder, Served, SocketTypes
  <2>9. OnlyServed(s)
    BY <1>0, <1>4, StopsOnlyServed DEF StopHolder
  <2>2. gone.of = found[s].of => gone.ids = found[s].ids
    BY <1>0, <2>1, HolderSocketAssumption DEF KillInv, Compared
  <2> HIDE DEF gone
  <2>3. /\ killed' \in [Stopper -> [of : HolderProc \cup {None}, ids : Sessions]]
        /\ \A r \in Stopper : killed'[r] = IF r = s THEN gone ELSE killed[r]
    BY <2>1 DEF SocketTypes
  <2>4. pc' \in [Proc -> Places] /\ \A q \in Proc : pc'[q] = IF q = s THEN "idle" ELSE pc[q]
    BY <2>1 DEF Goto, SocketTypes, Places
  <2>5. /\ conn' \in [Proc -> HolderProc \cup {None}] /\ conn'[s] = None
        /\ slot' = [g \in HolderProc |-> slot'[g]]
        /\ \A q \in Proc : q # s => conn'[q] = conn[q]
        /\ \A g \in HolderProc : slot[g] # s => slot'[g] = slot[g]
    BY <1>0, <2>1, ClosesOthers
  <2>6. SocketTypes'
    BY <2>1, <2>3, <2>4, <2>5, <2>9 DEF SocketTypes, OnlyServed
  <2>7. SlotInv'
    BY <1>0, <2>1, <2>4, ClosesSlots
  <2>8. ASSUME NEW r \in Stopper, r # s, pc[r] = "kill", conn[r] # None
        PROVE  held'[conn[r]] = held[conn[r]]
    <3>1. r \in Proc /\ conn[r] \in HolderProc /\ slot[conn[r]] = r
      BY <2>8 DEF SlotInv, WithSlot, Proc, SocketTypes
    <3> QED
      BY <2>8, <2>9, <3>1 DEF OnlyServed
  <2>10. KillInv'
    <3> SUFFICES ASSUME NEW r \in Stopper
        PROVE  /\ pc'[r] # "idle" => killed'[r] = Nothing
               /\ pc'[r] = "kill" /\ conn'[r] # None => Compared(r)'
      BY DEF KillInv
    <3>1. r \in Proc
      BY DEF Proc
    <3>2. CASE r = s
      BY <1>0, <2>4, <3>2
    <3>3. CASE r # s
      BY <2>1, <2>3, <2>4, <2>5, <2>8, <3>1, <3>3 DEF KillInv, Compared
    <3> QED
      BY <3>2, <3>3
  <2>11. KillsAsListed'
    BY <2>1, <2>2, <2>3 DEF KillsAsListed
  <2> QED
    BY <2>6, <2>7, <2>10, <2>11
<1> QED
  BY <1>1, <1>2, <1>3, <1>4

LEMMA StepUseInv == UseInv /\ [Next]_vars => UseInv'
<1> SUFFICES ASSUME UseInv, [Next]_vars PROVE UseInv'
  OBVIOUS
<1>1. CASE UNCHANGED vars
  BY <1>1 DEF vars, UseInv, SocketTypes, SlotInv, KillInv, Compared, KillsAsListed
<1>2. \A p \in Tui : p \in Proc
  BY DEF Proc
<1>3. \A p \in Stopper : p \in Proc
  BY DEF Proc
<1>4. ASSUME NEW p \in Tui, LaunchStep(p) \/ StartSession(p) \/ KillSession(p) \/ Quit(p) PROVE UseInv'
  BY <1>2, <1>4, DialUseInv, LaunchUseInv, SessionUseInv DEF LaunchStep
<1>5. ASSUME NEW p \in Stopper, StopStep(p) \/ Answer(p) PROVE UseInv'
  BY <1>3, <1>5, DialUseInv, StopUseInv DEF StopStep
<1> QED
  BY <1>1, <1>4, <1>5, HolderUseInv, BeginUseInv DEF Next

\* A holder has one terminal or stop at a time, and a stop kills what it listed.
THEOREM UsedAlone == Spec => []Exclusive
<1>1. UseInv => Exclusive
  <2> SUFFICES ASSUME UseInv PROVE OneTerminal
    BY DEF UseInv, Exclusive
  <2> QED
    BY DEF UseInv, SlotInv, OneTerminal, WithSlot
<1> QED
  BY <1>1, InitUseInv, StepUseInv, PTL DEF Spec
=============================================================================
