------------------------- MODULE DurableAgentsProofs -------------------------
(***************************************************************************)
(* Durable panes share no conversation they should not share, and no view  *)
(* shows another conversation than its pane is bound to, in every run of    *)
(* hrdx and for every number of panes, keys and conversations.              *)
(*                                                                         *)
(* Why agents stay distinct is a matter of keys: a key is reserved for one  *)
(* new agent, and in all places that name a conversation with a key, the    *)
(* state file and the commands on their way included, it is the same key,   *)
(* which is also the one the host files it under (RefInv).  A command whose *)
(* pane is open belongs to that pane alone and has its key (OwnerInv).      *)
(***************************************************************************)
EXTENDS DurableAgents, WellFoundedInduction, TLAPS

-----------------------------------------------------------------------------
(* The inductive invariant.                                                *)

RefsOf(ps) == {ps[p].ref : p \in Panes}

\* Everything that names a conversation.
AllRefs == durables \cup RefsOf(pane) \cup saved.durables \cup RefsOf(saved.pane) \cup {c.ref : c \in commands}

\* A conversation has one key, wherever it is named with one, and the host
\* has it under no other.
OneKey == \A r, s \in AllRefs : (r.conv # 0 /\ r.conv = s.conv /\ r.key # 0 /\ s.key # 0) => r.key = s.key
Rooted == \A r \in AllRefs, k \in Keys : (root[k] # 0 /\ root[k] = r.conv /\ r.key # 0) => r.key = k
RootsDiffer == \A k, l \in Keys : (root[k] # 0 /\ root[k] = root[l]) => k = l
AllMade == (\A r \in AllRefs : r.conv <= made) /\ (\A k \in Keys : root[k] <= made)
RefInv == OneKey /\ Rooted /\ RootsDiffer /\ AllMade

\* Panes that are open, now or in the state file: those of new agents have
\* keys of their own, and have one before they have a conversation.
KeysApart(ps) ==
    /\ \A p, q \in Panes : /\ p # q /\ ps[p].open /\ ps[q].open /\ ps[p].fresh /\ ps[q].fresh
                           /\ ps[p].ref.key # 0
                           => ps[p].ref.key # ps[q].ref.key
    /\ \A p \in Panes : (ps[p].open /\ ps[p].fresh /\ ps[p].ref.conv # 0) => ps[p].ref.key # 0
    /\ \A p \in Panes : ps[p].open => p < nextID
PaneInv == KeysApart(pane) /\ KeysApart(saved.pane)

\* A command restores a conversation or has a key to open, and has opened the
\* root of its key when it succeeds.
CommandInv ==
    \A c \in commands :
       /\ c.pane < nextID
       /\ c.step # "done" => ~c.ok /\ c.restoring = (c.ref.conv # 0) /\ (c.ref.conv = 0 => c.ref.key # 0)
       /\ c.step = "root" => c.ref.key # 0
       /\ c.ok => c.ref.conv # 0 /\ (c.ref.key # 0 => root[c.ref.key] = c.ref.conv)

\* A command whose pane is open is that pane's only one.
OwnerInv ==
    \A c \in commands : pane[c.pane].open =>
       /\ c.ref.key = pane[c.pane].ref.key /\ (pane[c.pane].fresh => c.ref.key # 0)
       /\ ~pane[c.pane].failed /\ ~pane[c.pane].ready /\ pane[c.pane].view = 0 /\ c.pane \notin starting
       /\ \A d \in commands : d.pane = c.pane => d = c

\* The view about to start finds the conversation of its pane.
StartInv ==
    \A p \in starting : /\ p < nextID
                        /\ pane[p].open => /\ pane[p].ready /\ ~pane[p].failed /\ pane[p].ref.conv # 0
                                           /\ pane[p].ref.key # 0 => root[pane[p].ref.key] = pane[p].ref.conv

\* A poll is alone, and what it read is no older than what is known.
PollInv ==
    /\ \A q \in polls : polling /\ (q.snap = -1 \/ (info <= q.snap /\ q.snap <= rev)) /\ \A r \in polls : r = q
    /\ info <= rev

DurableInv ==
    /\ TypeOK /\ RefInv /\ PaneInv /\ CommandInv /\ OwnerInv /\ StartInv /\ PollInv
    /\ ViewsShowBinding /\ AttachUnderWay

-----------------------------------------------------------------------------
(* Keys and refs.                                                          *)

LEMMA LeastNatural == ASSUME NEW S \in SUBSET Nat, S # {} PROVE \E n \in S : \A m \in S : n <= m
<1> DEFINE Less == {ij \in Nat \X Nat : ij[1] < ij[2]}
<1>1. IsWellFoundedOn(Less, Nat)
  BY NatLessThanWellFounded DEF OpToRel
<1>2. \E n \in S : \A m \in S : <<m, n>> \notin Less
  <2> HIDE DEF Less
  <2> QED
    BY <1>1, WFMin
<1>3. PICK n \in S : \A m \in S : <<m, n>> \notin Less
  BY <1>2
<1>4. ASSUME NEW m \in S PROVE n <= m
  <2> SUFFICES ASSUME m < n PROVE FALSE
    OBVIOUS
  <2>1. <<m, n>> \in Nat \X Nat /\ <<m, n>>[1] < <<m, n>>[2]
    OBVIOUS
  <2> QED
    BY <1>3, <2>1
<1> QED
  BY <1>4

LEMMA Bounds == MaxPane \in Nat \ {0} /\ MaxKey \in Nat \ {0} /\ MaxConv \in Nat \ {0} /\ MaxRev \in Nat
  BY DurableAssumption

\* The key that is reserved is one that nobody uses.
LEMMA NextKeyFree == ASSUME Keys \ UsedKeys # {} PROVE NextKey \in Keys /\ NextKey \notin UsedKeys
<1> DEFINE Free == Keys \ UsedKeys
<1>1. Free \in SUBSET Nat /\ Free # {}
  BY Bounds DEF Keys
<1>2. PICK k \in Free : \A l \in Free : k <= l
  <2> HIDE DEF Free
  <2> QED
    BY <1>1, LeastNatural
<1>3. k \in Keys /\ k \notin UsedKeys /\ \A l \in 1 .. k - 1 : l \in UsedKeys
  BY <1>2, Bounds DEF Keys
<1> QED
  BY <1>3 DEF NextKey

LEMMA RefTypes ==
  /\ NoRef \in Refs /\ Keys \subseteq Nat \ {0} /\ Convs \subseteq Nat \ {0} /\ Panes \subseteq Nat \ {0}
  /\ \A r \in Refs : r.key \in Keys \cup {0} /\ r.conv \in Convs \cup {0}
  BY Bounds DEF NoRef, Refs, Keys, Convs, Panes

LEMMA ReservedRef ==
  ASSUME NEW r \in Refs, Reservable(r)
  PROVE  /\ Reserved(r) \in Refs /\ Reserved(r).conv = r.conv
         /\ r.conv = 0 => Reserved(r).key \in Keys
         /\ r.key # 0 \/ r.conv # 0 => Reserved(r) = r
         /\ r.key = 0 /\ r.conv = 0 => Reserved(r).key \notin UsedKeys
  BY NextKeyFree, RefTypes DEF Reservable, Reserved, ByID, Refs

LEMMA RefsTyped == TypeOK => AllRefs \subseteq Refs
  BY DEF TypeOK, AllRefs, RefsOf, Kept, Commands, DurablePanes

LEMMA RootOfTyped ==
  ASSUME TypeOK, NEW k \in Keys, OpensRoot(k)
  PROVE  /\ RootOf(k) \in Convs /\ root' \in [Keys -> Convs \cup {0}] /\ root'[k] = RootOf(k)
         /\ made' \in made .. MaxConv /\ store' \subseteq 1 .. made'
<1> USE Bounds DEF Convs
<1>1. root \in [Keys -> Convs \cup {0}] /\ made \in 0 .. MaxConv /\ store \subseteq 1 .. made
  BY DEF TypeOK
<1>2. CASE root[k] # 0
  <2>1. root' = root /\ made' = made /\ store' = store /\ RootOf(k) = root[k] /\ root[k] \in Convs
    BY <1>1, <1>2 DEF OpensRoot, RootOf
  <2>2. made \in made .. MaxConv
    BY <1>1
  <2> QED
    BY <1>1, <2>1, <2>2
<1>3. CASE root[k] = 0
  <2>1. made + 1 \in 1 .. MaxConv /\ made' = made + 1 /\ store' = store \cup {made + 1}
    BY <1>1, <1>3 DEF OpensRoot
  <2>2. root' = [root EXCEPT ![k] = made + 1] /\ RootOf(k) = made + 1
    BY <1>3 DEF OpensRoot, RootOf
  <2> QED
    BY <1>1, <2>1, <2>2
<1> QED
  BY <1>2, <1>3

\* The host opens a root, or none, or is another store.
HostStep ==
    \/ UNCHANGED <<root, made>>
    \/ \E k \in Keys : OpensRoot(k)
    \/ made' = made /\ root' = [k \in Keys |-> 0]

\* What is named anew names no conversation, one by its id, or the root of
\* its key.
LEMMA RefStep ==
  ASSUME TypeOK, TypeOK', RefInv, HostStep,
         \A r \in AllRefs' : \/ r \in AllRefs \/ r.conv = 0
                             \/ r.key = 0 /\ r.conv <= made
                             \/ r.key \in Keys /\ root'[r.key] = r.conv
  PROVE  RefInv'
<1> USE RefTypes, Bounds
<1>1. AllRefs \subseteq Refs /\ AllRefs' \subseteq Refs
  BY DEF TypeOK, AllRefs, RefsOf, Kept, Commands, DurablePanes
<1>2. /\ root \in [Keys -> Convs \cup {0}] /\ root' \in [Keys -> Convs \cup {0}]
      /\ made \in Nat /\ made' \in Nat /\ made <= made'
  BY DEF TypeOK, HostStep, OpensRoot
<1>3. \A k \in Keys : root'[k] # 0 => root'[k] = root[k] \/ (root[k] = 0 /\ root'[k] = made' /\ made' = made + 1)
  BY <1>2 DEF HostStep, OpensRoot
<1>4. \A k, l \in Keys : root'[k] = made + 1 /\ root'[l] = made + 1 => k = l
  BY <1>2 DEF HostStep, OpensRoot, RefInv, AllMade
<1>5. RootsDiffer'
  BY <1>2, <1>3, <1>4 DEF RootsDiffer, RefInv, AllMade
<1>6. AllMade'
  <2>1. ASSUME NEW k \in Keys PROVE root'[k] <= made'
    <3>1. root[k] \in 0 .. MaxConv /\ root'[k] \in 0 .. MaxConv
      BY <1>2 DEF Convs
    <3>2. root[k] <= made
      BY DEF AllMade, RefInv
    <3> QED
      BY <3>1, <3>2, <1>2, <1>3
  <2>2. ASSUME NEW r \in AllRefs' PROVE r.conv <= made'
    <3>1. r.conv \in 0 .. MaxConv /\ (r \in AllRefs => r.conv <= made)
      BY <1>1 DEF AllMade, RefInv, Refs, Convs
    <3>2. r.key \in Keys /\ root'[r.key] = r.conv => r.conv <= made'
      BY <2>1
    <3> QED
      BY <3>1, <3>2, <1>2
  <2> QED
    BY <2>1, <2>2 DEF AllMade
<1>7. Rooted'
  <2> SUFFICES ASSUME NEW r \in AllRefs', NEW k \in Keys, root'[k] # 0, root'[k] = r.conv, r.key # 0
               PROVE  r.key = k
    BY DEF Rooted
  <2>1. CASE r \in AllRefs
    BY <2>1, <1>1, <1>2, <1>3 DEF RefInv, Rooted, AllMade
  <2>2. CASE r.key \in Keys /\ root'[r.key] = r.conv
    BY <2>2, <1>5 DEF RootsDiffer
  <2> QED
    BY <2>1, <2>2
<1>8. OneKey'
  <2> SUFFICES ASSUME NEW r \in AllRefs', NEW s \in AllRefs', r.conv # 0, r.conv = s.conv, r.key # 0, s.key # 0
               PROVE  r.key = s.key
    BY DEF OneKey
  <2>1. CASE r \in AllRefs /\ s \in AllRefs
    BY <2>1 DEF RefInv, OneKey
  <2>2. CASE r.key \in Keys /\ root'[r.key] = r.conv
    BY <2>2, <1>7 DEF Rooted
  <2>3. CASE s.key \in Keys /\ root'[s.key] = s.conv
    BY <2>3, <1>7 DEF Rooted
  <2> QED
    BY <2>1, <2>2, <2>3
<1> QED
  BY <1>5, <1>6, <1>7, <1>8 DEF RefInv

-----------------------------------------------------------------------------
(* The steps.                                                              *)

LEMMA InitDurableInv == Init => DurableInv
<1> SUFFICES ASSUME Init PROVE DurableInv
  OBVIOUS
<1> USE DEF Init
<1>1. TypeOK
  <2>1. /\ root \in [Keys -> Convs \cup {0}] /\ made \in 0 .. MaxConv /\ store \subseteq 1 .. made
        /\ rev \in 0 .. MaxRev /\ nextID \in 1 .. MaxPane + 1 /\ info \in -1 .. MaxRev
    BY Bounds
  <2>2. NoPane \in DurablePanes
    BY RefTypes DEF NoPane, DurablePanes
  <2>3. pane \in [Panes -> DurablePanes]
    BY <2>2
  <2>4. saved \in [pane : [Panes -> Kept], durables : SUBSET Refs]
    BY <2>3 DEF Snapshot, Kept, DurablePanes
  <2> QED
    BY <2>1, <2>3, <2>4 DEF TypeOK
<1>2. AllRefs = {NoRef}
  BY Bounds DEF AllRefs, RefsOf, Snapshot, NoPane, Panes
<1>3. RefInv
  BY <1>2 DEF RefInv, OneKey, Rooted, RootsDiffer, AllMade, NoRef
<1>4. PaneInv
  BY DEF PaneInv, KeysApart, Snapshot, NoPane
<1> QED
  BY <1>1, <1>3, <1>4 DEF DurableInv, CommandInv, OwnerInv, StartInv, PollInv, ViewsShowBinding, AttachUnderWay, Shown, NoPane

\* A command goes on, or is done: it may have found the conversation that
\* its ref names from now on.
LEMMA CommandMoves ==
  ASSUME DurableInv, NEW c \in commands,
         NEW d \in Commands,
         Becomes(c, d), LoopIdle, rev' = rev, c.step # "done",
         (UNCHANGED <<root, made, store>>) \/ (c.ref.key \in Keys /\ OpensRoot(c.ref.key)),
         d.pane = c.pane, d.restoring = c.restoring, d.ref.key = c.ref.key,
         d.ref = c.ref \/ (d.ref.key = 0 /\ d.ref.conv <= made) \/ (d.ref.key \in Keys /\ root'[d.ref.key] = d.ref.conv),
         d.step # "done" => d.ref = c.ref /\ ~d.ok,
         d.step = "root" => c.ref.key # 0,
         d.ok => d.ref.conv # 0 /\ (d.ref.key # 0 => root'[d.ref.key] = d.ref.conv)
  PROVE  DurableInv'
<1> USE DEF DurableInv, LoopIdle, poll
<1>1. commands' = (commands \ {c}) \cup {d}
  BY DEF Becomes
<1>2. TypeOK'
  <2>1. root' \in [Keys -> Convs \cup {0}] /\ made' \in 0 .. MaxConv /\ store' \subseteq 1 .. made'
    <3>1. CASE UNCHANGED <<root, made, store>>
      BY <3>1 DEF TypeOK
    <3>2. CASE c.ref.key \in Keys /\ OpensRoot(c.ref.key)
      <4>1. made' \in made .. MaxConv /\ made \in 0 .. MaxConv
        BY <3>2, RootOfTyped DEF TypeOK
      <4> QED
        BY <3>2, <4>1, RootOfTyped, Bounds
    <3> QED
      BY <3>1, <3>2
  <2> QED
    BY <1>1, <2>1 DEF TypeOK
<1>3. RefInv'
  <2>1. HostStep
    BY DEF HostStep
  <2>2. \A r \in AllRefs' : r \in AllRefs \/ r = d.ref
    BY <1>1 DEF AllRefs, RefsOf
  <2>3. c.ref \in AllRefs
    BY DEF AllRefs
  <2> QED
    BY <1>2, <2>1, <2>2, <2>3, RefStep
<1>4. \A k \in Keys : root[k] # 0 => root'[k] = root[k]
  BY DEF OpensRoot, TypeOK
<1>5. CommandInv'
  <2>1. \A e \in commands : e.ref.key \in Keys \cup {0} /\ e.ref.conv \in Convs \cup {0}
    BY DEF TypeOK, Commands, DurablePanes, Refs
  <2> QED
    BY <1>1, <1>4, <2>1 DEF CommandInv
<1>6. StartInv'
  <2>1. \A p \in Panes : pane[p].ref.key \in Keys \cup {0}
    BY DEF TypeOK, Commands, DurablePanes, Refs
  <2> QED
    BY <1>4, <2>1 DEF StartInv, TypeOK
<1>7. OwnerInv'
  BY <1>1 DEF OwnerInv
<1>8. AttachUnderWay'
  BY <1>1 DEF AttachUnderWay
<1> QED
  BY <1>2, <1>3, <1>5, <1>6, <1>7, <1>8 DEF PaneInv, KeysApart, PollInv, ViewsShowBinding, Shown

LEMMA ReachesInv == ASSUME DurableInv, NEW c \in commands, Reaches(c) PROVE DurableInv'
<1> USE DEF DurableInv
<1>1. c \in Commands /\ c.step = "reach" /\ ~c.ok
  BY DEF TypeOK, Commands, CommandInv, Reaches
<1>2. PICK d \in {[c EXCEPT !.step = "done"], [c EXCEPT !.step = IF c.restoring THEN "snapshot" ELSE "root"]} : Becomes(c, d)
  BY DEF Reaches, Fails
<1>3. /\ d \in Commands
      /\ d.pane = c.pane /\ d.restoring = c.restoring /\ d.ref = c.ref /\ ~d.ok
      /\ d.step = "root" => ~c.restoring
  BY <1>1, <1>2 DEF Commands, Steps
<1>4. d.step = "root" => c.ref.key # 0
  BY <1>1, <1>3 DEF CommandInv
<1> QED
  BY <1>1, <1>2, <1>3, <1>4, CommandMoves DEF Reaches, host

LEMMA LooksInv == ASSUME DurableInv, NEW c \in commands, Looks(c) PROVE DurableInv'
<1> USE DEF DurableInv
<1>1. c \in Commands /\ c.step = "snapshot" /\ ~c.ok
  BY DEF TypeOK, Commands, CommandInv, Looks
<1>2. CASE Fails(c)
  <2>1. [c EXCEPT !.step = "done"] \in Commands
    BY <1>1 DEF Commands, Steps
  <2> QED
    BY <1>1, <1>2, <2>1, CommandMoves DEF Looks, Fails, host, Commands
<1>3. CASE c.ref.conv \in store /\ ByID(c.ref) /\ Succeeds(c, c.ref.conv)
  <2> DEFINE d == [c EXCEPT !.step = "done", !.ok = TRUE, !.ref.conv = c.ref.conv]
  <2>1. d = [c EXCEPT !.step = "done", !.ok = TRUE]
    BY <1>1 DEF Commands, Refs
  <2>2. /\ d \in Commands
        /\ d.pane = c.pane /\ d.restoring = c.restoring /\ d.ref = c.ref /\ d.step = "done"
    BY <1>1, <2>1 DEF Commands, Steps
  <2>3. Becomes(c, d) /\ c.ref.conv # 0 /\ c.ref.key = 0
    BY <1>3 DEF Succeeds, ByID
  <2> HIDE DEF d
  <2> QED
    BY <1>1, <2>2, <2>3, CommandMoves DEF Looks, host
<1>4. CASE ~ByID(c.ref) /\ c.ref.conv \in store /\ Becomes(c, [c EXCEPT !.step = "root"])
  <2>1. [c EXCEPT !.step = "root"] \in Commands
    BY <1>1 DEF Commands, Steps
  <2>2. c.ref.key # 0
    BY <1>1, <1>4 DEF ByID, CommandInv
  <2> QED
    BY <1>1, <1>4, <2>1, <2>2, CommandMoves DEF Looks, host, Commands
<1> QED
  BY <1>2, <1>3, <1>4 DEF Looks

LEMMA OpensKeyInv == ASSUME DurableInv, NEW c \in commands, OpensKey(c) PROVE DurableInv'
<1> USE DEF DurableInv
<1>1. /\ c \in Commands /\ c.step = "root" /\ ~c.ok
      /\ c.ref.key \in Keys /\ c.restoring = (c.ref.conv # 0)
  BY DEF TypeOK, Commands, Refs, CommandInv, OpensKey
<1>2. CASE Fails(c)
  <2>1. [c EXCEPT !.step = "done"] \in Commands
    BY <1>1 DEF Commands, Steps
  <2> QED
    BY <1>1, <1>2, <2>1, CommandMoves DEF OpensKey, Fails, host, Commands
<1>3. CASE /\ OpensRoot(c.ref.key) /\ Verified(c)
           /\ Succeeds(c, IF c.restoring THEN c.ref.conv ELSE RootOf(c.ref.key))
  <2> DEFINE id == RootOf(c.ref.key)
             d == [c EXCEPT !.step = "done", !.ok = TRUE, !.ref.conv = id]
  <2>1. id \in Convs /\ root'[c.ref.key] = id /\ id # 0
    BY <1>1, <1>3, RootOfTyped, RefTypes
  <2>2. Becomes(c, d)
    BY <1>1, <1>3 DEF Verified, Succeeds
  <2>3. /\ d \in Commands
        /\ d.pane = c.pane /\ d.restoring = c.restoring /\ d.step = "done"
        /\ d.ref.key = c.ref.key /\ d.ref.conv = id
    <3> HIDE DEF id
    <3> QED
      BY <1>1, <2>1 DEF Commands, Steps, Refs
  <2> HIDE DEF d, id
  <2> QED
    BY <1>1, <1>3, <2>1, <2>2, <2>3, CommandMoves DEF OpensKey, host
<1> QED
  BY <1>2, <1>3 DEF OpensKey

LEMMA TargetsPoll ==
  ASSUME TypeOK, PollInv, NEW ps, NEW ds, PollDurable(ps, ds), info' = info, rev' = rev
  PROVE  /\ PollInv' /\ polling' \in BOOLEAN
         /\ polls' \subseteq [watches : BOOLEAN, read : BOOLEAN, snap : -1 .. MaxRev]
<1>1. CASE UNCHANGED <<polling, polls>>
  BY <1>1 DEF TypeOK, PollInv
<1>2. CASE ~polling /\ polling' = TRUE /\ polls' = polls \cup {NewPoll(Targets(ps, ds))}
  <2>1. polls = {}
    BY <1>2 DEF PollInv
  <2>2. -1 \in -1 .. MaxRev
    BY Bounds
  <2> QED
    BY <1>2, <2>1, <2>2 DEF TypeOK, PollInv, NewPoll
<1> QED
  BY <1>1, <1>2 DEF PollDurable

\* Polls and what the host and the socket's other requests do.
LEMMA PollsInv ==
  ASSUME DurableInv, PollsAgain \/ AsksHost \/ HostWorks \/ \E q \in polls : PollReads(q) \/ PollApplies(q)
  PROVE  DurableInv'
<1> USE DEF DurableInv
<1>1. /\ UNCHANGED <<root, made, store, pane, nextID, durables, saved, commands, starting, pending>>
      /\ rev \in 0 .. MaxRev /\ info \in -1 .. MaxRev
  BY DEF PollsAgain, AsksHost, HostWorks, PollReads, PollApplies, host, TypeOK
<1> DEFINE PollSound == /\ PollInv' /\ polling' \in BOOLEAN /\ rev' \in 0 .. MaxRev /\ info' \in -1 .. MaxRev
                        /\ polls' \subseteq [watches : BOOLEAN, read : BOOLEAN, snap : -1 .. MaxRev]
<1>2. PollSound
  <2>1. CASE PollsAgain \/ AsksHost
    BY <1>1, <2>1, TargetsPoll DEF PollsAgain, AsksHost, host
  <2>2. CASE HostWorks
    <3>1. \A q \in polls : q.snap \in -1 .. MaxRev
      BY DEF TypeOK
    <3> QED
      BY <1>1, <2>2, <3>1, Bounds DEF HostWorks, poll, PollInv, TypeOK
  <2>3. ASSUME NEW q \in polls, PollReads(q) PROVE PollSound
    <3>1. PICK snap \in {-1, rev} : polls' = (polls \ {q}) \cup {[q EXCEPT !.read = TRUE, !.snap = snap]}
      BY <2>3 DEF PollReads
    <3>2. snap \in -1 .. MaxRev /\ q \in [watches : BOOLEAN, read : BOOLEAN, snap : -1 .. MaxRev] /\ polls = {q}
      BY <1>1, Bounds DEF TypeOK, PollInv
    <3>3. polls' = {[q EXCEPT !.read = TRUE, !.snap = snap]} /\ UNCHANGED <<polling, info, rev>>
      BY <2>3, <3>1, <3>2 DEF PollReads, host
    <3>4. snap = -1 \/ (info <= snap /\ snap <= rev)
      BY <1>1, <3>1 DEF PollInv
    <3>5. PollInv'
      BY <3>2, <3>3, <3>4 DEF PollInv
    <3> QED
      BY <1>1, <3>2, <3>3, <3>5 DEF TypeOK
  <2>4. ASSUME NEW q \in polls, PollApplies(q) PROVE PollSound
    BY <1>1, <2>4 DEF PollApplies, host, PollInv, TypeOK
  <2> QED
    BY <2>1, <2>2, <2>3, <2>4
<1>3. TypeOK'
  BY <1>1, <1>2 DEF TypeOK
<1> QED
  BY <1>1, <1>2, <1>3, SMTT(30) DEF RefInv, OneKey, Rooted, RootsDiffer, AllMade, AllRefs, RefsOf, PaneInv, KeysApart, CommandInv,
                          OwnerInv, StartInv, ViewsShowBinding, AttachUnderWay, Shown

\* What the state file keeps of the panes.
LEMMA SnapshotKeeps ==
  ASSUME NEW ps \in [Panes -> DurablePanes], NEW ds \in SUBSET Refs
  PROVE  LET s == Snapshot(ps, ds) IN
         /\ s \in [pane : [Panes -> Kept], durables : SUBSET Refs] /\ s.durables = ds
         /\ \A p \in Panes : /\ s.pane[p].open = ps[p].open /\ s.pane[p].ref = ps[p].ref
                             /\ s.pane[p].fresh = ps[p].fresh
         /\ RefsOf(s.pane) = RefsOf(ps)
  BY DEF Snapshot, Kept, DurablePanes, RefsOf

LEMMA AddDurableInv ==
  ASSUME DurableInv, NEW r \in Refs, NEW fresh \in BOOLEAN, AddDurable(r, fresh), fresh => r = NoRef,
         r \in AllRefs \/ r.conv = 0 \/ (r.key = 0 /\ r.conv <= made),
         pending' = pending \/ pending' = pending \cup {nextID}
  PROVE  DurableInv'
<1> DEFINE n == nextID
           s == Reserved(r)
           blank == [NoPane EXCEPT !.open = TRUE, !.ref = r, !.fresh = fresh]
           ps == [pane EXCEPT ![n] = blank]
           new == Command(n, s)
<1> USE DEF DurableInv
<1>1. /\ s \in Refs /\ s.conv = r.conv /\ (r.conv = 0 => s.key \in Keys)
      /\ fresh => s.key \notin UsedKeys
      /\ s = r \/ r.conv = 0
  BY ReservedRef, RefTypes DEF AddDurable, NoRef
<1> HIDE DEF s
<1>2. /\ blank.open /\ blank.ref = r /\ blank.fresh = fresh /\ ~blank.failed /\ ~blank.ready /\ blank.view = 0
      /\ blank \in DurablePanes /\ [blank EXCEPT !.ref = s] \in DurablePanes
  <2>1. NoPane \in DurablePanes
    BY RefTypes DEF NoPane, DurablePanes
  <2> QED
    BY <1>1, <2>1 DEF NoPane, DurablePanes
<1>3. /\ new \in Commands /\ new.pane = n /\ new.ref = s /\ new.step = "reach" /\ ~new.ok
      /\ new.restoring = (s.conv # 0)
  BY <1>1 DEF Command, Commands, Steps, AddDurable
<1>4. /\ pane' = [pane EXCEPT ![n] = [blank EXCEPT !.ref = s]] /\ saved' = Snapshot(ps, durables)
      /\ commands' = commands \cup {new} /\ nextID' = n + 1 /\ n \in Panes
      /\ UNCHANGED <<root, made, store, rev, durables, starting, polling, polls, info>>
  BY DEF AddDurable, host, poll, s
<1> HIDE DEF new, blank
<1>5. /\ pane' \in [Panes -> DurablePanes] /\ ps \in [Panes -> DurablePanes]
      /\ \A p \in Panes : pane'[p] = IF p = n THEN [blank EXCEPT !.ref = s] ELSE pane[p]
      /\ \A p \in Panes : ps[p] = IF p = n THEN blank ELSE pane[p]
  BY <1>2, <1>4 DEF TypeOK
<1>6. /\ pane'[n].open /\ pane'[n].ref = s /\ pane'[n].fresh = fresh /\ ~pane'[n].failed /\ ~pane'[n].ready
      /\ pane'[n].view = 0
  BY <1>2, <1>4, <1>5 DEF DurablePanes
<1> HIDE DEF ps
<1>7. /\ saved' \in [pane : [Panes -> Kept], durables : SUBSET Refs] /\ saved'.durables = durables
      /\ \A p \in Panes : /\ saved'.pane[p].open = ps[p].open /\ saved'.pane[p].ref = ps[p].ref
                          /\ saved'.pane[p].fresh = ps[p].fresh
      /\ RefsOf(saved'.pane) = RefsOf(ps)
  BY <1>4, <1>5, SnapshotKeeps DEF TypeOK
<1>8. TypeOK'
  <2>1. n + 1 \in 1 .. MaxPane + 1
    BY <1>4, Bounds DEF Panes
  <2> QED
    BY <1>3, <1>4, <1>5, <1>7, <2>1 DEF TypeOK
<1>9. RefInv'
  <2>1. \A x \in AllRefs' : x \in AllRefs \/ x = r \/ x = s
    BY <1>2, <1>3, <1>4, <1>5, <1>6, <1>7 DEF AllRefs, RefsOf
  <2> QED
    BY <1>1, <1>4, <1>8, <2>1, RefStep DEF HostStep
<1>10. /\ \A p \in Panes : pane[p].open \/ saved.pane[p].open => p < n
       /\ \A c \in commands : c.pane < n
       /\ \A p \in starting : p < n
  BY DEF PaneInv, KeysApart, CommandInv, StartInv
<1>11. PaneInv'
  <2>1. \A p \in Panes : p # n /\ pane[p].open => pane[p].ref.key \in UsedKeys
    BY DEF UsedKeys, Shown
  <2>2. n \in Nat /\ n' = n + 1 /\ \A p \in Panes : p \in Nat /\ (p < n \/ p = n => p < n')
    BY <1>4, Bounds DEF Panes
  <2>3. KeysApart(pane)'
    BY <1>1, <1>5, <1>6, <1>10, <2>1, <2>2, RefTypes DEF PaneInv, KeysApart, NoRef
  <2>4. KeysApart(saved.pane)'
    BY <1>2, <1>5, <1>7, <1>10, <2>2, RefTypes, SMTT(30) DEF PaneInv, KeysApart, NoRef
  <2> QED
    BY <2>3, <2>4 DEF PaneInv
<1>12. CommandInv'
  <2>1. \A c \in commands' : c.pane \in Nat /\ n \in Nat
    BY <1>4, <1>8, Bounds DEF TypeOK, Commands, Panes
  <2> QED
    BY <1>1, <1>3, <1>4, <1>10, <2>1, RefTypes DEF CommandInv
<1>13. OwnerInv'
  <2>1. n \in Nat /\ n \notin starting /\ \A c \in commands : c.pane \in Panes /\ c.pane # n
    BY <1>4, <1>10, Bounds DEF TypeOK, Commands, Panes
  <2>2. fresh => s.key # 0
    BY <1>1, RefTypes DEF NoRef
  <2> QED
    BY <1>3, <1>4, <1>5, <1>6, <2>1, <2>2 DEF OwnerInv
<1>14. StartInv'
  <2>1. \A p \in starting : p \in Panes /\ p < n' /\ p # n
    BY <1>4, <1>10, Bounds DEF TypeOK, Panes
  <2> QED
    BY <1>4, <1>5, <2>1 DEF StartInv
<1>15. ViewsShowBinding' /\ AttachUnderWay'
  BY <1>3, <1>4, <1>5, <1>6 DEF ViewsShowBinding, AttachUnderWay, Shown, TypeOK
<1> QED
  BY <1>4, <1>8, <1>9, <1>11, <1>12, <1>13, <1>14, <1>15 DEF PollInv

LEMMA PreparedInv == ASSUME DurableInv, NEW c \in commands, Prepared(c) PROVE DurableInv'
<1> DEFINE p == c.pane
           x == IF c.ok THEN [pane[p] EXCEPT !.ready = TRUE, !.ref = c.ref]
                        ELSE [pane[p] EXCEPT !.failed = TRUE, !.ref = c.ref]
<1> USE DEF DurableInv
<1>1. /\ c \in Commands /\ c.ref \in Refs /\ c.ref \in AllRefs /\ p \in Panes /\ p < nextID /\ c.ok \in BOOLEAN
      /\ c.ok => c.ref.conv # 0 /\ (c.ref.key # 0 => root[c.ref.key] = c.ref.conv)
  BY DEF TypeOK, Commands, AllRefs, CommandInv
<1>2. commands' = commands \ {c} /\ UNCHANGED <<root, made, store, rev, nextID>>
  BY DEF Prepared, host
<1>3. CommandInv'
  BY <1>2 DEF CommandInv
<1>4. CASE ~pane[p].open
  <2>1. UNCHANGED <<pane, durables, saved, starting, pending, polling, polls, info>>
    BY <1>4 DEF Prepared, poll
  <2>2. TypeOK'
    BY <1>2, <2>1 DEF TypeOK
  <2>3. AllRefs' \subseteq AllRefs
    BY <1>2, <2>1 DEF AllRefs, RefsOf
  <2>4. RefInv'
    BY <1>2, <2>2, <2>3, RefStep DEF HostStep
  <2> QED
    BY <1>2, <1>3, <1>4, <2>1, <2>2, <2>4
    DEF PaneInv, KeysApart, OwnerInv, StartInv, PollInv, ViewsShowBinding, AttachUnderWay, Shown
<1>5. CASE pane[p].open
  <2>1. /\ c.ref.key = pane[p].ref.key /\ (pane[p].fresh => c.ref.key # 0) /\ ~pane[p].failed /\ ~pane[p].ready
        /\ pane[p].view = 0 /\ p \notin starting /\ \A e \in commands : e.pane = p => e = c
    BY <1>5 DEF OwnerInv
  <2>2. /\ x \in DurablePanes /\ x.open /\ x.ref = c.ref /\ x.fresh = pane[p].fresh /\ x.view = 0
        /\ x.ready = c.ok /\ x.failed = ~c.ok
    BY <1>1, <1>5, <2>1 DEF TypeOK, DurablePanes
  <2>3. pane' = [pane EXCEPT ![p] = x]
    <3>1. CASE c.ok
      BY <1>1, <1>5, <3>1 DEF Prepared, TypeOK, DurablePanes
    <3>2. CASE ~c.ok
      BY <1>1, <1>5, <3>2 DEF Prepared, TypeOK, DurablePanes
    <3> QED
      BY <3>1, <3>2
  <2> HIDE DEF x
  <2>4. /\ pane' \in [Panes -> DurablePanes] /\ \A q \in Panes : pane'[q] = IF q = p THEN x ELSE pane[q]
    BY <2>2, <2>3 DEF TypeOK
  <2>5. /\ durables' \in SUBSET Refs /\ durables' \subseteq durables \cup {c.ref} /\ saved' = Snapshot(pane', durables')
        /\ pending' = {q \in pending : pane'[q].open /\ ~pane'[q].failed /\ ~pane'[q].ready}
        /\ starting' = IF c.ok THEN starting \cup {p} ELSE starting
        /\ info' = info
    BY <1>1, <1>5, ZenonT(30) DEF Prepared, Waiting, Associated, TypeOK, poll
  <2>6. PollInv' /\ polling' \in BOOLEAN /\ polls' \subseteq [watches : BOOLEAN, read : BOOLEAN, snap : -1 .. MaxRev]
    <3>1. CASE c.ok
      <4>1. PollDurable([pane EXCEPT ![p].ready = TRUE, ![p].ref = c.ref], durables')
        BY <1>5, <3>1 DEF Prepared
      <4> QED
        BY <1>2, <2>5, <4>1, TargetsPoll
    <3>2. CASE ~c.ok
      BY <1>2, <1>5, <3>2 DEF Prepared, poll, PollInv, TypeOK
    <3> QED
      BY <3>1, <3>2
  <2>7. /\ saved' \in [pane : [Panes -> Kept], durables : SUBSET Refs] /\ saved'.durables = durables'
        /\ \A q \in Panes : /\ saved'.pane[q].open = pane'[q].open /\ saved'.pane[q].ref = pane'[q].ref
                            /\ saved'.pane[q].fresh = pane'[q].fresh
        /\ RefsOf(saved'.pane) = RefsOf(pane')
    BY <2>4, <2>5, SnapshotKeeps
  <2>8. TypeOK'
    BY <1>1, <1>2, <2>4, <2>5, <2>6, <2>7 DEF TypeOK
  <2>9. RefInv'
    <3>1. \A r \in AllRefs' : r \in AllRefs
      BY <1>1, <1>2, <2>2, <2>4, <2>5, <2>7 DEF AllRefs, RefsOf
    <3> QED
      BY <1>2, <2>8, <3>1, RefStep DEF HostStep
  <2>10. PaneInv'
    <3>0. \A q \in Panes : /\ pane'[q].open <=> pane[q].open
                           /\ pane'[q].fresh <=> pane[q].fresh
                           /\ pane'[q].ref = IF q = p THEN c.ref ELSE pane[q].ref
      BY <1>5, <2>2, <2>4
    <3>1. KeysApart(pane)'
      <4> HIDE DEF p
      <4> QED
        BY <1>1, <1>2, <2>1, <3>0 DEF PaneInv, KeysApart
    <3>2. KeysApart(saved.pane)'
      BY <1>2, <2>7, <3>1 DEF KeysApart
    <3> QED
      BY <3>1, <3>2 DEF PaneInv
  <2>11. OwnerInv'
    BY <1>2, <2>1, <2>4, <2>5 DEF OwnerInv, TypeOK, Commands
  <2>12. StartInv'
    <3>1. \A q \in starting : q \in Panes /\ pane'[q] = pane[q]
      BY <2>1, <2>4 DEF TypeOK
    <3>2. c.ok => /\ p < nextID /\ pane'[p].ready /\ ~pane'[p].failed /\ pane'[p].ref.conv # 0
                  /\ pane'[p].ref.key # 0 => root[pane'[p].ref.key] = pane'[p].ref.conv
      BY <1>1, <2>2, <2>4
    <3> HIDE DEF p
    <3> QED
      BY <1>2, <2>5, <3>1, <3>2 DEF StartInv
  <2>13. ViewsShowBinding' /\ AttachUnderWay'
    <3>1. ViewsShowBinding'
      BY <2>2, <2>4 DEF ViewsShowBinding, Shown
    <3>2. ASSUME NEW q \in pending' PROVE \E e \in commands' : e.pane = q
      <4>1. q \in pending /\ q \in Panes /\ q # p /\ pane[q].open
        BY <1>1, <2>2, <2>4, <2>5 DEF TypeOK
      <4> QED
        BY <1>2, <4>1 DEF AttachUnderWay
    <3> QED
      BY <3>1, <3>2 DEF AttachUnderWay
  <2> QED
    BY <1>3, <2>6, <2>8, <2>9, <2>10, <2>11, <2>12, <2>13
<1> QED
  BY <1>4, <1>5

LEMMA ViewStartsInv == ASSUME DurableInv, NEW p \in Panes, ViewStarts(p) PROVE DurableInv'
<1> DEFINE r == pane[p].ref
<1> USE DEF DurableInv
<1>1. /\ p \in starting /\ starting' = starting \ {p} /\ UNCHANGED <<rev, nextID, durables, saved, commands, pending>>
      /\ UNCHANGED <<polling, polls, info>> /\ r \in Refs
  BY DEF ViewStarts, poll, TypeOK, DurablePanes
<1>2. pane[p].open => /\ ~pane[p].failed /\ r.conv # 0 /\ (r.key # 0 => root[r.key] = r.conv)
                      /\ \A c \in commands : c.pane # p
  BY <1>1 DEF StartInv, OwnerInv
<1>3. UNCHANGED <<root, made, store>>
  BY <1>2 DEF ViewStarts, OpensRoot
<1>4. PICK x \in DurablePanes : /\ pane' = [pane EXCEPT ![p] = x] /\ x.open = pane[p].open /\ x.ref = pane[p].ref
                                /\ x.fresh = pane[p].fresh
                                /\ x.view = pane[p].view \/ x.view = pane[p].ref.conv
                                /\ pane[p].open \/ x = pane[p]
  <2>1. CASE pane' = pane
    BY <2>1 DEF TypeOK
  <2>2. CASE pane' = [pane EXCEPT ![p].failed = TRUE] /\ pane[p].open
    <3>1. [pane[p] EXCEPT !.failed = TRUE] \in DurablePanes
      BY ZenonT(30) DEF TypeOK, DurablePanes
    <3> QED
      BY <2>2, <3>1 DEF TypeOK, DurablePanes
  <2>3. CASE pane' = [pane EXCEPT ![p].view = Viewed(r)] /\ pane[p].open
    <3>1. Viewed(r) = r.conv
      BY <1>2, <2>3 DEF Viewed, RootOf
    <3>2. [pane[p] EXCEPT !.view = r.conv] \in DurablePanes
      BY DEF TypeOK, DurablePanes, Refs
    <3> QED
      BY <2>3, <3>1, <3>2 DEF TypeOK, DurablePanes
  <2> QED
    BY <2>1, <2>2, <2>3 DEF ViewStarts
<1>5. pane' \in [Panes -> DurablePanes] /\ \A q \in Panes : pane'[q] = IF q = p THEN x ELSE pane[q]
  BY <1>4 DEF TypeOK
<1>6. TypeOK'
  BY <1>1, <1>3, <1>5 DEF TypeOK
<1>7. RefInv'
  <2>1. RefsOf(pane') = RefsOf(pane)
    BY <1>4, <1>5 DEF RefsOf
  <2>2. AllRefs' = AllRefs
    BY <1>1, <2>1 DEF AllRefs, RefsOf
  <2> QED
    BY <1>3, <1>6, <2>2, RefStep DEF HostStep
<1>8. PaneInv'
  BY <1>1, <1>4, <1>5 DEF PaneInv, KeysApart
<1>9. OwnerInv'
  BY <1>1, <1>2, <1>4, <1>5 DEF OwnerInv, TypeOK, Commands
<1>10. StartInv'
  BY <1>1, <1>3, <1>5 DEF StartInv, TypeOK
<1>11. ViewsShowBinding' /\ AttachUnderWay'
  BY <1>1, <1>4, <1>5 DEF ViewsShowBinding, AttachUnderWay, Shown, TypeOK
<1> QED
  BY <1>1, <1>3, <1>6, <1>7, <1>8, <1>9, <1>10, <1>11 DEF CommandInv, PollInv

LEMMA RetryInv == ASSUME DurableInv, NEW p \in Panes, Retry(p) PROVE DurableInv'
<1> DEFINE r == pane[p].ref
           s == Reserved(r)
           x == [pane[p] EXCEPT !.failed = FALSE, !.ready = FALSE, !.view = 0, !.ref = s]
           new == Command(p, s)
<1> USE DEF DurableInv
<1>1. /\ pane[p].open /\ pane[p].failed /\ r \in Refs /\ p < nextID
      /\ p \notin starting /\ \A c \in commands : c.pane # p
  BY DEF Retry, PaneInv, KeysApart, StartInv, OwnerInv, TypeOK, DurablePanes
<1>2. /\ s \in Refs /\ s.conv = r.conv /\ (r.conv = 0 => s.key \in Keys)
      /\ s = r \/ (r.conv = 0 /\ s.key \notin UsedKeys)
  BY <1>1, ReservedRef DEF Retry
<1>3. r.key # 0 => s = r
  BY <1>1, ReservedRef DEF Retry
<1>4. /\ pane' = [pane EXCEPT ![p] = x] /\ commands' = commands \cup {new}
      /\ UNCHANGED <<root, made, store, rev, nextID, durables, saved, starting, pending, polling, polls, info>>
  BY DEF Retry, host, poll
<1> HIDE DEF s
<1>5. /\ x \in DurablePanes /\ x.open /\ x.ref = s /\ x.fresh = pane[p].fresh /\ x.view = 0 /\ ~x.ready /\ ~x.failed
  BY <1>1, <1>2 DEF TypeOK, DurablePanes
<1>6. /\ new \in Commands /\ new.pane = p /\ new.ref = s /\ new.step = "reach" /\ ~new.ok
      /\ new.restoring = (s.conv # 0)
  BY <1>2 DEF Command, Commands, Steps
<1> HIDE DEF x, new
<1>7. /\ pane' \in [Panes -> DurablePanes] /\ \A q \in Panes : pane'[q] = IF q = p THEN x ELSE pane[q]
  BY <1>4, <1>5 DEF TypeOK
<1>8. TypeOK'
  BY <1>4, <1>6, <1>7 DEF TypeOK
<1>9. r \in AllRefs /\ r.key \in Keys \cup {0}
  BY <1>1 DEF AllRefs, RefsOf, Refs
<1>10. RefInv'
  <2>1. \A y \in AllRefs' : y \in AllRefs \/ y = s
    BY <1>4, <1>5, <1>6, <1>7 DEF AllRefs, RefsOf
  <2> QED
    BY <1>2, <1>4, <1>8, <1>9, <2>1, RefStep DEF HostStep
<1>11. (pane[p].fresh => s.key # 0) /\ (r.key # 0 => s.key = r.key) /\ (s.key = r.key \/ s.key \notin UsedKeys)
  BY <1>1, <1>2, <1>3, RefTypes DEF PaneInv, KeysApart
<1>12. PaneInv'
  <2>1. \A q \in Panes : pane[q].open => pane[q].ref.key \in UsedKeys
    BY DEF UsedKeys, Shown
  <2>2. KeysApart(pane)'
    <3>1. \A q \in Panes : /\ pane'[q].open <=> pane[q].open
                           /\ pane'[q].fresh <=> pane[q].fresh
                           /\ pane'[q].ref = IF q = p THEN s ELSE pane[q].ref
      BY <1>1, <1>5, <1>7
    <3>2. \A q \in Panes : (q # p /\ pane[q].open /\ pane[q].fresh /\ pane[p].fresh) => pane[q].ref.key # s.key
      BY <1>1, <1>11, <2>1 DEF PaneInv, KeysApart
    <3> HIDE DEF r
    <3> QED
      BY <1>4, <1>11, <3>1, <3>2 DEF PaneInv, KeysApart
  <2> QED
    BY <1>4, <2>2 DEF PaneInv, KeysApart
<1>13. CommandInv'
  BY <1>1, <1>2, <1>4, <1>6, RefTypes DEF CommandInv
<1>14. OwnerInv'
  BY <1>1, <1>4, <1>5, <1>6, <1>7, <1>11 DEF OwnerInv, TypeOK, Commands
<1>15. StartInv'
  BY <1>1, <1>4, <1>7 DEF StartInv, TypeOK
<1>16. ViewsShowBinding' /\ AttachUnderWay'
  <2>1. ViewsShowBinding'
    BY <1>5, <1>7 DEF ViewsShowBinding, Shown
  <2>2. \A q \in pending : pane'[q].open => q = p \/ pane[q].open
    BY <1>7 DEF TypeOK
  <2> QED
    BY <1>4, <1>6, <2>1, <2>2 DEF AttachUnderWay
<1> QED
  BY <1>4, <1>8, <1>10, <1>12, <1>13, <1>14, <1>15, <1>16 DEF PollInv

\* A pane is closed, a conversation is taken off the list, or all is saved.
LEMMA SavesInv ==
  ASSUME DurableInv, (\E p \in Panes : Close(p)) \/ (\E r \in durables : Forget(r)) \/ SetWorkspaceHost
  PROVE  DurableInv'
<1> USE DEF DurableInv
<1>1. /\ UNCHANGED <<root, made, store, rev, nextID, commands, starting, pending, polling, polls>>
      /\ info' = info \/ info' = -1
      /\ durables' \subseteq durables /\ saved' = Snapshot(pane', durables')
  BY DEF Close, Forget, SetWorkspaceHost, host, poll
<1>2. /\ pane' \in [Panes -> DurablePanes]
      /\ \A q \in Panes : pane'[q] = pane[q] \/ (~pane'[q].open /\ pane'[q].ref = NoRef)
  <2>1. NoPane \in DurablePanes /\ ~NoPane.open /\ NoPane.ref = NoRef
    BY RefTypes DEF NoPane, DurablePanes
  <2>2. pane' = pane \/ \E p \in Panes : pane' = [pane EXCEPT ![p] = NoPane]
    BY DEF Close, Forget, SetWorkspaceHost
  <2> QED
    BY <2>1, <2>2 DEF TypeOK
<1>3. /\ saved' \in [pane : [Panes -> Kept], durables : SUBSET Refs] /\ saved'.durables = durables'
      /\ \A q \in Panes : /\ saved'.pane[q].open = pane'[q].open /\ saved'.pane[q].ref = pane'[q].ref
                          /\ saved'.pane[q].fresh = pane'[q].fresh
      /\ RefsOf(saved'.pane) = RefsOf(pane')
  <2>1. durables' \in SUBSET Refs
    BY <1>1 DEF TypeOK
  <2> QED
    BY <1>1, <1>2, <2>1, SnapshotKeeps
<1>4. PollInv' /\ info' \in -1 .. MaxRev
  BY <1>1, Bounds DEF PollInv, TypeOK
<1>5. TypeOK'
  BY <1>1, <1>2, <1>3, <1>4 DEF TypeOK
<1>6. RefInv'
  <2>1. \A r \in AllRefs' : r \in AllRefs \/ r = NoRef
    BY <1>1, <1>2, <1>3 DEF AllRefs, RefsOf
  <2> QED
    BY <1>1, <1>5, <2>1, RefStep DEF HostStep, NoRef
<1>7. PaneInv'
  <2>1. KeysApart(pane)'
    BY <1>1, <1>2 DEF PaneInv, KeysApart
  <2> QED
    BY <1>1, <1>3, <2>1 DEF PaneInv, KeysApart
<1>8. CommandInv'
  BY <1>1 DEF CommandInv
<1>9. OwnerInv'
  BY <1>1, <1>2 DEF OwnerInv, TypeOK, Commands
<1>10. StartInv'
  BY <1>1, <1>2 DEF StartInv, TypeOK
<1>11. ViewsShowBinding' /\ AttachUnderWay'
  BY <1>1, <1>2 DEF ViewsShowBinding, AttachUnderWay, Shown, TypeOK
<1> QED
  BY <1>4, <1>5, <1>6, <1>7, <1>8, <1>9, <1>10, <1>11

LEMMA RestartInv == ASSUME DurableInv, Restart PROVE DurableInv'
<1> USE DEF DurableInv
<1>1. PICK s \in {saved, Snapshot(pane, durables)} :
         /\ pane' = Restored(s) /\ saved' = s
         /\ durables' \subseteq s.durables \cup RefsOf(Restored(s))
         /\ \A c \in commands' : \E p \in Panes : /\ c = Command(p, Restored(s)[p].ref) /\ Restored(s)[p].open
                                                  /\ Valid(Restored(s)[p].ref)
  BY DEF Restart, RefsOf
<1>2. /\ starting' = {} /\ pending' = {} /\ info' = -1 /\ UNCHANGED <<made, rev, nextID>>
      /\ UNCHANGED <<root, store>> \/ (root' = [k \in Keys |-> 0] /\ store' \in {{}, store})
  BY DEF Restart
<1>3. /\ s \in [pane : [Panes -> Kept], durables : SUBSET Refs]
      /\ KeysApart(s.pane)
      /\ s.durables \cup RefsOf(s.pane) \subseteq AllRefs
  <2>1. CASE s = saved
    BY <2>1 DEF TypeOK, PaneInv, AllRefs
  <2>2. CASE s = Snapshot(pane, durables)
    <3>1. pane \in [Panes -> DurablePanes] /\ durables \in SUBSET Refs
      BY DEF TypeOK
    <3> QED
      BY <2>2, <3>1, SnapshotKeeps DEF PaneInv, KeysApart, AllRefs
  <2> QED
    BY <2>1, <2>2
<1>4. /\ pane' \in [Panes -> DurablePanes]
      /\ \A p \in Panes : /\ pane'[p].open <=> s.pane[p].open
                          /\ pane'[p].view = 0 /\ ~pane'[p].ready
                          /\ pane'[p].open => /\ pane'[p].ref = s.pane[p].ref
                                              /\ pane'[p].fresh = s.pane[p].fresh
                                              /\ pane'[p].failed <=> ~Valid(s.pane[p].ref)
                          /\ ~pane'[p].open => pane'[p].ref = NoRef
  <2>1. NoPane \in DurablePanes /\ ~NoPane.open /\ NoPane.ref = NoRef /\ NoPane.view = 0 /\ ~NoPane.ready
    BY RefTypes DEF NoPane, DurablePanes
  <2>2. \A p \in Panes : pane'[p] = IF s.pane[p].open
                                    THEN [NoPane EXCEPT !.open = TRUE, !.ref = s.pane[p].ref, !.fresh = s.pane[p].fresh,
                                                        !.failed = ~Valid(s.pane[p].ref)]
                                    ELSE NoPane
    BY <1>1 DEF Restored
  <2>3. \A p \in Panes : s.pane[p] \in Kept
    BY <1>3
  <2> DEFINE Opened(p) == [NoPane EXCEPT !.open = TRUE, !.ref = s.pane[p].ref, !.fresh = s.pane[p].fresh,
                                         !.failed = ~Valid(s.pane[p].ref)]
  <2>6. ASSUME NEW p \in Panes
        PROVE  /\ s.pane[p].open \in BOOLEAN /\ s.pane[p].ref \in Refs /\ s.pane[p].fresh \in BOOLEAN
               /\ Valid(s.pane[p].ref) \in BOOLEAN
    BY <2>3 DEF Kept, Valid
  <2>7. ASSUME NEW p \in Panes
        PROVE  /\ Opened(p) \in DurablePanes /\ Opened(p).open /\ Opened(p).view = 0 /\ ~Opened(p).ready
               /\ Opened(p).ref = s.pane[p].ref /\ Opened(p).fresh = s.pane[p].fresh
               /\ Opened(p).failed <=> ~Valid(s.pane[p].ref)
    BY <2>1, <2>6 DEF DurablePanes
  <2>8. \A p \in Panes : pane'[p] = IF s.pane[p].open THEN Opened(p) ELSE NoPane
    BY <2>2
  <2> HIDE DEF Opened
  <2>4. \A p \in Panes : pane'[p] \in DurablePanes
    BY <2>1, <2>7, <2>8
  <2>5. pane' \in [Panes -> DurablePanes]
    BY <1>1, <2>4 DEF Restored
  <2> QED
    BY <2>1, <2>5, <2>6, <2>7, <2>8
<1>5. \A c \in commands' : /\ c \in Commands /\ c.pane \in Panes /\ c = Command(c.pane, c.ref)
                           /\ pane'[c.pane].open /\ ~pane'[c.pane].failed /\ c.ref = pane'[c.pane].ref
                           /\ c.step = "reach" /\ ~c.ok /\ c.restoring = TRUE /\ c.ref.conv # 0
  <2> SUFFICES ASSUME NEW c \in commands'
               PROVE  /\ c \in Commands /\ c.pane \in Panes /\ c = Command(c.pane, c.ref)
                      /\ pane'[c.pane].open /\ ~pane'[c.pane].failed /\ c.ref = pane'[c.pane].ref
                      /\ c.step = "reach" /\ ~c.ok /\ c.restoring = TRUE /\ c.ref.conv # 0
    OBVIOUS
  <2>1. PICK p \in Panes : c = Command(p, pane'[p].ref) /\ pane'[p].open /\ Valid(pane'[p].ref)
    BY <1>1
  <2>2. pane'[p].ref \in Refs /\ ~pane'[p].failed
    BY <1>4, <2>1 DEF DurablePanes
  <2> QED
    BY <2>1, <2>2 DEF Command, Commands, Steps, Valid
<1>6. PollInv' /\ polling' \in BOOLEAN /\ polls' \subseteq [watches : BOOLEAN, read : BOOLEAN, snap : -1 .. MaxRev]
  <2>1. PICK of : polling' = (of # {}) /\ polls' = IF of = {} THEN {} ELSE {NewPoll(of)}
    BY DEF Restart
  <2>2. -1 \in -1 .. MaxRev /\ rev \in 0 .. MaxRev
    BY Bounds DEF TypeOK
  <2>3. \A q \in polls' : q = NewPoll(of) /\ polling' /\ q.snap = -1
    <3> SUFFICES ASSUME NEW q \in polls' PROVE q = NewPoll(of) /\ polling' /\ q.snap = -1
      OBVIOUS
    <3>1. of # {} /\ q = NewPoll(of)
      BY <2>1
    <3>2. polling'
      BY <2>1, <3>1, Zenon
    <3> QED
      BY <3>1, <3>2 DEF NewPoll
  <2>4. PollInv'
    BY <1>2, <2>1, <2>2, <2>3 DEF PollInv
  <2>5. NewPoll(of) \in [watches : BOOLEAN, read : BOOLEAN, snap : -1 .. MaxRev]
    BY <2>2 DEF NewPoll
  <2> QED
    BY <2>1, <2>4, <2>5
<1>7. TypeOK'
  <2>1. root' \in [Keys -> Convs \cup {0}] /\ store' \subseteq 1 .. made'
    BY <1>2 DEF TypeOK
  <2>2. durables' \subseteq Refs
    BY <1>1, <1>3, <1>4 DEF RefsOf, DurablePanes
  <2>3. commands' \subseteq Commands
    BY <1>5
  <2>4. info' \in -1 .. MaxRev
    BY <1>2, Bounds
  <2> QED
    BY <1>1, <1>2, <1>3, <1>4, <1>6, <2>1, <2>2, <2>3, <2>4 DEF TypeOK
<1>8. RefInv'
  <2>1. \A p \in Panes : pane'[p].ref \in AllRefs \/ pane'[p].ref = NoRef
    BY <1>3, <1>4 DEF RefsOf
  <2>2. durables' \subseteq AllRefs \cup {NoRef}
    BY <1>1, <1>3, <2>1 DEF RefsOf
  <2>3. \A r \in AllRefs' : r \in AllRefs \/ r = NoRef
    BY <1>1, <1>3, <1>5, <2>1, <2>2 DEF AllRefs, RefsOf
  <2> QED
    BY <1>2, <1>7, <2>3, RefStep DEF HostStep, NoRef
<1>9. PaneInv'
  BY <1>1, <1>2, <1>3, <1>4 DEF PaneInv, KeysApart
<1>10. CommandInv'
  BY <1>2, <1>5, <1>9 DEF CommandInv, PaneInv, KeysApart
<1>11. OwnerInv'
  BY <1>2, <1>4, <1>5, <1>9 DEF OwnerInv, PaneInv, KeysApart
<1>12. StartInv' /\ ViewsShowBinding' /\ AttachUnderWay'
  BY <1>2, <1>4 DEF StartInv, ViewsShowBinding, AttachUnderWay, Shown
<1> QED
  BY <1>6, <1>7, <1>8, <1>9, <1>10, <1>11, <1>12

\* An agent or a view that is opened is of no conversation, of one that is
\* named somewhere, or of one that is named by its id alone.
LEMMA OpensInv == ASSUME DurableInv, UserOpens \/ ApiAttach PROVE DurableInv'
<1> USE DEF DurableInv
<1>1. durables \subseteq AllRefs /\ \A p \in Panes : pane[p].ref \in AllRefs
  BY DEF AllRefs, RefsOf
<1>2. AllRefs \subseteq Refs /\ NoRef \in Refs /\ NoRef.conv = 0
  BY RefsTyped, RefTypes DEF NoRef
<1>3. CASE UserOpens
  <2>1. PICK r \in Refs, fresh \in BOOLEAN :
           AddDurable(r, fresh) /\ (fresh => r = NoRef) /\ (r \in AllRefs \/ r.conv = 0)
    BY <1>1, <1>2, <1>3 DEF UserOpens, Shown
  <2> QED
    BY <1>3, <2>1, AddDurableInv DEF UserOpens
<1>4. CASE ApiAttach
  <2>1. ASSUME NEW r \in [key : {0}, conv : store] PROVE r \in Refs /\ r.key = 0 /\ r.conv <= made
    <3>1. made \in 0 .. MaxConv /\ r.conv \in 1 .. made /\ r.key = 0 /\ r = [key |-> r.key, conv |-> r.conv]
      BY DEF TypeOK
    <3>2. r.conv \in Convs /\ r.conv <= made
      BY <3>1, Bounds DEF Convs
    <3> QED
      BY <3>1, <3>2 DEF Refs
  <2>2. \A r \in [key : Keys, conv : {0}] : r \in Refs /\ r.conv = 0
    BY DEF Refs
  <2>3. PICK r \in Refs, fresh \in BOOLEAN :
           /\ AddDurable(r, fresh) /\ (fresh => r = NoRef)
           /\ r \in AllRefs \/ r.conv = 0 \/ (r.key = 0 /\ r.conv <= made)
    BY <1>1, <1>2, <1>4, <2>1, <2>2 DEF ApiAttach
  <2> QED
    BY <1>4, <2>3, AddDurableInv DEF ApiAttach
<1> QED
  BY <1>3, <1>4

LEMMA StepDurableInv == DurableInv /\ [Next]_vars => DurableInv'
<1> SUFFICES ASSUME DurableInv, [Next]_vars PROVE DurableInv'
  OBVIOUS
<1>1. CASE UNCHANGED vars
  BY <1>1 DEF vars, host, poll, DurableInv, TypeOK, RefInv, OneKey, Rooted, RootsDiffer, AllMade, AllRefs, RefsOf, PaneInv,
              KeysApart, CommandInv, OwnerInv, StartInv, PollInv, ViewsShowBinding, AttachUnderWay, Shown
<1>2. ASSUME NEW c \in commands, CommandStep(c) PROVE DurableInv'
  BY <1>2, ReachesInv, LooksInv, OpensKeyInv, PreparedInv DEF CommandStep
<1>3. CASE PollsAgain \/ AsksHost \/ HostWorks \/ \E q \in polls : PollReads(q) \/ PollApplies(q)
  BY <1>3, PollsInv
<1>4. CASE UserOpens \/ ApiAttach
  BY <1>4, OpensInv
<1>5. CASE Restart
  BY <1>5, RestartInv
<1>6. CASE \E p \in Panes : ViewStarts(p) \/ Retry(p)
  BY <1>6, ViewStartsInv, RetryInv
<1>7. CASE (\E p \in Panes : Close(p)) \/ (\E r \in durables : Forget(r)) \/ SetWorkspaceHost
  BY <1>7, SavesInv
<1> QED
  BY <1>1, <1>2, <1>3, <1>4, <1>5, <1>6, <1>7 DEF Next

-----------------------------------------------------------------------------
(* The properties.                                                         *)

LEMMA DurableInvAlways == Spec => []DurableInv
<1> QED
  BY InitDurableInv, StepDurableInv, PTL DEF Spec

\* Two agents opened as new ones never share a conversation: one that both
\* had would be named with one key, and each has its own.
THEOREM AgentsStayDistinct == Spec => []DistinctAgents
<1>1. DurableInv => DistinctAgents
  <2> SUFFICES ASSUME DurableInv, NEW p \in Shown, NEW q \in Shown, p # q, pane[p].fresh, pane[q].fresh,
                      pane[p].ref.conv # 0, pane[p].ref.conv = pane[q].ref.conv
               PROVE  FALSE
    BY DEF DistinctAgents
  <2>1. /\ p \in Panes /\ q \in Panes /\ pane[p].open /\ pane[q].open
        /\ pane[p].ref \in AllRefs /\ pane[q].ref \in AllRefs
    BY DEF Shown, AllRefs, RefsOf
  <2>2. pane[p].ref.key # 0 /\ pane[q].ref.key # 0 /\ pane[p].ref.key # pane[q].ref.key
    BY <2>1 DEF DurableInv, PaneInv, KeysApart
  <2> QED
    BY <2>1, <2>2 DEF DurableInv, RefInv, OneKey
<1> QED
  BY <1>1, DurableInvAlways, PTL

\* A view shows the conversation of its pane.
THEOREM ViewsAreOfTheirPane == Spec => []ViewsShowBinding
  BY DurableInvAlways, PTL DEF DurableInv

\* A client that waits for an attach waits for a command.
THEOREM AttachesAreWaitedFor == Spec => []AttachUnderWay
  BY DurableInvAlways, PTL DEF DurableInv

\* What is known of a conversation is replaced by what was read later.
THEOREM ObservationsOnlyAdvance == Spec => ObservationsForward
<1>1. DurableInv /\ [Next]_vars => [info' >= info \/ info' = -1]_vars
  <2> SUFFICES ASSUME DurableInv, [Next]_vars PROVE info' >= info \/ info' = -1
    BY DEF vars, poll
  <2>1. info \in -1 .. MaxRev
    BY DEF DurableInv, TypeOK
  <2>2. ASSUME NEW q \in polls, PollApplies(q) PROVE info' >= info \/ info' = -1
    BY <2>1, <2>2 DEF PollApplies, DurableInv, PollInv, TypeOK
  <2>3. CASE \E r \in durables : Forget(r)
    BY <2>1, <2>3 DEF Forget
  <2>4. CASE Restart
    BY <2>4 DEF Restart
  <2>5. CASE info' = info
    BY <2>1, <2>5
  <2>6. ASSUME NEW c \in commands, CommandStep(c) PROVE info' = info
    BY <2>6 DEF CommandStep, Reaches, Looks, OpensKey, Prepared, LoopIdle, poll
  <2>7. ASSUME PollsAgain \/ AsksHost \/ HostWorks \/ SetWorkspaceHost \/ UserOpens \/ ApiAttach \/ UNCHANGED vars
        PROVE  info' = info
    BY <2>7 DEF PollsAgain, AsksHost, HostWorks, SetWorkspaceHost, UserOpens, ApiAttach, AddDurable, vars, poll
  <2>8. ASSUME (\E q \in polls : PollReads(q)) \/ \E p \in Panes : ViewStarts(p) \/ Retry(p) \/ Close(p)
        PROVE  info' = info
    BY <2>8 DEF PollReads, ViewStarts, Retry, Close, poll
  <2> QED
    BY <2>2, <2>3, <2>4, <2>5, <2>6, <2>7, <2>8 DEF Next
<1> QED
  BY <1>1, DurableInvAlways, PTL DEF Spec, ObservationsForward
==============================================================================
