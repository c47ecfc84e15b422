----------------------------- MODULE PaneProofs -----------------------------
(***************************************************************************)
(* A pane implements its two parts, so that what is proved of InputQueue   *)
(* holds of a pane, whatever its kind and its output.                      *)
(*                                                                         *)
(* A step of the screen's side is seen by the input's side as the end of   *)
(* the child, as the flag of MarkExited, or not at all.  This needs that   *)
(* the flags the two sides share are only ever raised.                     *)
(*                                                                         *)
(* The rest of the module is about the window of a pane on its terminal:   *)
(* every operation of the emulator keeps the terminal in order, whatever   *)
(* the sizes and the history, and the properties of PaneView follow.       *)
(***************************************************************************)
EXTENDS Pane, PaneView, SequenceTheorems, FiniteSetTheorems, WellFoundedInduction, TLAPS

-----------------------------------------------------------------------------
(***************************************************************************)
(* Nobody sleeps through the signal meant for it: NoLostWakeup holds of    *)
(* every number of flushing goroutines, every input and every bound.       *)
(*                                                                         *)
(* NoLostWakeup is not inductive: that push wakes the writer when the      *)
(* writer sleeps needs that nobody else is ahead of it in the queue of the *)
(* condition variable.  WakeupInv says so: a sleeping writer sleeps alone, *)
(* because a caller of FlushInput sleeps only while there is something to  *)
(* write.                                                                  *)
(***************************************************************************)

QueueTypes ==
  /\ chunks \in Seq(Chunk \cup {NoChunk})
  /\ busy \in BOOLEAN /\ closed \in BOOLEAN
  /\ waiters \in Seq(Goroutine)
  /\ at \in [Goroutine -> {"idle", "enter", "waiting", "writing", "gone"}]
  /\ offer \in [chunk : Chunk \cup {NoChunk}, bounded : BOOLEAN]

(* waiters holds those that sleep, each once.                              *)
WaitersSleep ==
  /\ \A i \in DOMAIN waiters : at[waiters[i]] = "waiting"
  /\ \A g \in Goroutine : at[g] = "waiting" => \E i \in DOMAIN waiters : waiters[i] = g
  /\ \A i, j \in DOMAIN waiters : waiters[i] = waiters[j] => i = j

WriterSleepsAlone ==
  at[Writer] = "waiting" => waiters = <<Writer>> /\ chunks = <<>> /\ ~closed /\ ~busy

FlushersSleepForReason ==
  \A f \in Flusher : at[f] = "waiting" => Undrained

WakeupInv == QueueTypes /\ WaitersSleep /\ WriterSleepsAlone /\ FlushersSleepForReason

(* The invariant depends on these variables only.                          *)
LEMMA WakeupInvStutters ==
  ASSUME WakeupInv,
         UNCHANGED <<chunks, busy, closed, waiters, at, offer>>
  PROVE  WakeupInv'
  BY DEF WakeupInv, QueueTypes, WaitersSleep, WriterSleepsAlone, FlushersSleepForReason,
         Undrained

(* Initially nobody sleeps.                                                *)
LEMMA InitWakeupInv == Init => WakeupInv
<1> SUFFICES ASSUME Init PROVE WakeupInv
  OBVIOUS
<1> USE InputQueueAssumption DEF Init
<1>1. QueueTypes
  <2>1. chunks \in Seq(Chunk \cup {NoChunk}) /\ waiters \in Seq(Goroutine)
    OBVIOUS
  <2>2. at \in [Goroutine -> {"idle", "enter", "waiting", "writing", "gone"}]
    OBVIOUS
  <2>3. offer \in [chunk : Chunk \cup {NoChunk}, bounded : BOOLEAN]
    BY DEF NoOffer
  <2> QED
    BY <2>1, <2>2, <2>3 DEF QueueTypes
<1>2. WaitersSleep
  BY DEF WaitersSleep, Goroutine
<1>3. WriterSleepsAlone /\ FlushersSleepForReason
  BY DEF WriterSleepsAlone, FlushersSleepForReason, Goroutine
<1> QED
  BY <1>1, <1>2, <1>3 DEF WakeupInv

(* Nobody asleep and nobody queued: the shape after a broadcast.           *)
LEMMA NobodySleeps ==
  ASSUME QueueTypes', waiters' = <<>>, \A g \in Goroutine : at'[g] # "waiting"
  PROVE  WakeupInv'
<1>1. WaitersSleep'
  BY DEF WaitersSleep
<1>2. WriterSleepsAlone' /\ FlushersSleepForReason'
  BY DEF WriterSleepsAlone, FlushersSleepForReason, Goroutine
<1> QED
  BY <1>1, <1>2 DEF WakeupInv

(* push: the head of the queue wakes, and the queue of input is not empty. *)
LEMMA PushWakeupInv == WakeupInv /\ Push => WakeupInv'
<1> SUFFICES ASSUME WakeupInv, Push PROVE WakeupInv'
  OBVIOUS
<1> USE DEF Push
<1>1. offer' \in [chunk : Chunk \cup {NoChunk}, bounded : BOOLEAN]
  BY DEF NoOffer
<1>2. CASE PushRefused(offer.chunk, offer.bounded)
  <2>1. UNCHANGED <<chunks, busy, closed, waiters, at>>
    BY <1>2
  <2>2. QueueTypes'
    BY <1>1, <2>1 DEF WakeupInv, QueueTypes
  <2> QED
    BY <2>1, <2>2 DEF WakeupInv, WaitersSleep, WriterSleepsAlone,
       FlushersSleepForReason, Undrained
<1>3. CASE ~PushRefused(offer.chunk, offer.bounded)
  <2>1. /\ chunks' = Append(chunks, offer.chunk)
        /\ Signal /\ busy' = busy /\ closed' = closed
    BY <1>3 DEF Enqueue
  <2>2. ~closed
    BY <1>3 DEF PushRefused
  <2>3. /\ chunks \in Seq(Chunk \cup {NoChunk})
        /\ offer.chunk \in Chunk \cup {NoChunk}
        /\ waiters \in Seq(Goroutine)
        /\ at \in [Goroutine -> {"idle", "enter", "waiting", "writing", "gone"}]
    BY DEF WakeupInv, QueueTypes
  <2>4. chunks' \in Seq(Chunk \cup {NoChunk}) /\ chunks' # <<>>
    BY <2>1, <2>3
  <2>5. FlushersSleepForReason'
    BY <2>1, <2>2, <2>4 DEF FlushersSleepForReason, Undrained
  <2>6. CASE waiters = <<>>
    <3>1. UNCHANGED <<waiters, at>>
      BY <2>1, <2>6 DEF Signal
    <3>2. QueueTypes'
      BY <1>1, <2>1, <2>4, <3>1 DEF WakeupInv, QueueTypes
    <3>3. WaitersSleep'
      BY <3>1 DEF WakeupInv, WaitersSleep
    <3>4. at[Writer] # "waiting"
      BY <2>6 DEF WakeupInv, WriterSleepsAlone
    <3> QED
      BY <2>5, <3>1, <3>2, <3>3, <3>4 DEF WakeupInv, WriterSleepsAlone
  <2>7. CASE waiters # <<>>
    <3>1. waiters' = Tail(waiters) /\ at' = [at EXCEPT ![Head(waiters)] = "enter"]
      BY <2>1, <2>7 DEF Signal
    <3>2. /\ Tail(waiters) \in Seq(Goroutine)
          /\ Head(waiters) = waiters[1] /\ 1 \in DOMAIN waiters
          /\ Head(waiters) \in Goroutine
      BY <2>3, <2>7
    <3>3. \A i \in DOMAIN Tail(waiters) :
            i + 1 \in DOMAIN waiters /\ i + 1 # 1 /\ Tail(waiters)[i] = waiters[i + 1]
      BY <2>3, <2>7
    <3>4. \A j \in DOMAIN waiters : j # 1 =>
            j - 1 \in DOMAIN Tail(waiters) /\ Tail(waiters)[j - 1] = waiters[j]
      BY <2>3, <2>7
    <3>5. QueueTypes'
      BY <1>1, <2>1, <2>3, <2>4, <3>1, <3>2 DEF WakeupInv, QueueTypes
    <3>6. WaitersSleep'
      <4>1. \A i \in DOMAIN waiters' : waiters'[i] # Head(waiters)
        BY <3>1, <3>2, <3>3 DEF WakeupInv, WaitersSleep
      <4>2. \A i \in DOMAIN waiters' : at'[waiters'[i]] = "waiting"
        <5>1. ASSUME NEW i \in DOMAIN waiters' PROVE at'[waiters'[i]] = "waiting"
          <6>1. waiters'[i] = waiters[i + 1] /\ i + 1 \in DOMAIN waiters
            BY <3>1, <3>3, <5>1
          <6>2. at[waiters[i + 1]] = "waiting" /\ waiters[i + 1] \in Goroutine
            BY <2>3, <6>1 DEF WakeupInv, WaitersSleep
          <6> QED
            BY <2>3, <3>1, <4>1, <6>1, <6>2
        <5> QED
          BY <5>1
      <4>3. ASSUME NEW g \in Goroutine, at'[g] = "waiting"
            PROVE  \E i \in DOMAIN waiters' : waiters'[i] = g
        <5>1. at[g] = "waiting" /\ g # Head(waiters)
          BY <2>3, <3>1, <3>2, <4>3
        <5>2. PICK j \in DOMAIN waiters : waiters[j] = g
          BY <5>1 DEF WakeupInv, WaitersSleep
        <5>3. j # 1
          BY <3>2, <5>1, <5>2
        <5> QED
          BY <3>1, <3>4, <5>2, <5>3
      <4>4. \A i, j \in DOMAIN waiters' : waiters'[i] = waiters'[j] => i = j
        <5>1. ASSUME NEW i \in DOMAIN waiters', NEW j \in DOMAIN waiters',
                     waiters'[i] = waiters'[j]
              PROVE  i = j
          <6>1. /\ i + 1 \in DOMAIN waiters /\ j + 1 \in DOMAIN waiters
                /\ waiters[i + 1] = waiters[j + 1]
            BY <3>1, <3>3, <5>1
          <6>2. i + 1 = j + 1
            BY <6>1 DEF WakeupInv, WaitersSleep
          <6>3. i \in Int /\ j \in Int
            BY <2>3, <2>7, <3>1, <5>1
          <6> QED
            BY <6>2, <6>3
        <5> QED
          BY <5>1
      <4> QED
        BY <4>2, <4>3, <4>4 DEF WaitersSleep
    <3>7. at'[Writer] # "waiting"
      <4>1. CASE at[Writer] = "waiting"
        <5>1. waiters = <<Writer>>
          BY <4>1 DEF WakeupInv, WriterSleepsAlone
        <5>2. Head(waiters) = Writer
          BY <5>1
        <5> QED
          BY <2>3, <3>1, <5>2 DEF Goroutine
      <4>2. CASE at[Writer] # "waiting"
        BY <2>3, <3>1, <3>2, <4>2
      <4> QED
        BY <4>1, <4>2
    <3> QED
      BY <2>5, <3>5, <3>6, <3>7 DEF WakeupInv, WriterSleepsAlone
  <2> QED
    BY <2>6, <2>7
<1> QED
  BY <1>2, <1>3


(* pop, when a chunk was being written: everybody wakes, and the writer    *)
(* goes where it goes.                                                     *)
LEMMA BroadcastWakesAll ==
  ASSUME WakeupInv, NEW where, NEW queue, BroadcastThen(Writer, where, queue)
  PROVE  /\ \A f \in Flusher : at'[f] # "waiting"
         /\ at'[Writer] = where /\ waiters' = queue
<1>1. \A f \in Flusher : f \in Goroutine /\ f # Writer
  BY InputQueueAssumption DEF Goroutine
<1>2. ASSUME NEW f \in Flusher PROVE at'[f] # "waiting"
  <2>1. CASE at[f] = "waiting"
    <3>1. \E i \in DOMAIN waiters : waiters[i] = f
      BY <1>1, <2>1 DEF WakeupInv, WaitersSleep
    <3> QED
      BY <1>1, <3>1 DEF BroadcastThen
  <2>2. CASE at[f] # "waiting"
    BY <1>1, <2>2 DEF BroadcastThen
  <2> QED
    BY <2>1, <2>2
<1>3. at'[Writer] = where /\ waiters' = queue
  BY DEF BroadcastThen, Goroutine
<1> QED
  BY <1>2, <1>3

(* A queue of waiters that shrinks to the writer alone, or to nobody, is   *)
(* in order when no flusher sleeps.                                        *)
LEMMA OnlyTheWriter ==
  ASSUME at' \in [Goroutine -> {"idle", "enter", "waiting", "writing", "gone"}],
         \A f \in Flusher : at'[f] # "waiting",
         at'[Writer] = "waiting", waiters' = <<Writer>>
  PROVE  WaitersSleep' /\ FlushersSleepForReason' /\ waiters' \in Seq(Goroutine)
<1>1. Writer \in Goroutine
  BY DEF Goroutine
<1>2. DOMAIN waiters' = {1} /\ waiters'[1] = Writer /\ waiters' \in Seq(Goroutine)
  BY <1>1
<1> QED
  BY <1>2 DEF WaitersSleep, FlushersSleepForReason, Goroutine

LEMMA NotEvenTheWriter ==
  ASSUME at' \in [Goroutine -> {"idle", "enter", "waiting", "writing", "gone"}],
         \A f \in Flusher : at'[f] # "waiting",
         at'[Writer] # "waiting", waiters' = <<>>
  PROVE  WaitersSleep' /\ FlushersSleepForReason' /\ waiters' \in Seq(Goroutine)
<1>1. DOMAIN waiters' = {} /\ waiters' \in Seq(Goroutine)
  OBVIOUS
<1> QED
  BY <1>1 DEF WaitersSleep, FlushersSleepForReason, Goroutine

(* No flusher sleeps when the writer finds the queue empty: with nothing   *)
(* being written there was nothing to wait for.                            *)
LEMMA IdleQueueHasNoSleeper ==
  ASSUME WakeupInv, at[Writer] = "enter", ~busy, chunks = <<>> \/ closed
  PROVE  waiters = <<>> /\ \A g \in Goroutine : at[g] # "waiting"
<1>1. \A f \in Flusher : at[f] # "waiting"
  BY DEF WakeupInv, FlushersSleepForReason, Undrained
<1>2. \A g \in Goroutine : at[g] # "waiting"
  BY <1>1 DEF Goroutine
<1>3. waiters \in Seq(Goroutine)
  BY DEF WakeupInv, QueueTypes
<1>4. DOMAIN waiters = {}
  BY <1>2, <1>3 DEF WakeupInv, WaitersSleep
<1>5. waiters = <<>>
  BY <1>3, <1>4
<1> QED
  BY <1>2, <1>5

LEMMA PopWaitsWakeupInv == WakeupInv /\ PopWaits => WakeupInv'
<1> SUFFICES ASSUME WakeupInv, PopWaits PROVE WakeupInv'
  OBVIOUS
<1> USE DEF PopWaits
<1>1. /\ at \in [Goroutine -> {"idle", "enter", "waiting", "writing", "gone"}]
      /\ waiters \in Seq(Goroutine) /\ Writer \in Goroutine
  BY DEF WakeupInv, QueueTypes, Goroutine
<1>2. /\ \A f \in Flusher : at'[f] # "waiting"
      /\ at'[Writer] = "waiting" /\ waiters' = <<Writer>>
      /\ at' \in [Goroutine -> {"idle", "enter", "waiting", "writing", "gone"}]
  <2>1. CASE busy
    <3>1. BroadcastThen(Writer, "waiting", <<Writer>>)
      BY <2>1 DEF PopWakes
    <3>2. at' \in [Goroutine -> {"idle", "enter", "waiting", "writing", "gone"}]
      BY <1>1, <3>1 DEF BroadcastThen
    <3> QED
      BY <3>1, <3>2, BroadcastWakesAll
  <2>2. CASE ~busy
    <3>1. waiters' = waiters \o <<Writer>> /\ at' = [at EXCEPT ![Writer] = "waiting"]
      BY <2>2 DEF PopWakes
    <3>2. waiters = <<>> /\ \A g \in Goroutine : at[g] # "waiting"
      BY <2>2, IdleQueueHasNoSleeper
    <3>3. waiters' = <<Writer>>
      BY <1>1, <3>1, <3>2
    <3>4. \A f \in Flusher : f \in Goroutine /\ f # Writer
      BY InputQueueAssumption DEF Goroutine
    <3> QED
      BY <1>1, <3>1, <3>2, <3>3, <3>4
  <2>3. busy \in BOOLEAN
    BY DEF WakeupInv, QueueTypes
  <2> QED
    BY <2>1, <2>2, <2>3
<1>3. WaitersSleep' /\ FlushersSleepForReason' /\ waiters' \in Seq(Goroutine)
  BY <1>2, OnlyTheWriter
<1>4. WriterSleepsAlone'
  BY <1>2 DEF WriterSleepsAlone
<1>5. QueueTypes'
  BY <1>2, <1>3 DEF WakeupInv, QueueTypes
<1> QED
  BY <1>3, <1>4, <1>5 DEF WakeupInv

LEMMA PopEndsWakeupInv == WakeupInv /\ PopEnds => WakeupInv'
<1> SUFFICES ASSUME WakeupInv, PopEnds PROVE WakeupInv'
  OBVIOUS
<1> USE DEF PopEnds
<1>1. /\ at \in [Goroutine -> {"idle", "enter", "waiting", "writing", "gone"}]
      /\ waiters \in Seq(Goroutine) /\ Writer \in Goroutine
  BY DEF WakeupInv, QueueTypes, Goroutine
<1>2. /\ \A f \in Flusher : at'[f] # "waiting"
      /\ at'[Writer] = "gone" /\ waiters' = <<>>
      /\ at' \in [Goroutine -> {"idle", "enter", "waiting", "writing", "gone"}]
  <2>1. CASE busy
    <3>1. BroadcastThen(Writer, "gone", <<>>)
      BY <2>1 DEF PopWakes
    <3>2. at' \in [Goroutine -> {"idle", "enter", "waiting", "writing", "gone"}]
      BY <1>1, <3>1 DEF BroadcastThen
    <3> QED
      BY <3>1, <3>2, BroadcastWakesAll
  <2>2. CASE ~busy
    <3>1. waiters' = waiters \o <<>> /\ at' = [at EXCEPT ![Writer] = "gone"]
      BY <2>2 DEF PopWakes
    <3>2. waiters = <<>> /\ \A g \in Goroutine : at[g] # "waiting"
      BY <2>2, IdleQueueHasNoSleeper
    <3>3. waiters' = <<>>
      BY <1>1, <3>1, <3>2
    <3>4. \A f \in Flusher : f \in Goroutine /\ f # Writer
      BY InputQueueAssumption DEF Goroutine
    <3> QED
      BY <1>1, <3>1, <3>2, <3>3, <3>4
  <2>3. busy \in BOOLEAN
    BY DEF WakeupInv, QueueTypes
  <2> QED
    BY <2>1, <2>2, <2>3
<1>3. WaitersSleep' /\ FlushersSleepForReason' /\ waiters' \in Seq(Goroutine)
  <2>1. at'[Writer] # "waiting"
    BY <1>2
  <2> QED
    BY <1>2, <2>1, NotEvenTheWriter
<1>4. WriterSleepsAlone'
  BY <1>2 DEF WriterSleepsAlone
<1>5. QueueTypes'
  BY <1>2, <1>3 DEF WakeupInv, QueueTypes
<1> QED
  BY <1>3, <1>4, <1>5 DEF WakeupInv

LEMMA PopTakesWakeupInv == WakeupInv /\ PopTakes => WakeupInv'
<1> SUFFICES ASSUME WakeupInv, PopTakes PROVE WakeupInv'
  OBVIOUS
<1> USE DEF PopTakes
<1>1. /\ at \in [Goroutine -> {"idle", "enter", "waiting", "writing", "gone"}]
      /\ waiters \in Seq(Goroutine) /\ Writer \in Goroutine
      /\ busy \in BOOLEAN /\ chunks \in Seq(Chunk \cup {NoChunk})
  BY DEF WakeupInv, QueueTypes, Goroutine
<1>2. chunks' \in Seq(Chunk \cup {NoChunk})
  BY <1>1
<1>3. CASE busy
  <2>1. BroadcastThen(Writer, "writing", <<>>)
    BY <1>3 DEF PopWakes
  <2>2. at' \in [Goroutine -> {"idle", "enter", "waiting", "writing", "gone"}]
    BY <1>1, <2>1 DEF BroadcastThen
  <2>3. /\ \A f \in Flusher : at'[f] # "waiting"
        /\ at'[Writer] = "writing" /\ waiters' = <<>>
    BY <2>1, BroadcastWakesAll
  <2>4. WaitersSleep' /\ FlushersSleepForReason' /\ waiters' \in Seq(Goroutine)
    BY <2>2, <2>3, NotEvenTheWriter
  <2>5. WriterSleepsAlone'
    BY <2>3 DEF WriterSleepsAlone
  <2>6. QueueTypes'
    BY <1>2, <2>2, <2>4 DEF WakeupInv, QueueTypes
  <2> QED
    BY <2>4, <2>5, <2>6 DEF WakeupInv
<1>4. CASE ~busy
  <2>1. waiters' = waiters \o <<>> /\ at' = [at EXCEPT ![Writer] = "writing"]
    BY <1>4 DEF PopWakes
  <2>2. waiters' = waiters
    BY <1>1, <2>1
  <2>3. \A g \in Goroutine : at'[g] = "waiting" <=> at[g] = "waiting"
    BY <1>1, <2>1
  <2>4. WaitersSleep'
    <3>1. \A i \in DOMAIN waiters : waiters[i] \in Goroutine
      BY <1>1
    <3> QED
      BY <2>2, <2>3, <3>1 DEF WakeupInv, WaitersSleep
  <2>5. WriterSleepsAlone'
    BY <1>1, <2>1 DEF WriterSleepsAlone
  <2>6. FlushersSleepForReason'
    <3>1. \A f \in Flusher : f \in Goroutine
      BY DEF Goroutine
    <3> QED
      BY <2>3, <3>1 DEF WakeupInv, FlushersSleepForReason, Undrained
  <2>7. QueueTypes'
    BY <1>1, <1>2, <2>1, <2>2 DEF WakeupInv, QueueTypes
  <2> QED
    BY <2>4, <2>5, <2>6, <2>7 DEF WakeupInv
<1> QED
  BY <1>1, <1>3, <1>4

(* A goroutine that is awake goes on, without going to sleep.              *)
LEMMA AwakeStaysAwake ==
  ASSUME WakeupInv, NEW g \in Goroutine,
         NEW where \in {"idle", "enter", "writing", "gone"},
         at[g] # "waiting", at' = [at EXCEPT ![g] = where],
         UNCHANGED <<chunks, busy, closed, waiters, offer>>
  PROVE  WakeupInv'
<1>1. /\ at \in [Goroutine -> {"idle", "enter", "waiting", "writing", "gone"}]
      /\ waiters \in Seq(Goroutine)
  BY DEF WakeupInv, QueueTypes
<1>2. \A h \in Goroutine : at'[h] = "waiting" <=> at[h] = "waiting"
  BY <1>1
<1>3. WaitersSleep'
  <2>1. \A i \in DOMAIN waiters : waiters[i] \in Goroutine
    BY <1>1
  <2> QED
    BY <1>2, <2>1 DEF WakeupInv, WaitersSleep
<1>4. WriterSleepsAlone' /\ FlushersSleepForReason'
  BY <1>2 DEF WakeupInv, WriterSleepsAlone, FlushersSleepForReason, Undrained, Goroutine
<1>5. QueueTypes'
  BY <1>1 DEF WakeupInv, QueueTypes
<1> QED
  BY <1>3, <1>4, <1>5 DEF WakeupInv

(* drain: a caller goes to sleep behind the others, for a reason; the      *)
(* writer does not sleep then.                                             *)
LEMMA DrainWakeupInv ==
  ASSUME WakeupInv, NEW f \in Flusher, Drain(f)
  PROVE  WakeupInv'
<1> USE DEF Drain, queueVars
<1>1. /\ at \in [Goroutine -> {"idle", "enter", "waiting", "writing", "gone"}]
      /\ waiters \in Seq(Goroutine)
      /\ f \in Goroutine /\ f # Writer /\ Writer \in Goroutine
  BY InputQueueAssumption DEF WakeupInv, QueueTypes, Goroutine
<1>2. CASE ~Undrained
  <2>1. at' = [at EXCEPT ![f] = "idle"] /\ waiters' = waiters
    BY <1>2
  <2>2. UNCHANGED <<chunks, busy, closed, waiters, offer>> /\ at[f] # "waiting"
    BY <2>1
  <2> QED
    BY <1>1, <2>1, <2>2, AwakeStaysAwake
<1>3. CASE Undrained
  <2>1. at' = [at EXCEPT ![f] = "waiting"] /\ waiters' = Append(waiters, f)
    BY <1>3
  <2>2. at[Writer] # "waiting" /\ at'[Writer] # "waiting"
    BY <1>1, <1>3, <2>1 DEF WakeupInv, WriterSleepsAlone, Undrained
  <2>3. QueueTypes'
    BY <1>1, <2>1 DEF WakeupInv, QueueTypes
  <2>4. \A i \in DOMAIN waiters' :
          \/ i \in DOMAIN waiters /\ waiters'[i] = waiters[i] /\ waiters[i] \in Goroutine
          \/ i = Len(waiters) + 1 /\ i \notin DOMAIN waiters /\ waiters'[i] = f
    BY <1>1, <2>1
  <2>5. /\ \A i \in DOMAIN waiters : i \in DOMAIN waiters' /\ waiters'[i] = waiters[i]
        /\ Len(waiters) + 1 \in DOMAIN waiters' /\ waiters'[Len(waiters) + 1] = f
    BY <1>1, <2>1
  <2>6. \A i \in DOMAIN waiters : waiters[i] # f
    BY DEF WakeupInv, WaitersSleep
  <2>7. WaitersSleep'
    <3>1. \A i \in DOMAIN waiters' : at'[waiters'[i]] = "waiting"
      BY <1>1, <2>1, <2>4, <2>6 DEF WakeupInv, WaitersSleep
    <3>2. ASSUME NEW g \in Goroutine, at'[g] = "waiting"
          PROVE  \E i \in DOMAIN waiters' : waiters'[i] = g
      <4>1. CASE g = f
        BY <2>5, <4>1
      <4>2. CASE g # f
        <5>1. at[g] = "waiting"
          BY <1>1, <2>1, <3>2, <4>2
        <5> QED
          BY <2>5, <5>1 DEF WakeupInv, WaitersSleep
      <4> QED
        BY <4>1, <4>2
    <3>3. \A i, j \in DOMAIN waiters' : waiters'[i] = waiters'[j] => i = j
      BY <2>4, <2>6 DEF WakeupInv, WaitersSleep
    <3> QED
      BY <3>1, <3>2, <3>3 DEF WaitersSleep
  <2>8. WriterSleepsAlone'
    BY <2>2 DEF WriterSleepsAlone
  <2>9. FlushersSleepForReason'
    BY <1>3 DEF FlushersSleepForReason, Undrained
  <2> QED
    BY <2>3, <2>7, <2>8, <2>9 DEF WakeupInv
<1> QED
  BY <1>2, <1>3

(* close: everybody wakes.                                                 *)
LEMMA CloseWakeupInv == WakeupInv /\ CloseQueue => WakeupInv'
<1> SUFFICES ASSUME WakeupInv, CloseQueue PROVE WakeupInv'
  OBVIOUS
<1> USE DEF CloseQueue
<1>1. at \in [Goroutine -> {"idle", "enter", "waiting", "writing", "gone"}]
  BY DEF WakeupInv, QueueTypes
<1>2. /\ \A g \in Goroutine : at'[g] # "waiting"
      /\ at' \in [Goroutine -> {"idle", "enter", "waiting", "writing", "gone"}]
  BY <1>1
<1>3. chunks' \in Seq(Chunk \cup {NoChunk}) /\ waiters' \in Seq(Goroutine)
  OBVIOUS
<1>4. QueueTypes'
  BY <1>2, <1>3 DEF WakeupInv, QueueTypes
<1> QED
  BY <1>2, <1>4, NobodySleeps

(* Every step keeps the invariant.                                         *)
LEMMA NextWakeupInv == WakeupInv /\ [Next]_vars => WakeupInv'
<1> SUFFICES ASSUME WakeupInv, [Next]_vars PROVE WakeupInv'
  OBVIOUS
<1>1. ASSUME NEW bounded \in BOOLEAN, Offers(bounded) PROVE WakeupInv'
  <2>1. offer' \in [chunk : Chunk \cup {NoChunk}, bounded : BOOLEAN]
    BY <1>1 DEF Offers, NoOffer
  <2>2. UNCHANGED <<chunks, busy, closed, waiters, at>>
    BY <1>1 DEF Offers, queueVars
  <2> QED
    BY <2>1, <2>2 DEF WakeupInv, QueueTypes, WaitersSleep, WriterSleepsAlone,
       FlushersSleepForReason, Undrained
<1>2. CASE Push
  BY <1>2, PushWakeupInv
<1>3. CASE PopWaits
  BY <1>3, PopWaitsWakeupInv
<1>4. CASE PopTakes
  BY <1>4, PopTakesWakeupInv
<1>5. CASE PopEnds
  BY <1>5, PopEndsWakeupInv
<1>6. CASE WriteReturns
  BY <1>6, AwakeStaysAwake DEF WriteReturns, queueVars, Goroutine
<1>7. CASE WriteErrs
  BY <1>7, AwakeStaysAwake DEF WriteErrs, queueVars, Goroutine
<1>8. ASSUME NEW f \in Flusher, FlushInput(f) PROVE WakeupInv'
  BY <1>8, AwakeStaysAwake DEF FlushInput, queueVars, Goroutine
<1>9. ASSUME NEW f \in Flusher, Drain(f) PROVE WakeupInv'
  BY <1>9, DrainWakeupInv
<1>10. CASE Ends
  BY <1>10, WakeupInvStutters DEF Ends, queueVars
<1>11. CASE MarkExited
  BY <1>11, WakeupInvStutters DEF MarkExited, queueVars
<1>12. CASE CloseQueue
  BY <1>12, CloseWakeupInv
<1>13. CASE UNCHANGED vars
  BY <1>13, WakeupInvStutters DEF vars, queueVars
<1> QED
  BY <1>1, <1>2, <1>3, <1>4, <1>5, <1>6, <1>7, <1>8, <1>9, <1>10, <1>11, <1>12, <1>13
     DEF Next, Pop

(* No wakeup is ever lost: neither the writer nor a caller of FlushInput   *)
(* sleeps while it has something to do (inputQueue).                       *)
THEOREM NoLostWakeupInvariance == Spec => []NoLostWakeup
<1>1. WakeupInv => NoLostWakeup
  BY DEF WakeupInv, WriterSleepsAlone, FlushersSleepForReason, NoLostWakeup
<1> QED
  BY InitWakeupInv, NextWakeupInv, <1>1, PTL DEF Spec

-----------------------------------------------------------------------------
(***************************************************************************)
(* Input is queued and written in order, nothing is left out, and it is    *)
(* counted right.                                                          *)
(*                                                                         *)
(* InputComplete says what the queue and the history hold; that the writer *)
(* has no chunk in hand when it takes the next one (HandInv), and that a   *)
(* closed queue stays empty, is what its steps need.  Whether a wakeup     *)
(* finds the writer empty-handed needs that only sleepers are woken        *)
(* (WakeupInv).                                                            *)
(***************************************************************************)

InputTypes ==
  /\ chunks \in Seq(Chunk) /\ accepted \in Seq(Chunk) /\ written \in Seq(Chunk)
  /\ inHand \in Chunk \cup {NoChunk}
  /\ offer = NoOffer \/ offer.chunk \in Chunk

HandInv ==
  /\ at[Writer] = "writing" => inHand # NoChunk
  /\ at[Writer] \in {"enter", "waiting"} => inHand = NoChunk
  /\ inHand # NoChunk => busy

InputInv ==
  /\ WakeupInv /\ InputTypes /\ HandInv
  /\ closed => chunks = <<>>
  /\ WrittenInOrder
  /\ IsFiniteSet(BytesOf(chunks)) /\ BytesCounted

(* Sequences.                                                              *)
LEMMA AppendLast ==
  ASSUME NEW s \in Seq(Chunk), NEW t \in Seq(Chunk), NEW c \in Chunk
  PROVE  s \o Append(t, c) = Append(s \o t, c) /\ Append(s, c) = s \o <<c>>
  OBVIOUS

LEMMA MoveHead ==
  ASSUME NEW s \in Seq(Chunk), NEW t \in Seq(Chunk), t # <<>>
  PROVE  s \o t = (s \o <<Head(t)>>) \o Tail(t)
  OBVIOUS

LEMMA PrefixOfConcat ==
  ASSUME NEW s \in Seq(Chunk), NEW t \in Seq(Chunk)
  PROVE  IsPrefix(s, s \o t)
<1>1. Len(s) <= Len(s \o t) /\ SubSeq(s, 1, Len(s)) = SubSeq(s \o t, 1, Len(s))
  OBVIOUS
<1> QED BY <1>1 DEF IsPrefix

LEMMA PrefixOfAppend ==
  ASSUME NEW s \in Seq(Chunk), NEW t \in Seq(Chunk), NEW c \in Chunk, IsPrefix(s, t)
  PROVE  IsPrefix(s, Append(t, c))
<1>1. Len(s) <= Len(Append(t, c)) /\ SubSeq(s, 1, Len(s)) = SubSeq(Append(t, c), 1, Len(s))
  BY DEF IsPrefix
<1> QED BY <1>1 DEF IsPrefix

(* What the writer has in hand, as a sequence.                             *)
LEMMA HandIsSequence ==
  ASSUME InputTypes
  PROVE  InHand \in Seq(Chunk) /\ written \o InHand \in Seq(Chunk)
<1>1. InHand \in Seq(Chunk)
  BY DEF InputTypes, InHand
<1> QED BY <1>1 DEF InputTypes

(* Counting.                                                               *)
LEMMA ChunkBytes ==
  ASSUME NEW i \in Nat, NEW n \in Nat
  PROVE  IsFiniteSet({i} \X (1 .. n)) /\ Cardinality({i} \X (1 .. n)) = n
<1>1. IsFiniteSet(1 .. n) /\ Cardinality(1 .. n) = n
  BY FS_Interval
<1>2. IsFiniteSet({i}) /\ Cardinality({i}) = 1
  BY FS_Singleton
<1>3. /\ IsFiniteSet({i} \X (1 .. n))
      /\ Cardinality({i} \X (1 .. n)) = Cardinality({i}) * Cardinality(1 .. n)
  BY <1>1, <1>2, FS_Product
<1> QED BY <1>1, <1>2, <1>3

LEMMA SizeOfChunk == \A c \in Chunk : Size[c] \in Nat
  BY InputQueueAssumption DEF Chunk

(* One chunk more at the end of the queue ...                              *)
LEMMA BytesOfAppend ==
  ASSUME NEW q \in Seq(Chunk), NEW c \in Chunk, IsFiniteSet(BytesOf(q))
  PROVE  /\ IsFiniteSet(BytesOf(Append(q, c)))
         /\ Cardinality(BytesOf(Append(q, c))) = Cardinality(BytesOf(q)) + Size[c]
<1> DEFINE more == {Len(q) + 1} \X (1 .. Size[c])
           a == Append(q, c)
<1>1. IsFiniteSet(more) /\ Cardinality(more) = Size[c]
  <2>1. Len(q) + 1 \in Nat /\ Size[c] \in Nat
    BY SizeOfChunk
  <2> QED BY <2>1, ChunkBytes
<1>2. /\ DOMAIN q = 1 .. Len(q) /\ DOMAIN a = 1 .. (Len(q) + 1) /\ Len(q) \in Nat
      /\ a[Len(q) + 1] = c /\ \A i \in DOMAIN q : a[i] = q[i]
  OBVIOUS
<1> HIDE DEF a
<1>3. BytesOf(a) = BytesOf(q) \cup more
  <2>1. DOMAIN a = DOMAIN q \cup {Len(q) + 1}
    BY <1>2
  <2> QED BY <1>2, <2>1 DEF BytesOf
<1>4. BytesOf(q) \cap more = {}
  BY <1>2 DEF BytesOf
<1> HIDE DEF more
<1>5. /\ IsFiniteSet(BytesOf(q) \cup more)
      /\ Cardinality(BytesOf(q) \cup more)
           = Cardinality(BytesOf(q)) + Cardinality(more) - Cardinality(BytesOf(q) \cap more)
  BY <1>1, FS_Union
<1>6. Cardinality(BytesOf(q)) \in Nat /\ Cardinality({}) = 0 /\ Size[c] \in Nat
  BY FS_CardinalityType, FS_EmptySet, SizeOfChunk
<1>7. /\ IsFiniteSet(BytesOf(a))
      /\ Cardinality(BytesOf(a)) = Cardinality(BytesOf(q)) + Size[c]
  <2>1. Cardinality(BytesOf(q) \cap more) = 0
    BY <1>4, <1>6
  <2>2. Cardinality(BytesOf(a)) = Cardinality(BytesOf(q)) + Size[c] - 0
    BY <1>1, <1>3, <1>5, <2>1
  <2> QED BY <1>3, <1>5, <1>6, <2>2
<1> QED BY <1>7 DEF a

(* ... and one less at its head, where the others move up.                 *)
LEMMA BytesOfTail ==
  ASSUME NEW q \in Seq(Chunk), q # <<>>, IsFiniteSet(BytesOf(q))
  PROVE  /\ IsFiniteSet(BytesOf(Tail(q)))
         /\ Cardinality(BytesOf(Tail(q))) = Cardinality(BytesOf(q)) - Size[Head(q)]
<1> DEFINE first == {1} \X (1 .. Size[Head(q)])
           t == Tail(q)
           rest == BytesOf(q) \ first
           up == [x \in rest |-> <<x[1] - 1, x[2]>>]
<1>1. /\ DOMAIN q = 1 .. Len(q) /\ Len(q) \in Nat \ {0} /\ DOMAIN t = 1 .. (Len(q) - 1)
      /\ q[1] = Head(q) /\ Head(q) \in Chunk
      /\ \A i \in DOMAIN t : t[i] = q[i + 1]
  OBVIOUS
<1>2. IsFiniteSet(first) /\ Cardinality(first) = Size[Head(q)]
  BY <1>1, ChunkBytes, SizeOfChunk
<1>3. first \subseteq BytesOf(q)
  BY <1>1 DEF BytesOf
<1>4. /\ IsFiniteSet(rest)
      /\ Cardinality(rest) = Cardinality(BytesOf(q)) - Cardinality(BytesOf(q) \cap first)
  BY FS_Difference
<1>5. BytesOf(q) \cap first = first
  BY <1>3
<1> HIDE DEF t
<1>6. ASSUME NEW i, NEW k
      PROVE  /\ <<i, k>> \in rest <=> i \in 2 .. Len(q) /\ k \in 1 .. Size[q[i]]
             /\ <<i, k>> \in BytesOf(t) <=> i \in 1 .. (Len(q) - 1) /\ k \in 1 .. Size[q[i + 1]]
  BY <1>1 DEF BytesOf
<1>7. ASSUME NEW x \in rest PROVE \E i \in 2 .. Len(q), k \in Nat : x = <<i, k>>
  <2>1. PICK i \in DOMAIN q : x \in {i} \X (1 .. Size[q[i]])
    BY <1>7 DEF BytesOf
  <2>2. PICK k \in 1 .. Size[q[i]] : x = <<i, k>>
    BY <2>1
  <2> QED BY <1>6, <2>2
<1>8. ASSUME NEW y \in BytesOf(t) PROVE \E i \in 1 .. (Len(q) - 1), k \in Nat : y = <<i, k>>
  <2>1. PICK i \in DOMAIN t : y \in {i} \X (1 .. Size[t[i]])
    BY <1>8 DEF BytesOf
  <2>2. PICK k \in 1 .. Size[t[i]] : y = <<i, k>>
    BY <2>1
  <2> QED BY <1>6, <2>2
<1> HIDE DEF rest, first
<1>9. up \in [rest -> BytesOf(t)]
  <2>1. ASSUME NEW x \in rest PROVE <<x[1] - 1, x[2]>> \in BytesOf(t)
    <3>1. PICK i \in 2 .. Len(q), k \in Nat : x = <<i, k>>
      BY <1>7
    <3>2. i - 1 \in 1 .. (Len(q) - 1) /\ (i - 1) + 1 = i
      BY <1>1
    <3>3. k \in 1 .. Size[q[i]]
      BY <1>6, <3>1
    <3> QED BY <1>6, <3>1, <3>2, <3>3
  <2> QED BY <2>1
<1>10. ASSUME NEW x \in rest, NEW y \in rest, up[x] = up[y] PROVE x = y
  BY <1>7, <1>10
<1>11. ASSUME NEW y \in BytesOf(t) PROVE \E x \in rest : up[x] = y
  <2>1. PICK i \in 1 .. (Len(q) - 1), k \in Nat : y = <<i, k>>
    BY <1>8
  <2>2. i + 1 \in 2 .. Len(q) /\ (i + 1) - 1 = i
    BY <1>1
  <2>3. <<i + 1, k>> \in rest
    BY <1>6, <2>1, <2>2
  <2> QED BY <2>1, <2>2, <2>3
<1> HIDE DEF up
<1>12. up \in Bijection(rest, BytesOf(t))
  BY <1>9, <1>10, <1>11 DEF Bijection, Injection, Surjection, IsInjective
<1>13. IsFiniteSet(BytesOf(t)) /\ Cardinality(BytesOf(t)) = Cardinality(rest)
  BY <1>4, <1>12, FS_Bijection DEF ExistsBijection
<1> QED BY <1>2, <1>4, <1>5, <1>13 DEF t

LEMMA NoBytes == IsFiniteSet(BytesOf(<<>>)) /\ Cardinality(BytesOf(<<>>)) = 0
<1>1. BytesOf(<<>>) = {}
  BY DEF BytesOf
<1> QED BY <1>1, FS_EmptySet

LEMMA InitInputInv == Init => InputInv
<1> SUFFICES ASSUME Init PROVE InputInv
  OBVIOUS
<1>1. WakeupInv
  BY InitWakeupInv
<1>2. InputTypes
  BY DEF Init, InputTypes
<1>3. at[Writer] = "enter"
  BY DEF Init, Goroutine
<1>4. HandInv
  BY <1>3 DEF Init, HandInv
<1>5. WrittenInOrder
  <2>1. InHand = <<>> /\ <<>> \in Seq(Chunk)
    BY DEF Init, InHand
  <2>2. <<>> \o <<>> = <<>>
    OBVIOUS
  <2>3. IsPrefix(<<>>, <<>>)
    BY DEF IsPrefix
  <2> QED BY <2>1, <2>2, <2>3 DEF Init, WrittenInOrder
<1> QED BY <1>1, <1>2, <1>4, <1>5, NoBytes DEF Init, InputInv, BytesCounted

(* A step that leaves the input alone and moves the writer at most from    *)
(* its sleep.                                                              *)
LEMMA InputStays ==
  ASSUME InputInv, WakeupInv', UNCHANGED <<chunks, bytes, busy, closed, inHand, accepted, written>>,
         offer' = NoOffer \/ offer'.chunk \in Chunk,
         at'[Writer] = at[Writer] \/ (at[Writer] = "waiting" /\ at'[Writer] = "enter")
           \/ at'[Writer] = "gone"
  PROVE  InputInv'
<1>1. InputTypes' /\ HandInv'
  BY DEF InputInv, InputTypes, HandInv
<1>2. WrittenInOrder'
  BY DEF InputInv, WrittenInOrder, InHand
<1>3. BytesCounted' /\ IsFiniteSet(BytesOf(chunks'))
  BY DEF InputInv, BytesCounted
<1> QED BY <1>1, <1>2, <1>3 DEF InputInv

LEMMA PushInputInv == InputInv /\ Push => InputInv'
<1> SUFFICES ASSUME InputInv, Push PROVE InputInv'
  OBVIOUS
<1>1. WakeupInv'
  BY PushWakeupInv DEF InputInv
<1>2. at'[Writer] = at[Writer] \/ (at[Writer] = "waiting" /\ at'[Writer] = "enter")
  <2>1. CASE waiters = <<>> \/ PushRefused(offer.chunk, offer.bounded)
    BY <2>1 DEF Push, Enqueue, Signal
  <2>2. CASE waiters # <<>> /\ ~PushRefused(offer.chunk, offer.bounded)
    <3>1. waiters[1] \in Goroutine /\ 1 \in DOMAIN waiters /\ Head(waiters) = waiters[1]
      BY <2>2 DEF InputInv, WakeupInv, QueueTypes
    <3>2. at[waiters[1]] = "waiting"
      BY <3>1 DEF InputInv, WakeupInv, WaitersSleep
    <3>3. at' = [at EXCEPT ![waiters[1]] = "enter"]
      BY <2>2, <3>1 DEF Push, Enqueue, Signal
    <3>4. at \in [Goroutine -> {"idle", "enter", "waiting", "writing", "gone"}]
      BY DEF InputInv, WakeupInv, QueueTypes
    <3> QED BY <3>1, <3>2, <3>3, <3>4 DEF Goroutine
  <2> QED BY <2>1, <2>2
<1>3. CASE PushRefused(offer.chunk, offer.bounded)
  BY <1>1, <1>2, <1>3, InputStays DEF Push
<1>4. CASE ~PushRefused(offer.chunk, offer.bounded)
  <2> DEFINE c == offer.chunk
  <2>1. /\ chunks' = Append(chunks, c) /\ accepted' = Append(accepted, c)
        /\ bytes' = bytes + Size[c] /\ c \in Chunk /\ ~closed
        /\ UNCHANGED <<busy, closed, inHand, written>> /\ offer' = NoOffer
    BY <1>4 DEF Push, Enqueue, PushRefused, InputInv, InputTypes
  <2>2. InputTypes' /\ HandInv'
    BY <1>2, <2>1 DEF InputInv, InputTypes, HandInv
  <2>3. /\ written \o InHand \in Seq(Chunk) /\ InHand' = InHand
        /\ chunks \in Seq(Chunk) /\ accepted \in Seq(Chunk)
    BY <2>1, HandIsSequence DEF InputInv, InputTypes, InHand
  <2>4. WrittenInOrder'
    <3>1. IsPrefix(written \o InHand, Append(accepted, c))
      BY <2>1, <2>3, PrefixOfAppend DEF InputInv, WrittenInOrder
    <3>2. (written \o InHand) \o Append(chunks, c) = Append(accepted, c)
      <4>1. PICK s \in Seq(Chunk) : s = written \o InHand
        BY <2>3
      <4>2. s \o chunks = accepted
        BY <2>1, <4>1 DEF InputInv, WrittenInOrder
      <4>3. s \o Append(chunks, c) = Append(s \o chunks, c)
        BY <2>1, <2>3, AppendLast
      <4> QED BY <4>1, <4>2, <4>3
    <3> QED BY <2>1, <2>3, <3>1, <3>2 DEF WrittenInOrder
  <2>5. IsFiniteSet(BytesOf(chunks')) /\ BytesCounted'
    BY <2>1, <2>3, BytesOfAppend DEF InputInv, BytesCounted
  <2> QED BY <1>1, <2>1, <2>2, <2>4, <2>5 DEF InputInv
<1> QED BY <1>3, <1>4

(* pop, whether or not it broadcasts, sends the writer where it goes.      *)
LEMMA PopMoves ==
  ASSUME InputInv, NEW where \in {"waiting", "writing", "gone"}, NEW queue,
         PopWakes(where, queue)
  PROVE  at'[Writer] = where
<1>1. CASE busy
  BY <1>1, BroadcastWakesAll DEF PopWakes, InputInv
<1>2. CASE ~busy
  BY <1>2 DEF PopWakes, InputInv, WakeupInv, QueueTypes, Goroutine
<1> QED BY <1>1, <1>2

LEMMA PopIdlesInputInv ==
  ASSUME InputInv, PopWaits \/ PopEnds
  PROVE  InputInv'
<1>1. WakeupInv'
  BY PopWaitsWakeupInv, PopEndsWakeupInv DEF InputInv
<1>2. /\ at[Writer] = "enter" /\ at'[Writer] \in {"waiting", "gone"} /\ inHand = NoChunk
      /\ UNCHANGED <<chunks, bytes, closed, inHand, offer, accepted, written>>
  BY PopMoves DEF PopWaits, PopEnds, InputInv, HandInv
<1>3. InputTypes' /\ HandInv'
  BY <1>2 DEF InputInv, InputTypes, HandInv
<1>4. WrittenInOrder' /\ BytesCounted' /\ IsFiniteSet(BytesOf(chunks'))
  BY <1>2 DEF InputInv, WrittenInOrder, InHand, BytesCounted
<1> QED BY <1>1, <1>2, <1>3, <1>4 DEF InputInv

LEMMA PopTakesInputInv == InputInv /\ PopTakes => InputInv'
<1> SUFFICES ASSUME InputInv, PopTakes PROVE InputInv'
  OBVIOUS
<1>1. WakeupInv'
  BY PopTakesWakeupInv DEF InputInv
<1>2. /\ at[Writer] = "enter" /\ at'[Writer] = "writing" /\ busy' = TRUE
      /\ inHand = NoChunk /\ chunks # <<>> /\ ~closed
      /\ inHand' = Head(chunks) /\ chunks' = Tail(chunks)
      /\ bytes' = bytes - Size[Head(chunks)]
      /\ UNCHANGED <<closed, offer, accepted, written>>
  BY PopMoves DEF PopTakes, InputInv, HandInv
<1>3. /\ chunks \in Seq(Chunk) /\ written \in Seq(Chunk) /\ accepted \in Seq(Chunk)
      /\ Head(chunks) \in Chunk /\ Tail(chunks) \in Seq(Chunk) /\ Head(chunks) # NoChunk
  BY <1>2, InputQueueAssumption DEF InputInv, InputTypes, Chunk
<1>4. InputTypes' /\ HandInv'
  BY <1>2, <1>3 DEF InputInv, InputTypes, HandInv
<1>5. WrittenInOrder'
  <2> DEFINE s == written \o <<Head(chunks)>>
  <2>1. s \in Seq(Chunk)
    BY <1>3
  <2>2. InHand = <<>> /\ InHand' = <<Head(chunks)>>
    BY <1>2, <1>3 DEF InHand
  <2>3. written \o chunks = accepted
    BY <1>2, <1>3, <2>2 DEF InputInv, WrittenInOrder
  <2>4. s \o Tail(chunks) = accepted
    BY <1>2, <1>3, <2>3, MoveHead
  <2>5. IsPrefix(s, accepted)
    <3>1. IsPrefix(s, s \o Tail(chunks))
      BY <1>3, <2>1, PrefixOfConcat
    <3> QED BY <2>4, <3>1
  <2> QED BY <1>2, <2>2, <2>4, <2>5 DEF WrittenInOrder
<1>6. IsFiniteSet(BytesOf(chunks')) /\ BytesCounted'
  BY <1>2, <1>3, BytesOfTail DEF InputInv, BytesCounted
<1> QED BY <1>1, <1>2, <1>4, <1>5, <1>6 DEF InputInv

LEMMA WriteReturnsInputInv == InputInv /\ WriteReturns => InputInv'
<1> SUFFICES ASSUME InputInv, WriteReturns PROVE InputInv'
  OBVIOUS
<1>1. WakeupInv'
  BY AwakeStaysAwake DEF InputInv, WriteReturns, queueVars, Goroutine
<1>2. /\ at[Writer] = "writing" /\ at'[Writer] = "enter"
      /\ inHand \in Chunk /\ inHand # NoChunk /\ inHand' = NoChunk
      /\ written' = Append(written, inHand)
      /\ UNCHANGED <<chunks, bytes, busy, closed, offer, accepted>>
  BY DEF WriteReturns, InputInv, InputTypes, HandInv, WakeupInv, QueueTypes, queueVars, Goroutine
<1>3. InputTypes' /\ HandInv'
  BY <1>2 DEF InputInv, InputTypes, HandInv
<1>4. WrittenInOrder'
  <2>1. written' \o InHand' = written \o InHand
    <3>1. InHand = <<inHand>> /\ InHand' = <<>>
      BY <1>2 DEF InHand
    <3>2. written \in Seq(Chunk) /\ Append(written, inHand) \in Seq(Chunk)
      BY <1>2 DEF InputInv, InputTypes
    <3>3. Append(written, inHand) \o <<>> = written \o <<inHand>>
      BY <1>2, <3>2, AppendLast
    <3> QED BY <1>2, <3>1, <3>3
  <2> QED BY <1>2, <2>1 DEF InputInv, WrittenInOrder
<1>5. BytesCounted' /\ IsFiniteSet(BytesOf(chunks'))
  BY <1>2 DEF InputInv, BytesCounted
<1> QED BY <1>1, <1>2, <1>3, <1>4, <1>5 DEF InputInv

(* The end discards what is queued.                                        *)
LEMMA CloseInputInv == InputInv /\ CloseQueue => InputInv'
<1> SUFFICES ASSUME InputInv, CloseQueue PROVE InputInv'
  OBVIOUS
<1>1. WakeupInv'
  BY CloseWakeupInv DEF InputInv
<1>2. /\ closed' = TRUE /\ chunks' = <<>> /\ bytes' = 0
      /\ UNCHANGED <<busy, inHand, offer, accepted, written>>
      /\ at'[Writer] = at[Writer] \/ (at[Writer] = "waiting" /\ at'[Writer] = "enter")
  BY DEF CloseQueue, Goroutine
<1>3. InputTypes' /\ HandInv'
  BY <1>2 DEF InputInv, InputTypes, HandInv
<1>4. WrittenInOrder' /\ BytesCounted' /\ IsFiniteSet(BytesOf(chunks'))
  BY <1>2, NoBytes DEF InputInv, WrittenInOrder, InHand, BytesCounted
<1> QED BY <1>1, <1>2, <1>3, <1>4 DEF InputInv

LEMMA NextInputInv == InputInv /\ [Next]_vars => InputInv'
<1> SUFFICES ASSUME InputInv, [Next]_vars PROVE InputInv'
  OBVIOUS
<1>0. /\ WakeupInv' /\ Writer \in Goroutine
      /\ \A f \in Flusher : f \in Goroutine /\ f # Writer
      /\ at \in [Goroutine -> {"idle", "enter", "waiting", "writing", "gone"}]
      /\ offer = NoOffer \/ offer.chunk \in Chunk
  BY NextWakeupInv, InputQueueAssumption
     DEF InputInv, InputTypes, WakeupInv, QueueTypes, Goroutine
<1>1. ASSUME NEW bounded \in BOOLEAN, Offers(bounded) PROVE InputInv'
  <2>1. offer' = NoOffer \/ offer'.chunk \in Chunk
    BY <1>1 DEF Offers
  <2> QED BY <1>0, <1>1, <2>1, InputStays DEF Offers, queueVars
<1>2. CASE Push
  BY <1>2, PushInputInv
<1>3. CASE Pop
  BY <1>3, PopIdlesInputInv, PopTakesInputInv DEF Pop
<1>4. CASE WriteReturns
  BY <1>4, WriteReturnsInputInv
<1>5. CASE WriteErrs
  BY <1>0, <1>5, InputStays DEF WriteErrs, queueVars
<1>6. ASSUME NEW f \in Flusher, FlushInput(f) \/ Drain(f) PROVE InputInv'
  <2>1. at'[Writer] = at[Writer]
    BY <1>0, <1>6 DEF FlushInput, Drain
  <2> QED BY <1>0, <1>6, <2>1, InputStays DEF FlushInput, Drain, queueVars
<1>7. CASE Ends \/ MarkExited \/ UNCHANGED vars
  BY <1>0, <1>7, InputStays DEF Ends, MarkExited, vars, queueVars
<1>8. CASE CloseQueue
  BY <1>8, CloseInputInv
<1> QED BY <1>1, <1>2, <1>3, <1>4, <1>5, <1>6, <1>7, <1>8 DEF Next

LEMMA InputInvariance == Spec => []InputInv
  BY InitInputInv, NextInputInv, PTL DEF Spec

(* What is typed is written in that order, with nothing left out while the *)
(* pane lives, and the bound of TryWrite sees what is queued.              *)
THEOREM InputAccountedFor == Spec => []InputComplete
<1>1. InputInv => InputComplete
  BY DEF InputInv, InputComplete
<1> QED BY <1>1, InputInvariance, PTL

(* FlushInput returns for a live pane only when the child has been handed  *)
(* everything that was accepted.                                           *)
THEOREM FlushInputWaits == Spec => FlushWaits
<1>1. InputInv /\ [Next]_vars =>
        [\A f \in Flusher : Drain(f) /\ at'[f] = "idle" /\ ~closed => written = accepted]_vars
  <2> SUFFICES ASSUME InputInv, NEW f \in Flusher, Drain(f), at'[f] = "idle", ~closed
               PROVE  written = accepted
    OBVIOUS
  <2>1. ~Undrained
    BY DEF Drain, InputInv, WakeupInv, QueueTypes, Goroutine
  <2>2. chunks = <<>> /\ InHand = <<>>
    BY <2>1 DEF Undrained, InputInv, HandInv, InHand
  <2>3. (written \o <<>>) \o <<>> = accepted /\ written \in Seq(Chunk)
    BY <2>2 DEF InputInv, WrittenInOrder, InputTypes
  <2> QED BY <2>3
<1> QED BY <1>1, InputInvariance, PTL DEF Spec, FlushWaits

-----------------------------------------------------------------------------
(* The pane and its two parts.                                             *)

Marks == exited \in BOOLEAN /\ ended \in BOOLEAN

LEMMA InitMarks == PaneInit => Marks
  BY DEF PaneInit, Init, Marks

(* Neither side takes the mark of a pane back.                             *)
LEMMA ScreenRaises ==
  ASSUME exited \in BOOLEAN, S!Next
  PROVE  exited' \in BOOLEAN /\ (exited => exited')
<1> USE DEF S!vars
<1>1. CASE S!Feed \/ S!ProcessEnds \/ S!Receive
  BY <1>1 DEF S!Feed, S!ProcessEnds, S!Receive
<1>2. CASE S!FeederStep
  BY <1>2 DEF S!FeederStep, S!Notify, S!FeederEnds, S!FeederCloses
<1>3. CASE S!LoopStep
  BY <1>3 DEF S!LoopStep, S!PaneStarted, S!PaneUpdate, S!PaneEnds, S!HolderExit,
              S!LoopCloses, S!QuitConnection
<1>4. CASE S!ClosePane \/ S!QuitPane
  BY <1>4 DEF S!ClosePane, S!QuitPane
<1> QED
  BY <1>1, <1>2, <1>3, <1>4 DEF S!Next

(* What the input's side sees of a step of the screen's side.              *)
LEMMA ScreenStepIsSeen ==
  ASSUME Marks, S!Next, Seen
  PROVE  Marks' /\ [Next]_vars
<1>1. exited' \in BOOLEAN /\ (exited => exited')
  BY ScreenRaises DEF Marks
<1>2. ended' \in BOOLEAN /\ (ended => ended') /\ (exited' => ended')
  BY <1>1 DEF Seen, Marks
<1>3. UNCHANGED <<queueVars, waiters, at, inHand, offer, next, accepted, written>>
  BY DEF Seen, inputVars
<1>4. CASE ~exited /\ exited'
  BY <1>1, <1>2, <1>3, <1>4 DEF MarkExited, Next, Marks
<1>5. CASE exited' = exited /\ ~ended /\ ended'
  BY <1>2, <1>3, <1>5 DEF Ends, Next, Marks
<1>6. CASE exited' = exited /\ ended' = ended
  BY <1>1, <1>2, <1>3, <1>6 DEF vars, Marks
<1> QED
  BY <1>1, <1>2, <1>4, <1>5, <1>6 DEF Marks

(* Every step of a pane is a step or a stutter of the input queue.         *)
LEMMA PaneStepIsQueueStep == Marks /\ [PaneNext]_paneVars => Marks' /\ [Next]_vars
<1> SUFFICES ASSUME Marks, [PaneNext]_paneVars PROVE Marks' /\ [Next]_vars
  OBVIOUS
<1>1. CASE Typing
  BY <1>1 DEF Typing, Offers, Next, Marks
<1>2. CASE Writing
  <2>1. CASE Push
    BY <2>1 DEF Push, Next, Marks
  <2>2. CASE Pop
    BY <2>2 DEF Pop, PopWaits, PopTakes, PopEnds, Next, Marks
  <2>3. CASE WriterReturns
    BY <2>3 DEF WriterReturns, WriteReturns, WriteErrs, Next, Marks
  <2>4. ASSUME NEW f \in Flusher, FlushInput(f) \/ Drain(f) PROVE Marks' /\ [Next]_vars
    BY <2>4 DEF FlushInput, Drain, Next, Marks
  <2> QED
    BY <1>2, <2>1, <2>2, <2>3, <2>4 DEF Writing
<1>3. CASE Feeding
  BY <1>3, ScreenStepIsSeen DEF Feeding, S!Next
<1>4. CASE Looping
  BY <1>4, ScreenStepIsSeen DEF Looping, S!Next
<1>5. CASE Closing
  BY <1>5 DEF Closing, CloseQueue, Next, Marks
<1>6. CASE UNCHANGED paneVars
  BY <1>6 DEF paneVars, inputVars, vars, Marks
<1> QED
  BY <1>1, <1>2, <1>3, <1>4, <1>5, <1>6 DEF PaneNext

(* Every step of a pane is a step or a stutter of the screen's side.       *)
LEMMA PaneStepIsScreenStep == [PaneNext]_paneVars => [S!Next]_(S!vars)
<1> SUFFICES ASSUME [PaneNext]_paneVars PROVE [S!Next]_(S!vars)
  OBVIOUS
<1> USE DEF S!vars, screenVars
<1>1. CASE Typing
  BY <1>1 DEF Typing, Offers
<1>2. CASE Writing
  <2>1. exited' = exited
    BY <1>2 DEF Writing, Push, Pop, PopWaits, PopTakes, PopEnds, WriterReturns,
                WriteReturns, WriteErrs, FlushInput, Drain
  <2> QED
    BY <1>2, <2>1 DEF Writing
<1>3. CASE Feeding
  BY <1>3 DEF Feeding, S!Next
<1>4. CASE Looping
  BY <1>4 DEF Looping, S!Next
<1>5. CASE Closing
  BY <1>5 DEF Closing, CloseQueue
<1>6. CASE UNCHANGED paneVars
  BY <1>6 DEF paneVars
<1> QED
  BY <1>1, <1>2, <1>3, <1>4, <1>5, <1>6 DEF PaneNext

(* A pane is an input queue whose end comes from the screen's side, and a  *)
(* way to the screen whose update loop types as well.                      *)
THEOREM PaneImplementsParts == PaneSpec => ImplementsParts
<1>1. PaneInit => Init /\ S!Init
  BY DEF PaneInit
<1> QED
  BY <1>1, InitMarks, PaneStepIsQueueStep, PaneStepIsScreenStep, PTL
     DEF PaneSpec, ImplementsParts, Spec, S!Spec

(* So nobody sleeps through its signal in a pane either, with any number   *)
(* of flushing goroutines, while the pane is drawn, closed and marked.     *)
THEOREM PaneNoLostWakeup == PaneSpec => []NoLostWakeup
  BY PaneImplementsParts, NoLostWakeupInvariance, PTL DEF ImplementsParts

(* A pane's input is written in order, complete and counted, too ...       *)
THEOREM PaneInputComplete == PaneSpec => []InputComplete
  BY PaneImplementsParts, InputAccountedFor, PTL DEF ImplementsParts

(* ... and its FlushInput waits for it.                                    *)
THEOREM PaneFlushWaits == PaneSpec => FlushWaits
  BY PaneImplementsParts, FlushInputWaits, PTL DEF ImplementsParts

-----------------------------------------------------------------------------
(* Only its own reader marks a local pane, after its last notify.          *)
LocalInv ==
  kind = "local" =>
    /\ ~marking /\ ~exitMsg /\ feeder # "panicked"
    /\ S!Closed => exited
    /\ exited <=> feeder \in {"marks", "gone"}

LEMMA InitLocalInv == S!Init => LocalInv
  BY DEF S!Init, S!Closed, LocalInv

LEMMA NextLocalInv == LocalInv /\ [S!Next]_(S!vars) => LocalInv'
<1> SUFFICES ASSUME LocalInv, [S!Next]_(S!vars) PROVE LocalInv'
  OBVIOUS
<1> USE DEF LocalInv, S!Closed
<1>1. CASE S!Feed \/ S!ProcessEnds
  BY <1>1 DEF S!Feed, S!ProcessEnds
<1>2. CASE S!Notify
  BY <1>2 DEF S!Notify
<1>3. CASE S!FeederEnds
  BY <1>3 DEF S!FeederEnds
<1>4. CASE S!FeederCloses
  BY <1>4 DEF S!FeederCloses
<1>5. CASE S!Receive
  BY <1>5 DEF S!Receive
<1>6. CASE S!PaneStarted
  BY <1>6 DEF S!PaneStarted
<1>7. CASE S!PaneUpdate \/ S!PaneEnds
  BY <1>7 DEF S!PaneUpdate, S!PaneEnds
<1>8. CASE S!HolderExit \/ S!LoopCloses
  BY <1>8 DEF S!HolderExit, S!LoopCloses
<1>9. CASE S!QuitConnection
  BY <1>9 DEF S!QuitConnection
<1>10. CASE S!ClosePane \/ S!QuitPane
  BY <1>10 DEF S!ClosePane, S!QuitPane
<1>11. CASE UNCHANGED S!vars
  BY <1>11 DEF S!vars
<1> QED
  BY <1>1, <1>2, <1>3, <1>4, <1>5, <1>6, <1>7, <1>8, <1>9, <1>10, <1>11
     DEF S!Next, S!FeederStep, S!LoopStep

(* The reader of a local pane never sends on its closed channel (notify,   *)
(* MarkExited), however much output it has and whenever the pane is typed  *)
(* into, closed or quit.                                                   *)
THEOREM PaneLocalNeverPanics == PaneSpec => []LocalNeverPanics
<1>1. LocalInv => LocalNeverPanics
  BY DEF LocalInv, LocalNeverPanics, S!LocalNeverPanics, S!NoSendOnClosed
<1>2. S!Spec => []LocalInv
  BY InitLocalInv, NextLocalInv, PTL DEF S!Spec
<1> QED
  BY <1>1, <1>2, PaneImplementsParts, PTL DEF ImplementsParts

-----------------------------------------------------------------------------
(***************************************************************************)
(* What is not drawn is on its way to the screen.  RedrawPending is not    *)
(* inductive: a goroutine that waits may see the end of the channel, and a *)
(* goroutine that has output may find it closed.  Neither happens to a     *)
(* pane that is shown before the program quits, because whoever closes the *)
(* channel then does it after the last output.                             *)
(***************************************************************************)
AfterOutput == S!Closed \/ marking \/ exitMsg \/ listener = "tellsEnd"

RedrawInv ==
  /\ content \in Int /\ updates \in {"empty", "token", "closed", "closedToken"}
  /\ quit = "no" =>
       /\ feeder # "panicked"
       /\ AfterOutput => feeder = "gone"
       /\ pane = "starting" => listener = "none"
       /\ pane = "shown" => listener # "none"
       /\ listener \in {"none", "waits", "tells", "tellsEnd"}
       /\ S!RedrawPending

LEMMA InitRedrawInv == S!Init => RedrawInv
  BY DEF S!Init, S!Closed, AfterOutput, RedrawInv, S!RedrawPending

LEMMA NextRedrawInv == RedrawInv /\ [S!Next]_(S!vars) => RedrawInv'
<1> SUFFICES ASSUME RedrawInv, [S!Next]_(S!vars) PROVE RedrawInv'
  OBVIOUS
<1> USE DEF RedrawInv, S!RedrawPending, AfterOutput, S!Closed
<1>1. CASE S!Feed
  BY <1>1 DEF S!Feed
<1>2. CASE S!ProcessEnds
  BY <1>2 DEF S!ProcessEnds
<1>3. CASE S!Notify
  BY <1>3 DEF S!Notify
<1>4. CASE S!FeederEnds
  BY <1>4 DEF S!FeederEnds
<1>5. CASE S!FeederCloses
  BY <1>5 DEF S!FeederCloses, S!Shut
<1>6. CASE S!Receive
  BY <1>6 DEF S!Receive
<1>7. CASE S!PaneStarted
  BY <1>7 DEF S!PaneStarted, S!LoopFree, S!Shut
<1>8. CASE S!PaneUpdate
  BY <1>8 DEF S!PaneUpdate
<1>9. CASE S!PaneEnds
  BY <1>9 DEF S!PaneEnds
<1>10. CASE S!HolderExit
  BY <1>10 DEF S!HolderExit
<1>11. CASE S!LoopCloses
  BY <1>11 DEF S!LoopCloses, S!Shut
<1>12. CASE S!QuitConnection
  BY <1>12 DEF S!QuitConnection
<1>13. CASE S!ClosePane \/ S!QuitPane
  BY <1>13 DEF S!ClosePane, S!QuitPane
<1>14. CASE UNCHANGED S!vars
  BY <1>14 DEF S!vars
<1> QED
  BY <1>1, <1>2, <1>3, <1>4, <1>5, <1>6, <1>7, <1>8, <1>9, <1>10, <1>11, <1>12, <1>13, <1>14
     DEF S!Next, S!FeederStep, S!LoopStep

(* No wakeup of the screen is lost: whatever a shown pane has written and  *)
(* the screen does not show has a token in the channel, a goroutine about  *)
(* to leave one, or a message on its way to the update loop (notify,       *)
(* waitForUpdate), for every kind of pane and any amount of output.  That  *)
(* the message is then handled is OutputDrawn, under fairness.             *)
THEOREM UndrawnIsPending == PaneSpec => []RedrawPending
<1>1. RedrawInv => RedrawPending
  BY DEF RedrawInv, RedrawPending, S!RedrawPending
<1>2. S!Spec => []RedrawInv
  BY InitRedrawInv, NextRedrawInv, PTL DEF S!Spec
<1> QED
  BY <1>1, <1>2, PaneImplementsParts, PTL DEF ImplementsParts

-----------------------------------------------------------------------------
(***************************************************************************)
(* The emulator and the window on its scrollback: after every sequence of  *)
(* the program, of every size, with every history and every count, the     *)
(* cursor is inside, the window stays on what it shows, a full-screen      *)
(* program leaves the shell's lines alone and no half of a wide glyph      *)
(* remains.                                                                *)
(*                                                                         *)
(* The invariant, ViewInv, says that between two sequences the terminal is *)
(* Ready: typed, with both screens of the size it says, an ordered region  *)
(* and the cursor inside.  Within a sequence it is less (Ordered, once the *)
(* cursor is restored; Unscrolled, once the size is new), so there is one  *)
(* lemma per operator of the emulator, on the weakest terminal the         *)
(* operator meets, and what a step does is put together from them.         *)
(***************************************************************************)

Cell == {Blank, Narrow, Wide, Dummy}
LineOf(c) == [0 .. c - 1 -> Cell]
Line == UNION {LineOf(c) : c \in Nat \ {0}}
Grid(c, k) == [0 .. k - 1 -> LineOf(c)]
Cursor == [x : Int, y : Int, wrapNext : BOOLEAN, origin : BOOLEAN]

(* Terminals of c columns and k rows.                                      *)
Terminal(c, k) ==
    [cols : {c}, rows : {k}, lines : Grid(c, k), altLines : Grid(c, k), cur : Cursor, saved : Cursor,
     top : 0 .. k - 1, bottom : 0 .. k - 1, mode : SUBSET {"wrap", "crlf", "alt"}, tabs : SUBSET Nat,
     history : Seq(Line), serial : Nat]

(* With a region whose first line is not below its last.                    *)
Ordered(c, k) == {t \in Terminal(c, k) : t.top <= t.bottom}

Inside(t) ==
    /\ t.cur.x \in 0 .. t.cols - 1
    /\ t.cur.y \in IF t.cur.origin THEN t.top .. t.bottom ELSE 0 .. t.rows - 1

Ready(c, k) == {t \in Ordered(c, k) : Inside(t)}

(* r is t with lines added to the scrollback: it has a line under the same *)
(* serial number, or has dropped it.                                       *)
Grown(t, r) ==
    /\ t.serial <= r.serial /\ Dropped(t) <= Dropped(r)
    /\ \A p \in Dropped(r) + 1 .. t.serial : r.history[p - Dropped(r)] = t.history[p - Dropped(t)]

(* What drawing leaves alone: the screen that is not shown and, while that *)
(* is the shell's, the scrollback.                                         *)
Kept(t, r) ==
    /\ r.altLines = t.altLines /\ (AltScreen(r) <=> AltScreen(t))
    /\ AltScreen(t) => r.history = t.history
    /\ Grown(t, r)

(* ... and it cuts no glyph in two.                                        *)
Sound(t, r) == Kept(t, r) /\ (Whole(t) => Whole(r))

LEMMA ClampBounds ==
  ASSUME NEW v \in Int, NEW low \in Int, NEW high \in Int, low <= high
  PROVE  Clamp(v, low, high) \in low .. high /\ (v \in low .. high => Clamp(v, low, high) = v)
  BY DEF Clamp

LEMMA ClampCell ==
  ASSUME NEW c \in Nat \ {0}, NEW v \in Int
  PROVE  Clamp(v, 0, c - 1) \in 0 .. c - 1
<1>1. c - 1 \in Int /\ 0 <= c - 1
  OBVIOUS
<1> QED
  BY <1>1, ClampBounds

LEMMA ClampCount ==
  ASSUME NEW d \in Nat, NEW v \in Int
  PROVE  Clamp(v, 0, d) \in 0 .. d
  BY ClampBounds

LEMMA Fields ==
  ASSUME NEW c \in Nat \ {0}, NEW k \in Nat \ {0}, NEW t \in Terminal(c, k)
  PROVE  /\ t.cols = c /\ t.rows = k /\ t.cur \in Cursor /\ t.saved \in Cursor
         /\ t.lines \in Grid(c, k) /\ t.altLines \in Grid(c, k)
         /\ t.top \in 0 .. k - 1 /\ t.bottom \in 0 .. k - 1 /\ t.history \in Seq(Line)
         /\ t.tabs \in SUBSET Nat /\ t.mode \in SUBSET {"wrap", "crlf", "alt"}
  BY DEF Terminal

LEMMA Serials ==
  ASSUME NEW c \in Nat \ {0}, NEW k \in Nat \ {0}, NEW t \in Terminal(c, k)
  PROVE  t.serial \in Nat /\ Len(t.history) \in Nat /\ Dropped(t) \in Int
<1>1. t.serial \in Nat /\ Len(t.history) \in Nat
  BY DEF Terminal
<1> QED
  BY <1>1 DEF Dropped

LEMMA KeptSame ==
  ASSUME NEW c \in Nat \ {0}, NEW k \in Nat \ {0}, NEW t \in Terminal(c, k), NEW r \in Terminal(c, k),
         r.altLines = t.altLines, r.mode = t.mode, r.history = t.history, r.serial = t.serial
  PROVE  Kept(t, r)
<1>1. t.history \in Seq(Line) /\ t.serial \in Nat /\ Len(t.history) \in Nat
  BY DEF Terminal
<1> QED
  BY <1>1 DEF Kept, Grown, Dropped, AltScreen

(* One sequence after another.                                             *)
LEMMA GrownOn ==
  ASSUME NEW c \in Nat \ {0}, NEW k \in Nat \ {0}, NEW t \in Terminal(c, k), NEW u \in Terminal(c, k),
         NEW r \in Terminal(c, k), Grown(t, u), Grown(u, r)
  PROVE  Grown(t, r)
<1>1. /\ t.serial \in Nat /\ u.serial \in Nat /\ r.serial \in Nat
      /\ Dropped(t) \in Int /\ Dropped(u) \in Int /\ Dropped(r) \in Int
  BY Serials
<1>2. t.serial <= r.serial /\ Dropped(t) <= Dropped(r)
  BY <1>1 DEF Grown
<1>3. ASSUME NEW p \in Dropped(r) + 1 .. t.serial
      PROVE  r.history[p - Dropped(r)] = t.history[p - Dropped(t)]
  <2>1. p \in Dropped(r) + 1 .. u.serial /\ p \in Dropped(u) + 1 .. t.serial
    BY <1>1 DEF Grown
  <2> QED
    BY <2>1 DEF Grown
<1> QED
  BY <1>2, <1>3 DEF Grown

LEMMA KeptOn ==
  ASSUME NEW c \in Nat \ {0}, NEW k \in Nat \ {0}, NEW t \in Terminal(c, k), NEW u \in Terminal(c, k),
         NEW r \in Terminal(c, k), Kept(t, u), Kept(u, r)
  PROVE  Kept(t, r)
  BY GrownOn DEF Kept

LEMMA SoundSame ==
  ASSUME NEW c \in Nat \ {0}, NEW k \in Nat \ {0}, NEW t \in Terminal(c, k), NEW r \in Terminal(c, k),
         r.lines = t.lines, r.altLines = t.altLines, r.mode = t.mode, r.history = t.history,
         r.serial = t.serial
  PROVE  Sound(t, r)
  BY KeptSame DEF Sound, Whole

LEMMA SoundOn ==
  ASSUME NEW c \in Nat \ {0}, NEW k \in Nat \ {0}, NEW t \in Terminal(c, k), NEW u \in Terminal(c, k),
         NEW r \in Terminal(c, k), Sound(t, u), Sound(u, r)
  PROVE  Sound(t, r)
  BY KeptOn DEF Sound

-----------------------------------------------------------------------------
(* The cursor.                                                             *)

LEMMA WithCursor ==
  ASSUME NEW c \in Nat \ {0}, NEW k \in Nat \ {0}, NEW t \in Terminal(c, k), NEW new \in Cursor
  PROVE  /\ [t EXCEPT !.cur = new] \in Terminal(c, k) /\ [t EXCEPT !.cur = new].cur = new
         /\ [t EXCEPT !.cur = new].lines = t.lines /\ [t EXCEPT !.cur = new].top = t.top
         /\ [t EXCEPT !.cur = new].bottom = t.bottom /\ [t EXCEPT !.cur = new].saved = t.saved
         /\ [t EXCEPT !.cur = new].history = t.history /\ [t EXCEPT !.cur = new].serial = t.serial
         /\ Sound(t, [t EXCEPT !.cur = new])
<1>1. /\ [t EXCEPT !.cur = new] \in Terminal(c, k) /\ [t EXCEPT !.cur = new].cur = new
      /\ [t EXCEPT !.cur = new].lines = t.lines /\ [t EXCEPT !.cur = new].top = t.top
      /\ [t EXCEPT !.cur = new].bottom = t.bottom /\ [t EXCEPT !.cur = new].saved = t.saved
      /\ [t EXCEPT !.cur = new].altLines = t.altLines /\ [t EXCEPT !.cur = new].mode = t.mode
      /\ [t EXCEPT !.cur = new].history = t.history /\ [t EXCEPT !.cur = new].serial = t.serial
  BY DEF Terminal
<1>2. Sound(t, [t EXCEPT !.cur = new])
  BY <1>1, SoundSame
<1> QED
  BY <1>1, <1>2

LEMMA MoveToDraws ==
  ASSUME NEW c \in Nat \ {0}, NEW k \in Nat \ {0}, NEW t \in Ordered(c, k), NEW x \in Int, NEW y \in Int
  PROVE  /\ MoveTo(t, x, y) \in Ready(c, k) /\ Sound(t, MoveTo(t, x, y))
         /\ MoveTo(t, x, y).lines = t.lines /\ MoveTo(t, x, y).top = t.top
         /\ MoveTo(t, x, y).bottom = t.bottom /\ MoveTo(t, x, y).cur.origin = t.cur.origin
         /\ MoveTo(t, x, y).cur.wrapNext = FALSE
<1> DEFINE cx == Clamp(x, 0, t.cols - 1)
           cy == IF t.cur.origin THEN Clamp(y, t.top, t.bottom) ELSE Clamp(y, 0, t.rows - 1)
           new == [x |-> cx, y |-> cy, wrapNext |-> FALSE, origin |-> t.cur.origin]
           r == [t EXCEPT !.cur = new]
<1>t. t \in Terminal(c, k) /\ t.top <= t.bottom
  BY DEF Ordered
<1>1. t.cols = c /\ t.rows = k /\ t.top \in 0 .. k - 1 /\ t.bottom \in 0 .. k - 1 /\ t.cur \in Cursor
  BY <1>t, Fields
<1>2. cx \in 0 .. c - 1
  BY <1>1, ClampCell
<1>3. Clamp(y, t.top, t.bottom) \in t.top .. t.bottom
  <2>1. t.top \in Int /\ t.bottom \in Int
    BY <1>1
  <2> QED
    BY <2>1, <1>t, ClampBounds
<1>4. Clamp(y, 0, t.rows - 1) \in 0 .. k - 1
  BY <1>1, ClampCell
<1>5. cy \in (IF t.cur.origin THEN t.top .. t.bottom ELSE 0 .. k - 1) /\ cy \in Int
  BY <1>1, <1>3, <1>4
<1>6. MoveTo(t, x, y) = r
  BY DEF MoveTo
<1> HIDE DEF cx, cy
<1>7. new \in Cursor /\ new.x = cx /\ new.y = cy /\ new.origin = t.cur.origin /\ new.wrapNext = FALSE
  BY <1>1, <1>2, <1>5 DEF Cursor
<1> HIDE DEF new
<1>8. /\ r \in Terminal(c, k) /\ r.cur = new /\ r.lines = t.lines /\ r.top = t.top /\ r.bottom = t.bottom
      /\ r.history = t.history /\ r.serial = t.serial /\ Sound(t, r)
  BY <1>t, <1>7, WithCursor
<1> HIDE DEF r
<1>9. r.cols = c /\ r.rows = k
  <2>1. r \in Terminal(c, k)
    BY <1>8
  <2> QED
    BY <2>1 DEF Terminal
<1>10. r \in Ordered(c, k)
  BY <1>8, <1>t DEF Ordered
<1>11. Inside(r)
  BY <1>2, <1>5, <1>7, <1>8, <1>9 DEF Inside
<1> QED
  BY <1>6, <1>7, <1>8, <1>10, <1>11 DEF Ready

-----------------------------------------------------------------------------
(* Cells and lines.                                                        *)

LEMMA WithLines ==
  ASSUME NEW c \in Nat \ {0}, NEW k \in Nat \ {0}, NEW t \in Terminal(c, k), NEW ls \in Grid(c, k)
  PROVE  /\ [t EXCEPT !.lines = ls] \in Terminal(c, k) /\ [t EXCEPT !.lines = ls].lines = ls
         /\ [t EXCEPT !.lines = ls].cur = t.cur /\ [t EXCEPT !.lines = ls].top = t.top
         /\ [t EXCEPT !.lines = ls].bottom = t.bottom /\ [t EXCEPT !.lines = ls].saved = t.saved
         /\ Kept(t, [t EXCEPT !.lines = ls])
         /\ (Whole(t) => \A y \in 0 .. k - 1 : WholeLine(ls[y])) => Sound(t, [t EXCEPT !.lines = ls])
<1> DEFINE r == [t EXCEPT !.lines = ls]
<1>1. /\ r \in Terminal(c, k) /\ r.lines = ls
      /\ r.cur = t.cur /\ r.top = t.top /\ r.bottom = t.bottom /\ r.saved = t.saved
      /\ r.altLines = t.altLines /\ r.mode = t.mode /\ r.history = t.history /\ r.serial = t.serial
  BY DEF Terminal
<1> HIDE DEF r
<1>2. Kept(t, r)
  BY <1>1, KeptSame
<1>3. DOMAIN ls = 0 .. k - 1
  BY DEF Grid
<1>4. (Whole(t) => \A y \in 0 .. k - 1 : WholeLine(ls[y])) => (Whole(t) => Whole(r))
  BY <1>1, <1>3 DEF Whole
<1>5. (Whole(t) => \A y \in 0 .. k - 1 : WholeLine(ls[y])) => Sound(t, r)
  BY <1>2, <1>4 DEF Sound
<1> QED
  BY <1>1, <1>2, <1>5 DEF r

LEMMA BlankLineWhole ==
  ASSUME NEW c \in Nat \ {0}
  PROVE  BlankLine(c) \in LineOf(c) /\ WholeLine(BlankLine(c))
  BY DEF BlankLine, LineOf, Cell, WholeLine, Blank, Wide, Dummy

LEMMA WideClearedLine ==
  ASSUME NEW c \in Nat \ {0}, NEW l \in LineOf(c), NEW x \in 0 .. c - 1
  PROVE  WideCleared(l, x) \in LineOf(c)
  BY DEF WideCleared, LineOf, Cell

LEMMA ErasedLine ==
  ASSUME NEW c \in Nat \ {0}, NEW l \in LineOf(c), NEW x0 \in 0 .. c - 1, NEW x1 \in 0 .. c - 1
  PROVE  Erased(l, x0, x1) \in LineOf(c)
<1>1. WideCleared(WideCleared(l, x0), x1) \in LineOf(c)
  BY WideClearedLine
<1> DEFINE w == WideCleared(WideCleared(l, x0), x1)
<1> HIDE DEF w
<1>2. w \in [0 .. c - 1 -> Cell] /\ DOMAIN l = 0 .. c - 1
  BY <1>1 DEF LineOf, w
<1>3. [i \in DOMAIN l |-> IF i \in x0 .. x1 THEN Blank ELSE w[i]] \in [0 .. c - 1 -> Cell]
  BY <1>2 DEF Cell
<1> QED
  BY <1>3 DEF Erased, LineOf, w

(* What a line with no half of a glyph looks like after the cells from x0  *)
(* to x1 are erased.                                                       *)
LEMMA ErasedWhole ==
  ASSUME NEW c \in Nat \ {0}, NEW l \in LineOf(c), NEW x0 \in 0 .. c - 1, NEW x1 \in 0 .. c - 1,
         x0 <= x1, WholeLine(l)
  PROVE  WholeLine(Erased(l, x0, x1))
<1> DEFINE w == WideCleared(l, x0)
           e == Erased(l, x0, x1)
<1>1. DOMAIN l = 0 .. c - 1 /\ DOMAIN w = 0 .. c - 1 /\ DOMAIN e = 0 .. c - 1
  BY DEF LineOf, WideCleared, Erased
<1>2. ASSUME NEW i \in 0 .. c - 1
      PROVE  w[i] = IF \/ i = x0 + 1 /\ l[x0] = Wide /\ l[i] = Dummy
                       \/ i = x0 - 1 /\ l[x0] = Dummy /\ l[i] = Wide THEN Blank ELSE l[i]
  BY <1>1 DEF WideCleared
<1>3. ASSUME NEW i \in 0 .. c - 1
      PROVE  e[i] = IF i \in x0 .. x1 THEN Blank
                    ELSE IF \/ i = x1 + 1 /\ w[x1] = Wide /\ w[i] = Dummy
                            \/ i = x1 - 1 /\ w[x1] = Dummy /\ w[i] = Wide THEN Blank ELSE w[i]
  BY <1>1 DEF WideCleared, Erased
<1> HIDE DEF w, e
<1>4. ASSUME NEW i \in 0 .. c - 1
      PROVE  /\ l[i] = Wide => i + 1 \in 0 .. c - 1 /\ l[i + 1] = Dummy
             /\ l[i] = Dummy => i - 1 \in 0 .. c - 1 /\ l[i - 1] = Wide
  BY <1>1 DEF WholeLine
<1>5. Wide # Dummy /\ Blank # Wide /\ Blank # Dummy
  BY DEF Wide, Dummy, Blank
<1>6. ASSUME NEW i \in 0 .. c - 1
      PROVE  e[i] = IF \/ i \in x0 .. x1
                       \/ i = x0 - 1 /\ l[x0] = Dummy
                       \/ i = x1 + 1 /\ l[x1] = Wide THEN Blank ELSE l[i]
  <2>1. CASE i \in x0 .. x1
    BY <1>3, <2>1
  <2>2. CASE i < x0
    BY <1>2, <1>3, <1>4, <1>5, <2>2
  <2>3. CASE i > x1
    BY <1>2, <1>3, <1>4, <1>5, <2>3
  <2> QED
    BY <2>1, <2>2, <2>3
<1>7. ASSUME NEW i \in 0 .. c - 1
      PROVE  /\ e[i] = Wide => i + 1 \in 0 .. c - 1 /\ e[i + 1] = Dummy
             /\ e[i] = Dummy => i - 1 \in 0 .. c - 1 /\ e[i - 1] = Wide
  BY <1>4, <1>5, <1>6
<1>8. WholeLine(e)
  BY <1>1, <1>7 DEF WholeLine
<1> QED
  BY <1>8 DEF e

LEMMA ClearDraws ==
  ASSUME NEW c \in Nat \ {0}, NEW k \in Nat \ {0}, NEW t \in Terminal(c, k),
         NEW x0 \in Int, NEW y0 \in Int, NEW x1 \in Int, NEW y1 \in Int
  PROVE  /\ Clear(t, x0, y0, x1, y1) \in Terminal(c, k)
         /\ Clear(t, x0, y0, x1, y1).cur = t.cur /\ Clear(t, x0, y0, x1, y1).saved = t.saved
         /\ Clear(t, x0, y0, x1, y1).top = t.top /\ Clear(t, x0, y0, x1, y1).bottom = t.bottom
         /\ Kept(t, Clear(t, x0, y0, x1, y1))
         /\ x0 <= x1 => Sound(t, Clear(t, x0, y0, x1, y1))
<1> DEFINE a == Clamp(x0, 0, c - 1)
           b == Clamp(x1, 0, c - 1)
           ls == [y \in DOMAIN t.lines |-> IF y \in y0 .. y1 THEN Erased(t.lines[y], a, b) ELSE t.lines[y]]
<1>1. t.cols = c /\ t.lines \in Grid(c, k)
  BY Fields
<1>2. Clear(t, x0, y0, x1, y1) = [t EXCEPT !.lines = ls]
  BY <1>1 DEF Clear
<1>3. a \in 0 .. c - 1 /\ b \in 0 .. c - 1
  BY ClampCell
<1>4. x0 <= x1 => a <= b
  BY DEF Clamp
<1> HIDE DEF a, b
<1>5. \A y \in 0 .. k - 1 : t.lines[y] \in LineOf(c)
  BY <1>1 DEF Grid
<1>6. \A y \in 0 .. k - 1 : Erased(t.lines[y], a, b) \in LineOf(c)
  BY <1>3, <1>5, ErasedLine
<1>7. DOMAIN t.lines = 0 .. k - 1
  BY <1>1 DEF Grid
<1>8. ls \in Grid(c, k)
  BY <1>5, <1>6, <1>7 DEF Grid
<1>9. ASSUME x0 <= x1, Whole(t), NEW y \in 0 .. k - 1
      PROVE  WholeLine(ls[y])
  <2>1. WholeLine(t.lines[y])
    BY <1>7, <1>9 DEF Whole
  <2>2. WholeLine(Erased(t.lines[y], a, b))
    BY <1>3, <1>4, <1>5, <1>9, <2>1, ErasedWhole
  <2> QED
    BY <1>7, <2>1, <2>2
<1> HIDE DEF ls
<1> QED
  BY <1>2, <1>8, <1>9, WithLines

-----------------------------------------------------------------------------
(* The scrollback.                                                         *)

(* The cap keeps the last lines.                                           *)
LEMMA NewestSuffix ==
  ASSUME NEW T, NEW seq \in Seq(T)
  PROVE  /\ Newest(seq) \in Seq(T) /\ Len(Newest(seq)) <= Len(seq)
         /\ \A i \in 1 .. Len(Newest(seq)) : Newest(seq)[i] = seq[i + Len(seq) - Len(Newest(seq))]
         /\ Len(seq) <= HistoryLimit => Newest(seq) = seq
         /\ Len(seq) > HistoryLimit => Len(Newest(seq)) = HistoryLimit
<1> DEFINE m == 1 + (IF Len(seq) > HistoryLimit THEN Len(seq) - HistoryLimit ELSE 0)
<1>1. HistoryLimit \in Nat \ {0} /\ Len(seq) \in Nat
  BY EmulatorAssumption
<1>2. m \in 1 .. Len(seq) + 1 /\ (Len(seq) <= HistoryLimit => m = 1)
      /\ (Len(seq) > HistoryLimit => m = Len(seq) - HistoryLimit + 1)
  BY <1>1
<1> HIDE DEF m
<1>3. SubSeq(seq, m, Len(seq)) = [i \in 1 .. Len(seq) - m + 1 |-> seq[i + m - 1]]
  BY <1>1, <1>2
<1>4. Newest(seq) = [i \in 1 .. Len(seq) - m + 1 |-> seq[i + m - 1]]
  BY <1>3 DEF Newest, m
<1>5. Newest(seq) \in Seq(T) /\ Len(Newest(seq)) = Len(seq) - m + 1
  BY <1>1, <1>2, <1>4, IsASeq, ElementOfSeq
<1> QED
  BY <1>1, <1>2, <1>4, <1>5

LEMMA JoinAt ==
  ASSUME NEW T, NEW a \in Seq(T), NEW b \in Seq(T)
  PROVE  /\ a \o b \in Seq(T) /\ Len(a \o b) = Len(a) + Len(b)
         /\ \A i \in 1 .. Len(a) + Len(b) : (a \o b)[i] = IF i <= Len(a) THEN a[i] ELSE b[i - Len(a)]
  OBVIOUS

LEMMA LessLess ==
  ASSUME NEW p \in Int, NEW a \in Int, NEW b \in Int
  PROVE  p - (a - b) = p - a + b
OBVIOUS

(* A line keeps its serial number, whether or not the cap takes others.    *)
LEMMA PushedGrows ==
  ASSUME NEW c \in Nat \ {0}, NEW k \in Nat \ {0}, NEW t \in Terminal(c, k), NEW n \in 0 .. k
  PROVE  /\ Pushed(t, n).history \in Seq(Line) /\ Grown(t, Pushed(t, n))
         /\ Pushed(t, n) \in Terminal(c, k)
         /\ Pushed(t, n).lines = t.lines /\ Pushed(t, n).altLines = t.altLines
         /\ Pushed(t, n).mode = t.mode /\ Pushed(t, n).top = t.top /\ Pushed(t, n).bottom = t.bottom
         /\ Pushed(t, n).cur = t.cur /\ Pushed(t, n).saved = t.saved
         /\ Whole(t) => Whole(Pushed(t, n))
<1> DEFINE more == [i \in 1 .. n |-> t.lines[i - 1]]
           all == t.history \o more
           h == Newest(all)
           r == Pushed(t, n)
<1>1. /\ t.history \in Seq(Line) /\ t.serial \in Nat /\ Len(t.history) \in Nat /\ Dropped(t) \in Int
      /\ t.lines \in Grid(c, k)
  BY Fields, Serials
<1>2. ASSUME NEW y \in 0 .. k - 1
      PROVE  t.lines[y] \in Line
  <2>1. t.lines[y] \in LineOf(c)
    BY <1>1 DEF Grid
  <2> QED
    BY <2>1 DEF Line
<1>3. more \in Seq(Line) /\ Len(more) = n
  <2>1. \A i \in 1 .. n : t.lines[i - 1] \in Line
    BY <1>2
  <2> QED
    BY <2>1, IsASeq
<1>4. /\ all \in Seq(Line) /\ Len(all) = Len(t.history) + n
      /\ \A i \in 1 .. Len(all) : all[i] = IF i <= Len(t.history) THEN t.history[i] ELSE t.lines[i - Len(t.history) - 1]
  <2>1. \A i \in 1 .. n : more[i] = t.lines[i - 1]
    OBVIOUS
  <2> HIDE DEF more
  <2>2. /\ all \in Seq(Line) /\ Len(all) = Len(t.history) + n
        /\ \A i \in 1 .. Len(t.history) + n : all[i] = IF i <= Len(t.history) THEN t.history[i] ELSE more[i - Len(t.history)]
    <3> DEFINE old == t.history
    <3>1. old \in Seq(Line) /\ more \in Seq(Line) /\ Len(more) = n
      BY <1>1, <1>3
    <3> HIDE DEF old, more
    <3>2. /\ old \o more \in Seq(Line) /\ Len(old \o more) = Len(old) + Len(more)
          /\ \A i \in 1 .. Len(old) + Len(more) :
                 (old \o more)[i] = IF i <= Len(old) THEN old[i] ELSE more[i - Len(old)]
      BY <3>1, JoinAt, Zenon
    <3> QED
      BY <3>1, <3>2, Zenon DEF old
  <2>3. ASSUME NEW i \in 1 .. Len(t.history) + n, ~(i <= Len(t.history))
        PROVE  more[i - Len(t.history)] = t.lines[i - Len(t.history) - 1]
    <3>1. i - Len(t.history) \in 1 .. n
      BY <1>1, <2>3
    <3> QED
      BY <2>1, <3>1
  <2> HIDE DEF all
  <2> QED
    BY <2>2, <2>3
<1> HIDE DEF more, all
<1>5. /\ h \in Seq(Line) /\ Len(h) <= Len(all)
      /\ \A i \in 1 .. Len(h) : h[i] = all[i + Len(all) - Len(h)]
  BY <1>4, NewestSuffix
<1>6. r = [t EXCEPT !.serial = t.serial + n, !.history = h]
  BY DEF Pushed, all, more
<1> HIDE DEF h
<1> DEFINE s == t.serial + n
<1>7. s \in Nat
  BY <1>1
<1>8. [t EXCEPT !.serial = s, !.history = h] \in Terminal(c, k)
  BY <1>5, <1>7 DEF Terminal
<1> HIDE DEF s
<1>9. /\ r.history = h /\ r.serial = s /\ r.lines = t.lines /\ r.altLines = t.altLines
      /\ r.mode = t.mode /\ r.top = t.top /\ r.bottom = t.bottom /\ r.cur = t.cur /\ r.saved = t.saved
  <2>1. r = [t EXCEPT !.serial = s, !.history = h]
    BY <1>6 DEF s
  <2> QED
    BY <2>1 DEF Terminal
<1>10. r \in Terminal(c, k)
  BY <1>6, <1>8 DEF s
<1> HIDE DEF r
<1>11. Dropped(r) = s - Len(h) /\ Dropped(t) = t.serial - Len(t.history) /\ Len(h) \in Nat
  BY <1>5, <1>9 DEF Dropped
<1>12. t.serial <= r.serial /\ Dropped(t) <= Dropped(r)
  BY <1>1, <1>4, <1>5, <1>9, <1>11 DEF s
<1>13. ASSUME NEW p \in Dropped(r) + 1 .. t.serial
       PROVE  r.history[p - Dropped(r)] = t.history[p - Dropped(t)]
  <2> DEFINE i == p - Dropped(r)
  <2>a. p \in s - Len(h) + 1 .. t.serial /\ i = p - s + Len(h) /\ p - Dropped(t) = p - t.serial + Len(t.history)
    <3>1. /\ s \in Int /\ Len(h) \in Int /\ t.serial \in Int /\ Len(t.history) \in Int
      BY <1>1, <1>7, <1>11
    <3>2. s - Len(h) \in Int
      BY <3>1
    <3>3. p \in s - Len(h) + 1 .. t.serial
      BY <1>11
    <3>4. p \in Int
      BY <3>1, <3>2, <3>3
    <3>5. p - (s - Len(h)) = p - s + Len(h)
      BY <3>1, <3>4, LessLess
    <3>6. p - (t.serial - Len(t.history)) = p - t.serial + Len(t.history)
      BY <3>1, <3>4, LessLess
    <3> QED
      BY <1>11, <3>3, <3>5, <3>6
  <2>b. Len(all) = Len(t.history) + n /\ Len(h) <= Len(t.history) + n
    BY <1>4, <1>5
  <2> DEFINE lh == Len(h)
             lt == Len(t.history)
             serial == t.serial
  <2>c. lh \in Nat /\ lt \in Nat /\ serial \in Nat /\ s = serial + n /\ lh <= lt + n /\ p \in s - lh + 1 .. serial
    BY <1>1, <1>11, <2>a, <2>b DEF s
  <2> HIDE DEF lh, lt, serial
  <2>d. /\ p - s + lh \in 1 .. lh /\ p - s + lh + (lt + n) - lh = p - serial + lt
        /\ p - serial + lt \in 1 .. lt
    BY <2>c
  <2>1. i \in 1 .. Len(h) /\ i + Len(all) - Len(h) = p - Dropped(t)
    <3>1. i = p - s + lh /\ Len(h) = lh
      BY <2>a DEF lh
    <3>2. Len(all) = lt + n
      BY <2>b DEF lt
    <3>3. p - Dropped(t) = p - serial + lt
      BY <2>a DEF lt, serial
    <3> QED
      BY <2>d, <3>1, <3>2, <3>3
  <2>2. p - Dropped(t) \in 1 .. Len(t.history)
    BY <2>a, <2>d DEF lh, lt, serial
  <2>3. h[i] = all[p - Dropped(t)]
    BY <1>5, <2>1
  <2>4. all[p - Dropped(t)] = t.history[p - Dropped(t)]
    BY <1>1, <1>4, <2>2, SMTT(30)
  <2>5. r.history[p - Dropped(r)] = h[i]
    BY <1>9
  <2> HIDE DEF i
  <2> QED
    BY <2>3, <2>4, <2>5
<1>14. Grown(t, r)
  BY <1>12, <1>13 DEF Grown
<1>15. ASSUME Whole(t), NEW i \in 1 .. Len(h)
       PROVE  WholeLine(h[i])
  <2> DEFINE j == i + Len(all) - Len(h)
  <2>1. j \in 1 .. Len(all) /\ h[i] = all[j]
    BY <1>4, <1>5
  <2> HIDE DEF j
  <2>2. CASE j <= Len(t.history)
    <3>1. j \in DOMAIN t.history
      BY <1>1, <1>4, <2>1, <2>2
    <3> QED
      BY <1>4, <1>15, <2>1, <2>2, <3>1 DEF Whole
  <2>3. CASE ~(j <= Len(t.history))
    <3>1. j - Len(t.history) - 1 \in 0 .. k - 1
      BY <1>1, <1>4, <2>1, <2>3, SMTT(30)
    <3>2. j - Len(t.history) - 1 \in DOMAIN t.lines
      BY <1>1, <3>1 DEF Grid
    <3>3. all[j] = t.lines[j - Len(t.history) - 1]
      BY <1>4, <2>1, <2>3
    <3>4. WholeLine(t.lines[j - Len(t.history) - 1])
      BY <1>15, <3>2 DEF Whole
    <3> QED
      BY <2>1, <3>3, <3>4
  <2> QED
    BY <2>2, <2>3
<1>16. Whole(t) => Whole(r)
  <2>1. DOMAIN h = 1 .. Len(h)
    BY <1>5
  <2> QED
    BY <1>9, <1>15, <2>1 DEF Whole
<1> QED
  BY <1>5, <1>9, <1>10, <1>14, <1>16 DEF r

LEMMA PushHistoryDraws ==
  ASSUME NEW c \in Nat \ {0}, NEW k \in Nat \ {0}, NEW t \in Terminal(c, k), NEW n \in 0 .. k
  PROVE  /\ PushHistory(t, n) \in Terminal(c, k) /\ PushHistory(t, n).lines = t.lines
         /\ PushHistory(t, n).cur = t.cur /\ PushHistory(t, n).saved = t.saved
         /\ PushHistory(t, n).top = t.top /\ PushHistory(t, n).bottom = t.bottom
         /\ Sound(t, PushHistory(t, n))
<1>1. CASE AltScreen(t)
  BY <1>1, SoundSame DEF PushHistory
<1>2. CASE ~AltScreen(t)
  <2>1. Kept(t, Pushed(t, n))
    BY <1>2, PushedGrows DEF Kept, AltScreen
  <2>2. Sound(t, Pushed(t, n))
    BY <2>1, PushedGrows DEF Sound
  <2> QED
    BY <1>2, <2>2, PushedGrows DEF PushHistory
<1> QED
  BY <1>1, <1>2

-----------------------------------------------------------------------------
(* What a complete sequence makes of a terminal.                           *)

LEMMA ScrollUpDraws ==
  ASSUME NEW c \in Nat \ {0}, NEW k \in Nat \ {0}, NEW t \in Terminal(c, k), NEW orig \in 0 .. t.bottom,
         NEW m \in Int
  PROVE  /\ ScrollUp(t, orig, m) \in Terminal(c, k) /\ Sound(t, ScrollUp(t, orig, m))
         /\ ScrollUp(t, orig, m).cur = t.cur /\ ScrollUp(t, orig, m).saved = t.saved
         /\ ScrollUp(t, orig, m).top = t.top /\ ScrollUp(t, orig, m).bottom = t.bottom
<1> DEFINE n == Clamp(m, 0, t.bottom - orig + 1)
           pushed == IF orig = 0 THEN PushHistory(t, n) ELSE t
           ls == [y \in DOMAIN pushed.lines |->
                     IF y \notin orig .. t.bottom THEN pushed.lines[y]
                     ELSE IF y + n <= t.bottom THEN pushed.lines[y + n] ELSE BlankLine(t.cols)]
<1>1. ScrollUp(t, orig, m) = [pushed EXCEPT !.lines = ls]
  BY DEF ScrollUp
<1>2. t.cols = c /\ t.bottom \in 0 .. k - 1 /\ t.lines \in Grid(c, k)
  BY Fields
<1>3. n \in 0 .. t.bottom - orig + 1
  <2> DEFINE d == t.bottom - orig + 1
  <2>1. d \in Nat
    BY <1>2
  <2> HIDE DEF d
  <2>2. Clamp(m, 0, d) \in 0 .. d
    BY <2>1, ClampCount
  <2> QED
    BY <2>2 DEF d
<1> HIDE DEF n
<1>4. n \in 0 .. k
  BY <1>2, <1>3
<1>5. /\ pushed \in Terminal(c, k) /\ pushed.lines = t.lines /\ Sound(t, pushed)
      /\ pushed.cur = t.cur /\ pushed.saved = t.saved /\ pushed.top = t.top /\ pushed.bottom = t.bottom
  <2>1. CASE orig = 0
    BY <1>4, <2>1, PushHistoryDraws
  <2>2. CASE orig # 0
    BY <2>2, SoundSame
  <2> QED
    BY <2>1, <2>2
<1> HIDE DEF pushed
<1>6. DOMAIN pushed.lines = 0 .. k - 1 /\ \A y \in 0 .. k - 1 : pushed.lines[y] \in LineOf(c)
  BY <1>2, <1>5 DEF Grid
<1>7. ls \in Grid(c, k)
  <2>1. ASSUME NEW y \in 0 .. k - 1
        PROVE  ls[y] \in LineOf(c)
    <3>1. CASE y \in orig .. t.bottom /\ y + n <= t.bottom
      <4>1. y + n \in 0 .. k - 1
        BY <1>2, <1>3, <3>1
      <4> QED
        BY <1>6, <3>1, <4>1
    <3>2. CASE y \in orig .. t.bottom /\ ~(y + n <= t.bottom)
      BY <1>2, <1>6, <3>2, BlankLineWhole
    <3>3. CASE y \notin orig .. t.bottom
      BY <1>6, <3>3
    <3> QED
      BY <3>1, <3>2, <3>3
  <2>2. DOMAIN ls = 0 .. k - 1
    BY <1>6
  <2> HIDE DEF ls
  <2>3. ls = [y \in 0 .. k - 1 |-> ls[y]]
    BY <2>2 DEF ls
  <2> QED
    BY <2>1, <2>3 DEF Grid
<1>8. ASSUME Whole(pushed), NEW y \in 0 .. k - 1
      PROVE  WholeLine(ls[y])
  <2>0. \A z \in 0 .. k - 1 : WholeLine(pushed.lines[z])
    BY <1>6, <1>8 DEF Whole
  <2>1. CASE y \in orig .. t.bottom /\ y + n <= t.bottom
    <3>1. y + n \in 0 .. k - 1
      BY <1>2, <1>3, <2>1
    <3> QED
      BY <1>6, <2>0, <2>1, <3>1
  <2>2. CASE y \in orig .. t.bottom /\ ~(y + n <= t.bottom)
    BY <1>2, <1>6, <2>2, BlankLineWhole
  <2>3. CASE y \notin orig .. t.bottom
    BY <1>6, <2>0, <2>3
  <2> QED
    BY <2>1, <2>2, <2>3
<1> HIDE DEF ls
<1> DEFINE r == [pushed EXCEPT !.lines = ls]
<1>9. /\ r \in Terminal(c, k) /\ Sound(pushed, r)
      /\ r.cur = pushed.cur /\ r.saved = pushed.saved /\ r.top = pushed.top /\ r.bottom = pushed.bottom
  BY <1>5, <1>7, <1>8, WithLines
<1> HIDE DEF r
<1>10. Sound(t, r)
  BY <1>5, <1>9, SoundOn
<1> QED
  BY <1>1, <1>5, <1>9, <1>10 DEF r

LEMMA ScrollDownDraws ==
  ASSUME NEW c \in Nat \ {0}, NEW k \in Nat \ {0}, NEW t \in Terminal(c, k), NEW orig \in 0 .. t.bottom,
         NEW m \in Int
  PROVE  /\ ScrollDown(t, orig, m) \in Terminal(c, k) /\ Sound(t, ScrollDown(t, orig, m))
         /\ ScrollDown(t, orig, m).cur = t.cur /\ ScrollDown(t, orig, m).saved = t.saved
         /\ ScrollDown(t, orig, m).top = t.top /\ ScrollDown(t, orig, m).bottom = t.bottom
<1> DEFINE n == Clamp(m, 0, t.bottom - orig + 1)
           ls == [y \in DOMAIN t.lines |-> IF y \notin orig .. t.bottom THEN t.lines[y]
                                          ELSE IF y - n >= orig THEN t.lines[y - n] ELSE BlankLine(t.cols)]
<1>1. ScrollDown(t, orig, m) = [t EXCEPT !.lines = ls]
  BY DEF ScrollDown
<1>2. t.cols = c /\ t.bottom \in 0 .. k - 1 /\ t.lines \in Grid(c, k)
  BY Fields
<1>3. n \in 0 .. t.bottom - orig + 1
  <2> DEFINE d == t.bottom - orig + 1
  <2>1. d \in Nat
    BY <1>2
  <2> HIDE DEF d
  <2>2. Clamp(m, 0, d) \in 0 .. d
    BY <2>1, ClampCount
  <2> QED
    BY <2>2 DEF d
<1> HIDE DEF n
<1>4. DOMAIN t.lines = 0 .. k - 1 /\ \A y \in 0 .. k - 1 : t.lines[y] \in LineOf(c)
  BY <1>2 DEF Grid
<1>5. ASSUME NEW y \in 0 .. k - 1
      PROVE  ls[y] \in LineOf(c) /\ (Whole(t) => WholeLine(ls[y]))
  <2>0. Whole(t) => \A z \in 0 .. k - 1 : WholeLine(t.lines[z])
    BY <1>4 DEF Whole
  <2>1. CASE y \in orig .. t.bottom /\ y - n >= orig
    <3>1. y - n \in 0 .. k - 1
      BY <1>2, <1>3, <2>1
    <3> QED
      BY <1>4, <2>0, <2>1, <3>1
  <2>2. CASE y \in orig .. t.bottom /\ ~(y - n >= orig)
    BY <1>2, <1>4, <2>2, BlankLineWhole
  <2>3. CASE y \notin orig .. t.bottom
    BY <1>4, <2>0, <2>3
  <2> QED
    BY <2>1, <2>2, <2>3
<1>6. ls \in Grid(c, k)
  <2>1. DOMAIN ls = 0 .. k - 1
    BY <1>4
  <2> HIDE DEF ls
  <2>2. ls = [y \in 0 .. k - 1 |-> ls[y]]
    BY <2>1 DEF ls
  <2> QED
    BY <1>5, <2>2 DEF Grid
<1> HIDE DEF ls
<1> QED
  BY <1>1, <1>5, <1>6, WithLines

LEMMA NewlineDraws ==
  ASSUME NEW c \in Nat \ {0}, NEW k \in Nat \ {0}, NEW t \in Ready(c, k), NEW first \in BOOLEAN
  PROVE  Newline(t, first) \in Ready(c, k) /\ Sound(t, Newline(t, first))
<1> DEFINE s == IF t.cur.y = t.bottom THEN ScrollUp(t, t.top, 1) ELSE t
           x == IF first THEN 0 ELSE t.cur.x
           y == IF t.cur.y = t.bottom THEN t.cur.y ELSE t.cur.y + 1
<1>1. t \in Terminal(c, k) /\ t.top <= t.bottom
  BY DEF Ready, Ordered
<1>2. t.top \in 0 .. k - 1 /\ t.bottom \in 0 .. k - 1 /\ t.cur \in Cursor
  BY <1>1, Fields
<1>3. t.top \in 0 .. t.bottom
  BY <1>1, <1>2
<1>4. s \in Terminal(c, k) /\ Sound(t, s) /\ s.top = t.top /\ s.bottom = t.bottom
  <2>1. CASE t.cur.y = t.bottom
    BY <1>1, <1>3, <2>1, ScrollUpDraws
  <2>2. CASE t.cur.y # t.bottom
    BY <1>1, <2>2, SoundSame
  <2> QED
    BY <2>1, <2>2
<1>5. x \in Int /\ y \in Int
  BY <1>2 DEF Cursor
<1>6. Newline(t, first) = MoveTo(s, x, y)
  BY DEF Newline
<1> HIDE DEF s, x, y
<1>7. s \in Ordered(c, k)
  BY <1>1, <1>4 DEF Ordered
<1>8. MoveTo(s, x, y) \in Ready(c, k) /\ Sound(s, MoveTo(s, x, y))
  BY <1>5, <1>7, MoveToDraws
<1>9. MoveTo(s, x, y) \in Terminal(c, k)
  BY <1>8 DEF Ready, Ordered
<1>10. Sound(t, MoveTo(s, x, y))
  BY <1>1, <1>4, <1>8, <1>9, SoundOn
<1> QED
  BY <1>6, <1>8, <1>10

LEMMA ReadyCursor ==
  ASSUME NEW c \in Nat \ {0}, NEW k \in Nat \ {0}, NEW t \in Ready(c, k)
  PROVE  /\ t \in Terminal(c, k) /\ t \in Ordered(c, k)
         /\ t.cols = c /\ t.rows = k /\ t.cur.x \in 0 .. c - 1 /\ t.cur.y \in 0 .. k - 1
         /\ t.top \in 0 .. t.bottom /\ t.bottom \in 0 .. k - 1 /\ t.cur \in Cursor
<1>1. t \in Terminal(c, k) /\ t \in Ordered(c, k) /\ t.top <= t.bottom /\ Inside(t)
  BY DEF Ready, Ordered
<1>2. t.cols = c /\ t.rows = k /\ t.top \in 0 .. k - 1 /\ t.bottom \in 0 .. k - 1 /\ t.cur \in Cursor
  BY <1>1, Fields
<1> QED
  BY <1>1, <1>2 DEF Inside

(* A character that fits where it is drawn leaves the line whole.          *)
LEMMA NarrowDrawn ==
  ASSUME NEW c \in Nat \ {0}, NEW l \in LineOf(c), NEW x \in 0 .. c - 1
  PROVE  /\ [WideCleared(l, x) EXCEPT ![x] = Narrow] \in LineOf(c)
         /\ WholeLine(l) => WholeLine([WideCleared(l, x) EXCEPT ![x] = Narrow])
<1> DEFINE w == WideCleared(l, x)
           d == [w EXCEPT ![x] = Narrow]
<1>1. w \in LineOf(c)
  BY WideClearedLine
<1>2. DOMAIN l = 0 .. c - 1 /\ DOMAIN w = 0 .. c - 1 /\ DOMAIN d = 0 .. c - 1
  BY <1>1 DEF LineOf
<1>3. ASSUME NEW i \in 0 .. c - 1
      PROVE  d[i] = IF i = x THEN Narrow
                    ELSE IF \/ i = x + 1 /\ l[x] = Wide /\ l[i] = Dummy
                            \/ i = x - 1 /\ l[x] = Dummy /\ l[i] = Wide THEN Blank ELSE l[i]
  BY <1>2 DEF WideCleared
<1>4. d \in LineOf(c)
  <2> HIDE DEF w
  <2> QED
    BY <1>1 DEF LineOf, Cell
<1> HIDE DEF w, d
<1>5. Wide # Dummy /\ Blank # Wide /\ Blank # Dummy /\ Narrow # Wide /\ Narrow # Dummy
  BY DEF Wide, Dummy, Blank, Narrow
<1>6. ASSUME WholeLine(l)
      PROVE  WholeLine(d)
  <2>1. ASSUME NEW i \in 0 .. c - 1
        PROVE  /\ l[i] = Wide => i + 1 \in 0 .. c - 1 /\ l[i + 1] = Dummy
               /\ l[i] = Dummy => i - 1 \in 0 .. c - 1 /\ l[i - 1] = Wide
    BY <1>2, <1>6 DEF WholeLine
  <2>2. ASSUME NEW i \in 0 .. c - 1
        PROVE  /\ d[i] = Wide => i + 1 \in 0 .. c - 1 /\ d[i + 1] = Dummy
               /\ d[i] = Dummy => i - 1 \in 0 .. c - 1 /\ d[i - 1] = Wide
    BY <1>3, <1>5, <2>1
  <2> QED
    BY <1>2, <2>2 DEF WholeLine
<1> QED
  BY <1>4, <1>6 DEF d, w

(* So does a wide one, which takes the halves of up to two others.         *)
LEMMA WideDrawn ==
  ASSUME NEW c \in Nat \ {0}, NEW l \in LineOf(c), NEW x \in 0 .. c - 1, x + 1 < c
  PROVE  /\ [WideCleared(WideCleared(l, x), x + 1) EXCEPT ![x] = Wide, ![x + 1] = Dummy] \in LineOf(c)
         /\ WholeLine(l) =>
               WholeLine([WideCleared(WideCleared(l, x), x + 1) EXCEPT ![x] = Wide, ![x + 1] = Dummy])
<1> DEFINE v == WideCleared(l, x)
           w == WideCleared(v, x + 1)
           d == [w EXCEPT ![x] = Wide, ![x + 1] = Dummy]
<1>0. x + 1 \in 0 .. c - 1
  OBVIOUS
<1>1. v \in LineOf(c) /\ w \in LineOf(c)
  BY <1>0, WideClearedLine
<1>2. DOMAIN l = 0 .. c - 1 /\ DOMAIN v = 0 .. c - 1 /\ DOMAIN w = 0 .. c - 1
  BY <1>1 DEF LineOf
<1>3. ASSUME NEW i \in 0 .. c - 1
      PROVE  v[i] = IF \/ i = x + 1 /\ l[x] = Wide /\ l[i] = Dummy
                       \/ i = x - 1 /\ l[x] = Dummy /\ l[i] = Wide THEN Blank ELSE l[i]
  BY <1>2 DEF WideCleared
<1>4. ASSUME NEW i \in 0 .. c - 1
      PROVE  w[i] = IF \/ i = x + 1 + 1 /\ v[x + 1] = Wide /\ v[i] = Dummy
                       \/ i = x + 1 - 1 /\ v[x + 1] = Dummy /\ v[i] = Wide THEN Blank ELSE v[i]
  BY <1>2 DEF WideCleared
<1> HIDE DEF v, w
<1>5. DOMAIN d = 0 .. c - 1
  BY <1>2
<1>6. d \in LineOf(c)
  BY <1>1 DEF LineOf, Cell
<1>7. ASSUME NEW i \in 0 .. c - 1
      PROVE  d[i] = IF i = x THEN Wide ELSE IF i = x + 1 THEN Dummy ELSE w[i]
  BY <1>0, <1>2
<1> HIDE DEF d
<1>8. Wide # Dummy /\ Blank # Wide /\ Blank # Dummy
  BY DEF Wide, Dummy, Blank
<1>9. ASSUME WholeLine(l)
      PROVE  WholeLine(d)
  <2>1. ASSUME NEW i \in 0 .. c - 1
        PROVE  /\ l[i] = Wide => i + 1 \in 0 .. c - 1 /\ l[i + 1] = Dummy
               /\ l[i] = Dummy => i - 1 \in 0 .. c - 1 /\ l[i - 1] = Wide
    BY <1>2, <1>9 DEF WholeLine
  <2>2. ASSUME NEW i \in 0 .. c - 1
        PROVE  d[i] = IF i = x THEN Wide ELSE IF i = x + 1 THEN Dummy
                      ELSE IF \/ i = x - 1 /\ l[x] = Dummy
                              \/ i = x + 2 /\ l[x + 1] = Wide THEN Blank ELSE l[i]
    BY <1>0, <1>3, <1>4, <1>7, <1>8, <2>1
  <2>3. ASSUME NEW i \in 0 .. c - 1
        PROVE  /\ d[i] = Wide => i + 1 \in 0 .. c - 1 /\ d[i + 1] = Dummy
               /\ d[i] = Dummy => i - 1 \in 0 .. c - 1 /\ d[i - 1] = Wide
    BY <1>0, <1>8, <2>1, <2>2
  <2> QED
    BY <1>5, <2>3 DEF WholeLine
<1> QED
  BY <1>6, <1>9 DEF d, w, v

LEMMA WithGlyph ==
  ASSUME NEW c \in Nat \ {0}, NEW k \in Nat \ {0}, NEW t \in Terminal(c, k), NEW y \in 0 .. k - 1,
         NEW l \in LineOf(c)
  PROVE  /\ [t EXCEPT !.lines[y] = l] \in Terminal(c, k)
         /\ [t EXCEPT !.lines[y] = l].cur = t.cur /\ [t EXCEPT !.lines[y] = l].saved = t.saved
         /\ [t EXCEPT !.lines[y] = l].top = t.top /\ [t EXCEPT !.lines[y] = l].bottom = t.bottom
         /\ Kept(t, [t EXCEPT !.lines[y] = l])
         /\ (WholeLine(t.lines[y]) => WholeLine(l)) => Sound(t, [t EXCEPT !.lines[y] = l])
<1> DEFINE ls == [t.lines EXCEPT ![y] = l]
<1>1. t.lines \in Grid(c, k)
  BY Fields
<1>2. DOMAIN t.lines = 0 .. k - 1 /\ ls \in Grid(c, k)
  BY <1>1 DEF Grid
<1>3. [t EXCEPT !.lines[y] = l] = [t EXCEPT !.lines = ls]
  BY DEF Terminal
<1>4. ASSUME WholeLine(t.lines[y]) => WholeLine(l), Whole(t), NEW z \in 0 .. k - 1
      PROVE  WholeLine(ls[z])
  <2>1. WholeLine(t.lines[z])
    BY <1>2, <1>4 DEF Whole
  <2>2. ls[z] = IF z = y THEN l ELSE t.lines[z]
    BY <1>2
  <2> QED
    BY <1>4, <2>1, <2>2
<1> HIDE DEF ls
<1> QED
  BY <1>2, <1>3, <1>4, WithLines

(* After the last column the cursor waits there to wrap.                   *)
LEMMA AtTheEdge ==
  ASSUME NEW c \in Nat \ {0}, NEW k \in Nat \ {0}, NEW t \in Ready(c, k)
  PROVE  /\ [t EXCEPT !.cur.x = t.cols - 1, !.cur.wrapNext = TRUE] \in Ready(c, k)
         /\ Sound(t, [t EXCEPT !.cur.x = t.cols - 1, !.cur.wrapNext = TRUE])
<1> DEFINE x == t.cols - 1
           new == [t.cur EXCEPT !.x = x, !.wrapNext = TRUE]
           r == [t EXCEPT !.cur = new]
<1>1. /\ t \in Terminal(c, k) /\ t \in Ordered(c, k) /\ t.cols = c /\ t.rows = k /\ t.cur \in Cursor
      /\ Inside(t) /\ t.top <= t.bottom
  BY ReadyCursor DEF Ready, Ordered
<1>2. x \in 0 .. c - 1
  BY <1>1
<1> HIDE DEF x
<1>3. new \in Cursor /\ new.x = x /\ new.y = t.cur.y /\ new.origin = t.cur.origin
  <2>1. x \in Int /\ t.cur \in Cursor
    BY <1>1, <1>2
  <2> QED
    BY <2>1 DEF Cursor
<1>4. [t EXCEPT !.cur.x = x, !.cur.wrapNext = TRUE] = r
  BY <1>1 DEF Terminal
<1> HIDE DEF new
<1>5. r \in Terminal(c, k) /\ r.cur = new /\ r.top = t.top /\ r.bottom = t.bottom /\ Sound(t, r)
  BY <1>1, <1>3, WithCursor
<1> HIDE DEF r
<1>6. r.cols = c /\ r.rows = k
  BY <1>5 DEF Terminal
<1>7. Inside(r)
  BY <1>1, <1>2, <1>3, <1>5, <1>6 DEF Inside
<1>8. r \in Ready(c, k)
  BY <1>1, <1>5, <1>7 DEF Ready, Ordered
<1> QED
  BY <1>4, <1>5, <1>8 DEF x

LEMMA PutGlyphDraws ==
  ASSUME NEW c \in Nat \ {0}, NEW k \in Nat \ {0}, NEW t \in Ready(c, k), NEW width \in 0 .. 2
  PROVE  PutGlyph(t, width) \in Ready(c, k) /\ Sound(t, PutGlyph(t, width))
<1> DEFINE wraps == "wrap" \in t.mode
           s == IF wraps /\ t.cur.wrapNext THEN Newline(t, TRUE) ELSE t
           u == IF width = 2 /\ s.cur.x = s.cols - 1 /\ wraps THEN Newline(s, TRUE) ELSE s
           x == u.cur.x
           y == u.cur.y
           fits == width = 2 /\ x + 1 < u.cols
           cut == IF fits THEN WideCleared(WideCleared(u.lines[y], x), x + 1) ELSE WideCleared(u.lines[y], x)
           glyph == IF fits THEN [cut EXCEPT ![x] = Wide, ![x + 1] = Dummy] ELSE [cut EXCEPT ![x] = Narrow]
           v == [u EXCEPT !.lines[y] = glyph]
           r == IF width = 0 THEN s
                ELSE IF x + width < u.cols THEN MoveTo(v, x + width, y)
                ELSE [v EXCEPT !.cur.x = u.cols - 1, !.cur.wrapNext = TRUE]
<1>1. PutGlyph(t, width) = r
  BY DEF PutGlyph
<1> HIDE DEF wraps
<1>2. Sound(t, t) /\ t \in Terminal(c, k)
  BY ReadyCursor, SoundSame
<1>3. s \in Ready(c, k) /\ Sound(t, s)
  BY <1>2, NewlineDraws
<1> HIDE DEF s
<1>4. s \in Terminal(c, k)
  BY <1>3, ReadyCursor
<1>5. u \in Ready(c, k) /\ Sound(t, u)
  <2>1. Newline(s, TRUE) \in Ready(c, k) /\ Sound(s, Newline(s, TRUE))
    BY <1>3, NewlineDraws
  <2>2. Newline(s, TRUE) \in Terminal(c, k)
    BY <2>1, ReadyCursor
  <2>3. Sound(t, Newline(s, TRUE))
    BY <1>2, <1>3, <1>4, <2>1, <2>2, SoundOn
  <2> QED
    BY <1>3, <2>1, <2>3
<1> HIDE DEF u
<1>6. /\ u \in Terminal(c, k) /\ u.cols = c /\ x \in 0 .. c - 1 /\ y \in 0 .. k - 1 /\ u.lines \in Grid(c, k)
      /\ u.top <= u.bottom /\ Inside(u)
  BY <1>5, ReadyCursor, Fields DEF Ready, Ordered
<1> HIDE DEF x, y
<1>7. u.lines[y] \in LineOf(c)
  BY <1>6 DEF Grid
<1> DEFINE l == u.lines[y]
<1>8. glyph \in LineOf(c) /\ (WholeLine(l) => WholeLine(glyph))
  <2> HIDE DEF l
  <2>1. CASE fits
    <3>1. x + 1 < c
      BY <1>6, <2>1
    <3> QED
      BY <1>6, <1>7, <2>1, <3>1, WideDrawn DEF l
  <2>2. CASE ~fits
    BY <1>6, <1>7, <2>2, NarrowDrawn DEF l
  <2> QED
    BY <2>1, <2>2
<1> HIDE DEF glyph
<1>9. /\ v \in Terminal(c, k) /\ v.cur = u.cur /\ v.top = u.top /\ v.bottom = u.bottom /\ Sound(u, v)
  BY <1>6, <1>8, WithGlyph
<1> HIDE DEF v
<1>10. v.cols = c /\ v.rows = k /\ u.rows = k
  BY <1>6, <1>9, Fields
<1>11. v \in Ready(c, k) /\ v \in Ordered(c, k)
  BY <1>6, <1>9, <1>10 DEF Ready, Ordered, Inside
<1>12. Sound(t, v)
  BY <1>2, <1>5, <1>6, <1>9, SoundOn
<1>13. r \in Ready(c, k) /\ (width # 0 => Sound(v, r))
  <2>1. CASE width = 0
    BY <1>3, <2>1
  <2>2. CASE width # 0 /\ x + width < u.cols
    <3>1. x + width \in Int /\ y \in Int
      BY <1>6
    <3> QED
      BY <1>11, <2>2, <3>1, MoveToDraws
  <2>3. CASE width # 0 /\ ~(x + width < u.cols)
    <3>1. u.cols - 1 = v.cols - 1
      BY <1>6, <1>10
    <3> QED
      BY <1>11, <2>3, <3>1, AtTheEdge
  <2> QED
    BY <2>1, <2>2, <2>3
<1>14. Sound(t, r)
  <2>1. CASE width = 0
    BY <1>3, <2>1
  <2>2. CASE width # 0
    <3>1. r \in Terminal(c, k) /\ Sound(v, r)
      BY <1>13, <2>2, ReadyCursor
    <3> QED
      BY <1>2, <1>9, <1>12, <3>1, SoundOn
  <2> QED
    BY <2>1, <2>2
<1> QED
  BY <1>1, <1>13, <1>14

LEMMA MoveToScreen ==
  ASSUME NEW c \in Nat \ {0}, NEW k \in Nat \ {0}, NEW t \in Ordered(c, k), NEW x \in Int, NEW y \in Int
  PROVE  /\ MoveTo(t, x, y) \in Ready(c, k)
         /\ MoveTo(t, x, y).history = t.history /\ MoveTo(t, x, y).serial = t.serial
<1>1. MoveTo(t, x, y) \in Ready(c, k)
  BY MoveToDraws
<1>2. MoveTo(t, x, y).history = t.history /\ MoveTo(t, x, y).serial = t.serial
  <2> DEFINE new == [x |-> Clamp(x, 0, t.cols - 1),
                     y |-> IF t.cur.origin THEN Clamp(y, t.top, t.bottom) ELSE Clamp(y, 0, t.rows - 1),
                     wrapNext |-> FALSE, origin |-> t.cur.origin]
  <2>1. MoveTo(t, x, y) = [t EXCEPT !.cur = new]
    BY DEF MoveTo
  <2> HIDE DEF new
  <2>2. t \in Terminal(c, k)
    BY DEF Ordered
  <2> QED
    BY <2>1, <2>2 DEF Terminal
<1> QED
  BY <1>1, <1>2

LEMMA MoveToReady ==
  ASSUME NEW c \in Nat \ {0}, NEW k \in Nat \ {0}, NEW t \in Ready(c, k), NEW x \in Int, NEW y \in Int
  PROVE  MoveTo(t, x, y) \in Ready(c, k) /\ Sound(t, MoveTo(t, x, y))
<1>1. t \in Ordered(c, k)
  BY ReadyCursor
<1> QED
  BY <1>1, MoveToDraws

LEMMA MoveAbsToDraws ==
  ASSUME NEW c \in Nat \ {0}, NEW k \in Nat \ {0}, NEW t \in Ordered(c, k), NEW x \in Int, NEW y \in Int
  PROVE  MoveAbsTo(t, x, y) \in Ready(c, k) /\ Sound(t, MoveAbsTo(t, x, y))
<1> DEFINE row == IF t.cur.origin THEN y + t.top ELSE y
<1>1. t \in Terminal(c, k)
  BY DEF Ordered
<1>2. t.top \in Int
  BY <1>1, Fields
<1>3. row \in Int
  BY <1>2
<1> HIDE DEF row
<1>4. MoveTo(t, x, row) \in Ready(c, k) /\ Sound(t, MoveTo(t, x, row))
  BY <1>3, MoveToDraws
<1> QED
  BY <1>4 DEF MoveAbsTo, row

LEMMA LeastNatural == ASSUME NEW T \in SUBSET Nat, T # {} PROVE \E n \in T : \A m \in T : n <= m
<1> DEFINE Less == {ij \in Nat \X Nat : ij[1] < ij[2]}
<1>1. IsWellFoundedOn(Less, Nat)
  BY NatLessThanWellFounded DEF OpToRel
<1>2. \E n \in T : \A m \in T : <<m, n>> \notin Less
  <2> HIDE DEF Less
  <2> QED BY <1>1, WFMin
<1>3. PICK n \in T : \A m \in T : <<m, n>> \notin Less
  BY <1>2
<1>4. ASSUME NEW m \in T PROVE n <= m
  <2> SUFFICES ASSUME m < n PROVE FALSE
    OBVIOUS
  <2>1. <<m, n>> \in Nat \X Nat /\ <<m, n>>[1] < <<m, n>>[2]
    OBVIOUS
  <2> QED BY <1>3, <2>1
<1> QED BY <1>4

(* A tab stop ahead and a tab stop behind: there is a next one.            *)
LEMMA GreatestBelow ==
  ASSUME NEW b \in Nat, NEW T \in SUBSET Nat, T # {}, \A x \in T : x < b
  PROVE  \E x \in T : \A z \in T : x >= z
<1> DEFINE Below == {b - x : x \in T}
<1>1. Below \in SUBSET Nat /\ Below # {}
  <2>1. \A x \in T : b - x \in Nat
    OBVIOUS
  <2> QED
    BY <2>1
<1> HIDE DEF Below
<1>2. PICK n \in Below : \A m \in Below : n <= m
  BY <1>1, LeastNatural
<1>3. PICK x \in T : n = b - x
  BY <1>2 DEF Below
<1>4. ASSUME NEW z \in T
      PROVE  x >= z
  <2>1. b - z \in Below
    BY DEF Below
  <2>2. n <= b - z
    BY <1>2, <2>1
  <2> QED
    BY <1>3, <2>2
<1> QED
  BY <1>4

LEMMA PutTabDraws ==
  ASSUME NEW c \in Nat \ {0}, NEW k \in Nat \ {0}, NEW t \in Ready(c, k), NEW forward \in BOOLEAN
  PROVE  PutTab(t, forward) \in Ready(c, k) /\ Sound(t, PutTab(t, forward))
<1> DEFINE ahead == {x \in t.tabs : x > t.cur.x}
           behind == {x \in t.tabs : x < t.cur.x}
           x == IF forward THEN (IF ahead = {} THEN t.cols ELSE CHOOSE z \in ahead : \A o \in ahead : z <= o)
                ELSE (IF behind = {} THEN 0 ELSE CHOOSE z \in behind : \A o \in behind : z >= o)
<1>1. t.cols \in Int /\ t.cur.x \in Nat /\ t.cur.y \in Int /\ t.tabs \in SUBSET Nat
  <2>1. t \in Terminal(c, k) /\ t.cols = c /\ t.cur.x \in 0 .. c - 1 /\ t.cur.y \in 0 .. k - 1
    BY ReadyCursor
  <2>2. t.tabs \in SUBSET Nat
    BY <2>1, Fields
  <2> QED
    BY <2>1, <2>2
<1>2. ahead \in SUBSET Nat /\ behind \in SUBSET Nat /\ \A z \in behind : z < t.cur.x
  BY <1>1
<1>3. PutTab(t, forward) = MoveTo(t, x, t.cur.y)
  BY Zenon DEF PutTab
<1> DEFINE following == CHOOSE z \in ahead : \A o \in ahead : z <= o
           last == CHOOSE z \in behind : \A o \in behind : z >= o
<1>4. x = IF forward THEN (IF ahead = {} THEN t.cols ELSE following) ELSE (IF behind = {} THEN 0 ELSE last)
  OBVIOUS
<1> HIDE DEF x, ahead, behind
<1>5. ahead # {} => following \in ahead
  <2>1. ahead # {} => \E z \in ahead : \A o \in ahead : z <= o
    BY <1>2, LeastNatural
  <2> QED
    BY <2>1
<1>6. behind # {} => last \in behind
  <2>1. behind # {} => \E z \in behind : \A o \in behind : z >= o
    BY <1>1, <1>2, GreatestBelow
  <2> QED
    BY <2>1
<1> HIDE DEF following, last
<1>7. x \in Int
  <2>1. (ahead # {} => following \in Nat) /\ (behind # {} => last \in Nat)
    BY <1>2, <1>5, <1>6, Zenon
  <2> QED
    BY <1>1, <1>4, <2>1
<1> QED
  BY <1>1, <1>3, <1>7, MoveToReady

LEMMA SaveCursorDraws ==
  ASSUME NEW c \in Nat \ {0}, NEW k \in Nat \ {0}, NEW t \in Ready(c, k)
  PROVE  SaveCursor(t) \in Ready(c, k) /\ Sound(t, SaveCursor(t)) /\ SaveCursor(t).lines = t.lines
<1>1. t \in Terminal(c, k) /\ t \in Ordered(c, k) /\ t.top <= t.bottom /\ t.cur \in Cursor /\ Inside(t)
  BY ReadyCursor DEF Ready, Ordered
<1> DEFINE r == [t EXCEPT !.saved = t.cur]
<1>2. /\ r \in Terminal(c, k) /\ r.cur = t.cur /\ r.top = t.top /\ r.bottom = t.bottom
      /\ r.lines = t.lines /\ r.altLines = t.altLines /\ r.mode = t.mode /\ r.history = t.history
      /\ r.serial = t.serial /\ r.cols = t.cols /\ r.rows = t.rows
  <2> DEFINE cur == t.cur
  <2>1. cur \in Cursor /\ t \in Terminal(c, k)
    BY <1>1
  <2> HIDE DEF cur
  <2> DEFINE q == [t EXCEPT !.saved = cur]
  <2>2. /\ q \in Terminal(c, k) /\ q.cur = t.cur /\ q.top = t.top /\ q.bottom = t.bottom
        /\ q.lines = t.lines /\ q.altLines = t.altLines /\ q.mode = t.mode /\ q.history = t.history
        /\ q.serial = t.serial /\ q.cols = t.cols /\ q.rows = t.rows
    BY <2>1 DEF Terminal
  <2> QED
    BY <2>2 DEF cur
<1> HIDE DEF r
<1>3. r \in Ready(c, k) /\ Sound(t, r)
  BY <1>1, <1>2, SoundSame DEF Ready, Ordered, Inside
<1> QED
  BY <1>2, <1>3 DEF SaveCursor, r

LEMMA RestoreCursorDraws ==
  ASSUME NEW c \in Nat \ {0}, NEW k \in Nat \ {0}, NEW t \in Ordered(c, k)
  PROVE  RestoreCursor(t) \in Ready(c, k) /\ Sound(t, RestoreCursor(t))
<1> DEFINE saved == t.saved
           u == [t EXCEPT !.cur = saved]
<1>1. t \in Terminal(c, k) /\ t.top <= t.bottom
  BY DEF Ordered
<1>2. saved \in Cursor
  BY <1>1, Fields
<1>3. saved.x \in Int /\ saved.y \in Int
  BY <1>2 DEF Cursor
<1>4. RestoreCursor(t) = MoveTo(u, saved.x, saved.y)
  BY DEF RestoreCursor
<1> HIDE DEF saved
<1>5. u \in Terminal(c, k) /\ u.top = t.top /\ u.bottom = t.bottom /\ Sound(t, u)
  BY <1>1, <1>2, WithCursor
<1> HIDE DEF u
<1>6. u \in Ordered(c, k)
  BY <1>1, <1>5 DEF Ordered
<1> DEFINE r == MoveTo(u, saved.x, saved.y)
<1>7. r \in Ready(c, k) /\ Sound(u, r)
  BY <1>3, <1>6, MoveToDraws
<1> HIDE DEF r
<1>8. r \in Terminal(c, k)
  BY <1>7, ReadyCursor
<1>9. Sound(t, r)
  BY <1>1, <1>5, <1>7, <1>8, SoundOn
<1> QED
  BY <1>4, <1>7, <1>9 DEF r

LEMMA WithTabs ==
  ASSUME NEW c \in Nat \ {0}, NEW k \in Nat \ {0}, NEW t \in Ready(c, k), NEW tabs \in SUBSET Nat
  PROVE  [t EXCEPT !.tabs = tabs] \in Ready(c, k) /\ Sound(t, [t EXCEPT !.tabs = tabs])
<1> DEFINE r == [t EXCEPT !.tabs = tabs]
<1>1. t \in Terminal(c, k) /\ t \in Ordered(c, k) /\ t.top <= t.bottom /\ Inside(t)
  BY ReadyCursor DEF Ready, Ordered
<1>2. /\ r \in Terminal(c, k) /\ r.cur = t.cur /\ r.top = t.top /\ r.bottom = t.bottom
      /\ r.lines = t.lines /\ r.altLines = t.altLines /\ r.mode = t.mode /\ r.history = t.history
      /\ r.serial = t.serial /\ r.cols = t.cols /\ r.rows = t.rows
  BY <1>1 DEF Terminal
<1> HIDE DEF r
<1>3. r \in Ready(c, k) /\ Sound(t, r)
  BY <1>1, <1>2, SoundSame DEF Ready, Ordered, Inside
<1> QED
  BY <1>3 DEF r

LEMMA SetModeDraws ==
  ASSUME NEW c \in Nat \ {0}, NEW k \in Nat \ {0}, NEW t \in Ready(c, k), NEW m \in {"wrap", "crlf"},
         NEW set \in BOOLEAN
  PROVE  SetMode(t, set, m) \in Ready(c, k) /\ Sound(t, SetMode(t, set, m))
<1> DEFINE mode == IF set THEN t.mode \cup {m} ELSE t.mode \ {m}
           r == [t EXCEPT !.mode = mode]
<1>1. /\ t \in Terminal(c, k) /\ t \in Ordered(c, k) /\ t.top <= t.bottom /\ Inside(t)
      /\ t.mode \in SUBSET {"wrap", "crlf", "alt"}
  BY ReadyCursor, Fields DEF Ready, Ordered
<1>2. mode \in SUBSET {"wrap", "crlf", "alt"} /\ ("alt" \in mode <=> "alt" \in t.mode)
  BY <1>1
<1>3. SetMode(t, set, m) = r
  BY DEF SetMode
<1> HIDE DEF mode
<1>4. /\ r \in Terminal(c, k) /\ r.cur = t.cur /\ r.top = t.top /\ r.bottom = t.bottom
      /\ r.lines = t.lines /\ r.altLines = t.altLines /\ r.mode = mode /\ r.history = t.history
      /\ r.serial = t.serial /\ r.cols = t.cols /\ r.rows = t.rows
  BY <1>1, <1>2 DEF Terminal
<1> HIDE DEF r
<1>5. r \in Ready(c, k)
  BY <1>1, <1>4 DEF Ready, Ordered, Inside
<1>6. AltScreen(r) <=> AltScreen(t)
  BY <1>2, <1>4 DEF AltScreen
<1>7. Grown(t, r)
  BY <1>1, <1>4, Serials DEF Grown, Dropped
<1>8. Sound(t, r)
  BY <1>4, <1>6, <1>7 DEF Sound, Kept, Whole
<1> QED
  BY <1>3, <1>5, <1>8

LEMMA SetOriginDraws ==
  ASSUME NEW c \in Nat \ {0}, NEW k \in Nat \ {0}, NEW t \in Ready(c, k), NEW set \in BOOLEAN
  PROVE  SetOrigin(t, set) \in Ready(c, k) /\ Sound(t, SetOrigin(t, set))
<1> DEFINE new == [t.cur EXCEPT !.origin = set]
           u == [t EXCEPT !.cur = new]
<1>1. t \in Terminal(c, k) /\ t.cur \in Cursor /\ t.top <= t.bottom
  BY ReadyCursor DEF Ready, Ordered
<1>2. new \in Cursor
  BY <1>1 DEF Cursor
<1>3. SetOrigin(t, set) = MoveAbsTo(u, 0, 0)
  BY DEF SetOrigin
<1> HIDE DEF new
<1>4. u \in Terminal(c, k) /\ u.top = t.top /\ u.bottom = t.bottom /\ Sound(t, u)
  BY <1>1, <1>2, WithCursor
<1> HIDE DEF u
<1>5. u \in Ordered(c, k)
  BY <1>1, <1>4 DEF Ordered
<1> DEFINE r == MoveAbsTo(u, 0, 0)
<1>6. r \in Ready(c, k) /\ Sound(u, r)
  BY <1>5, MoveAbsToDraws
<1> HIDE DEF r
<1>7. r \in Terminal(c, k)
  BY <1>6, ReadyCursor
<1>8. Sound(t, r)
  BY <1>1, <1>4, <1>6, <1>7, SoundOn
<1> QED
  BY <1>3, <1>6, <1>8 DEF r

LEMMA ClearReady ==
  ASSUME NEW c \in Nat \ {0}, NEW k \in Nat \ {0}, NEW t \in Ready(c, k),
         NEW x0 \in Int, NEW y0 \in Int, NEW x1 \in Int, NEW y1 \in Int
  PROVE  /\ Clear(t, x0, y0, x1, y1) \in Ready(c, k) /\ Clear(t, x0, y0, x1, y1).cur = t.cur
         /\ Kept(t, Clear(t, x0, y0, x1, y1))
         /\ x0 <= x1 => Sound(t, Clear(t, x0, y0, x1, y1))
<1> DEFINE r == Clear(t, x0, y0, x1, y1)
<1>1. t \in Terminal(c, k) /\ t.cols = c /\ t.rows = k /\ t.top <= t.bottom /\ Inside(t)
  BY ReadyCursor DEF Ready, Ordered
<1>2. /\ r \in Terminal(c, k) /\ r.cur = t.cur /\ r.top = t.top /\ r.bottom = t.bottom
      /\ Kept(t, r) /\ (x0 <= x1 => Sound(t, r))
  BY <1>1, ClearDraws
<1> HIDE DEF r
<1>3. r.cols = c /\ r.rows = k
  BY <1>2, Fields
<1>4. r \in Ready(c, k)
  BY <1>1, <1>2, <1>3 DEF Ready, Ordered, Inside
<1> QED
  BY <1>2, <1>4 DEF r

LEMMA ClearAllDraws ==
  ASSUME NEW c \in Nat \ {0}, NEW k \in Nat \ {0}, NEW t \in Ready(c, k)
  PROVE  ClearAll(t) \in Ready(c, k) /\ Sound(t, ClearAll(t))
<1>1. t.cols - 1 \in Int /\ t.rows - 1 \in Int /\ 0 <= t.cols - 1
  BY ReadyCursor
<1> QED
  BY <1>1, ClearReady DEF ClearAll

LEMMA EraseLineDraws ==
  ASSUME NEW c \in Nat \ {0}, NEW k \in Nat \ {0}, NEW t \in Ready(c, k), NEW how \in 0 .. 2
  PROVE  EraseLine(t, how) \in Ready(c, k) /\ Sound(t, EraseLine(t, how))
<1> DEFINE a == IF how = 0 THEN t.cur.x ELSE 0
           b == IF how = 1 THEN t.cur.x ELSE t.cols - 1
           y == t.cur.y
<1>1. a \in Int /\ b \in Int /\ a <= b /\ y \in Int
  BY ReadyCursor
<1>2. EraseLine(t, how) = Clear(t, a, y, b, y)
  BY DEF EraseLine
<1> HIDE DEF a, b, y
<1> QED
  BY <1>1, <1>2, ClearReady

LEMMA EraseDisplayDraws ==
  ASSUME NEW c \in Nat \ {0}, NEW k \in Nat \ {0}, NEW t \in Ready(c, k), NEW how \in 0 .. 2
  PROVE  EraseDisplay(t, how) \in Ready(c, k) /\ Sound(t, EraseDisplay(t, how))
<1> DEFINE x == t.cur.x
           y == t.cur.y
           right == t.cols - 1
           below == t.rows - 1
<1>1. x \in Int /\ y \in Int /\ right \in Int /\ below \in Int /\ 0 <= x /\ x <= right /\ 0 <= right
  BY ReadyCursor
<1>2. t \in Terminal(c, k)
  BY ReadyCursor
<1>3. CASE how = 0
  <2> DEFINE s == Clear(t, x, y, right, y)
             r == IF y < below THEN Clear(s, 0, y + 1, right, below) ELSE s
  <2>1. EraseDisplay(t, how) = r
    BY <1>3 DEF EraseDisplay
  <2> HIDE DEF x, y, right, below
  <2>2. s \in Ready(c, k) /\ Sound(t, s)
    BY <1>1, ClearReady
  <2> HIDE DEF s
  <2> DEFINE u == Clear(s, 0, y + 1, right, below)
  <2>3. u \in Ready(c, k) /\ Sound(s, u)
    <3>1. y + 1 \in Int
      BY <1>1
    <3> QED
      BY <1>1, <2>2, <3>1, ClearReady
  <2> HIDE DEF u
  <2>4. Sound(t, u)
    BY <1>2, <2>2, <2>3, ReadyCursor, SoundOn
  <2>5. r \in Ready(c, k) /\ Sound(t, r)
    BY <2>2, <2>3, <2>4 DEF u
  <2> QED
    BY <2>1, <2>5
<1>4. CASE how = 1
  <2> DEFINE s == IF y > 1 THEN Clear(t, 0, 0, right, y - 1) ELSE t
             r == Clear(s, 0, y, x, y)
  <2>1. EraseDisplay(t, how) = r
    BY <1>4 DEF EraseDisplay
  <2> HIDE DEF x, y, right, below
  <2>2. s \in Ready(c, k) /\ Sound(t, s)
    <3>1. y - 1 \in Int
      BY <1>1
    <3>2. Sound(t, t)
      BY <1>2, SoundSame
    <3> QED
      BY <1>1, <3>1, <3>2, ClearReady
  <2> HIDE DEF s
  <2>3. r \in Ready(c, k) /\ Sound(s, r)
    BY <1>1, <2>2, ClearReady
  <2> HIDE DEF r
  <2>4. Sound(t, r)
    BY <1>2, <2>2, <2>3, ReadyCursor, SoundOn
  <2> QED
    BY <2>1, <2>3, <2>4
<1>5. CASE how = 2
  <2>1. EraseDisplay(t, how) = ClearAll(t)
    BY <1>5 DEF EraseDisplay
  <2> QED
    BY <2>1, ClearAllDraws
<1> QED
  BY <1>3, <1>4, <1>5

LEMMA ScrollReady ==
  ASSUME NEW c \in Nat \ {0}, NEW k \in Nat \ {0}, NEW t \in Ready(c, k), NEW orig \in 0 .. t.bottom,
         NEW m \in Int
  PROVE  /\ ScrollUp(t, orig, m) \in Ready(c, k) /\ Sound(t, ScrollUp(t, orig, m))
         /\ ScrollDown(t, orig, m) \in Ready(c, k) /\ Sound(t, ScrollDown(t, orig, m))
<1>1. t \in Terminal(c, k) /\ t.cols = c /\ t.rows = k /\ t.top <= t.bottom /\ Inside(t)
  BY ReadyCursor DEF Ready, Ordered
<1>2. ASSUME NEW r \in Terminal(c, k), r.cur = t.cur, r.top = t.top, r.bottom = t.bottom
      PROVE  r \in Ready(c, k)
  <2>1. r.cols = c /\ r.rows = k
    BY Fields
  <2> QED
    BY <1>1, <1>2, <2>1 DEF Ready, Ordered, Inside
<1> QED
  BY <1>1, <1>2, ScrollUpDraws, ScrollDownDraws

LEMMA EditLinesDraws ==
  ASSUME NEW c \in Nat \ {0}, NEW k \in Nat \ {0}, NEW t \in Ready(c, k), NEW n \in Int
  PROVE  /\ InsertBlankLines(t, n) \in Ready(c, k) /\ Sound(t, InsertBlankLines(t, n))
         /\ DeleteLines(t, n) \in Ready(c, k) /\ Sound(t, DeleteLines(t, n))
<1>1. t \in Terminal(c, k) /\ t.cur.y \in Nat
  BY ReadyCursor
<1>2. CASE t.cur.y \in t.top .. t.bottom
  <2>1. t.cur.y \in 0 .. t.bottom
    BY <1>1, <1>2, ReadyCursor
  <2> QED
    BY <1>2, <2>1, ScrollReady DEF InsertBlankLines, DeleteLines
<1>3. CASE t.cur.y \notin t.top .. t.bottom
  BY <1>1, <1>3, SoundSame DEF InsertBlankLines, DeleteLines
<1> QED
  BY <1>2, <1>3

LEMMA AlignmentTestDraws ==
  ASSUME NEW c \in Nat \ {0}, NEW k \in Nat \ {0}, NEW t \in Ready(c, k)
  PROVE  AlignmentTest(t) \in Ready(c, k) /\ Sound(t, AlignmentTest(t))
<1> DEFINE ls == [y \in DOMAIN t.lines |-> [x \in DOMAIN t.lines[y] |-> Narrow]]
           r == [t EXCEPT !.lines = ls]
<1>1. /\ t \in Terminal(c, k) /\ t.lines \in Grid(c, k) /\ t.cols = c /\ t.rows = k /\ t.top <= t.bottom
      /\ Inside(t)
  BY ReadyCursor, Fields DEF Ready, Ordered
<1>2. DOMAIN t.lines = 0 .. k - 1 /\ \A y \in 0 .. k - 1 : DOMAIN t.lines[y] = 0 .. c - 1
  BY <1>1 DEF Grid, LineOf
<1>3. ls \in Grid(c, k)
  BY <1>2 DEF Grid, LineOf, Cell
<1>4. \A y \in 0 .. k - 1 : WholeLine(ls[y])
  BY <1>2 DEF WholeLine, Narrow, Wide, Dummy
<1>5. AlignmentTest(t) = r
  BY DEF AlignmentTest
<1> HIDE DEF ls
<1>6. r \in Terminal(c, k) /\ r.cur = t.cur /\ r.top = t.top /\ r.bottom = t.bottom /\ Sound(t, r)
  BY <1>1, <1>3, <1>4, WithLines
<1> HIDE DEF r
<1>7. r.cols = c /\ r.rows = k
  <2>1. r \in Terminal(c, k)
    BY <1>6
  <2> QED
    BY <2>1 DEF Terminal
<1> QED
  BY <1>1, <1>5, <1>6, <1>7 DEF Ready, Ordered, Inside

LEMMA SetLineKept ==
  ASSUME NEW c \in Nat \ {0}, NEW k \in Nat \ {0}, NEW t \in Ready(c, k), NEW l \in LineOf(c)
  PROVE  SetLine(t, l) \in Ready(c, k) /\ SetLine(t, l).cur = t.cur /\ Kept(t, SetLine(t, l))
<1> DEFINE y == t.cur.y
           r == [t EXCEPT !.lines[y] = l]
<1>1. t \in Terminal(c, k) /\ y \in 0 .. k - 1 /\ t.cols = c /\ t.rows = k /\ t.top <= t.bottom /\ Inside(t)
  BY ReadyCursor DEF Ready, Ordered
<1>2. SetLine(t, l) = r
  BY DEF SetLine
<1> HIDE DEF y
<1>3. r \in Terminal(c, k) /\ r.cur = t.cur /\ r.top = t.top /\ r.bottom = t.bottom /\ Kept(t, r)
  BY <1>1, WithGlyph
<1> HIDE DEF r
<1>4. r.cols = c /\ r.rows = k
  <2>1. r \in Terminal(c, k)
    BY <1>3
  <2> QED
    BY <2>1 DEF Terminal
<1> QED
  BY <1>1, <1>2, <1>3, <1>4 DEF Ready, Ordered, Inside

(* Inserting and deleting cells may cut glyphs in two, and nothing else.   *)
LEMMA EditCharsKeep ==
  ASSUME NEW c \in Nat \ {0}, NEW k \in Nat \ {0}, NEW t \in Ready(c, k), NEW n \in Nat
  PROVE  /\ InsertBlanks(t, n) \in Ready(c, k) /\ Kept(t, InsertBlanks(t, n))
         /\ DeleteChars(t, n) \in Ready(c, k) /\ Kept(t, DeleteChars(t, n))
<1> DEFINE x == t.cur.x
           y == t.cur.y
           right == t.cols - 1
           l == t.lines[y]
           ahead == [i \in DOMAIN l |-> IF i >= x + n THEN l[i - n] ELSE l[i]]
           back == [i \in DOMAIN l |-> IF i >= x /\ i + n < t.cols THEN l[i + n] ELSE l[i]]
           blanked == Clear(t, x, y, right, y)
           inserted == Clear(SetLine(t, ahead), x, y, x + n - 1, y)
           deleted == Clear(SetLine(t, back), t.cols - n, y, right, y)
<1>1. /\ t \in Terminal(c, k) /\ t.lines \in Grid(c, k) /\ t.cols = c
      /\ x \in 0 .. c - 1 /\ y \in 0 .. k - 1 /\ right \in Int
  BY ReadyCursor, Fields
<1>2. l \in LineOf(c)
  BY <1>1 DEF Grid
<1>3. /\ InsertBlanks(t, n) = IF x + n >= t.cols THEN blanked ELSE inserted
      /\ DeleteChars(t, n) = IF x + n >= t.cols THEN blanked ELSE deleted
  BY DEF InsertBlanks, DeleteChars
<1> HIDE DEF x, y, right, l
<1>4. ahead \in LineOf(c) /\ back \in LineOf(c)
  <2>1. DOMAIN l = 0 .. c - 1 /\ \A i \in 0 .. c - 1 : l[i] \in Cell
    BY <1>2 DEF LineOf
  <2>2. \A i \in 0 .. c - 1 : /\ i >= x + n => i - n \in 0 .. c - 1
                              /\ i + n < t.cols => i + n \in 0 .. c - 1
    BY <1>1
  <2> QED
    BY <2>1, <2>2 DEF LineOf
<1> HIDE DEF ahead, back
<1>5. blanked \in Ready(c, k) /\ Kept(t, blanked)
  <2>1. x \in Int /\ y \in Int
    BY <1>1
  <2> QED
    BY <1>1, <2>1, ClearReady
<1>6. ASSUME NEW m \in LineOf(c), NEW a \in Int, NEW b \in Int
      PROVE  Clear(SetLine(t, m), a, y, b, y) \in Ready(c, k) /\ Kept(t, Clear(SetLine(t, m), a, y, b, y))
  <2> DEFINE s == SetLine(t, m)
  <2>1. s \in Ready(c, k) /\ Kept(t, s)
    BY SetLineKept
  <2> HIDE DEF s
  <2> DEFINE r == Clear(s, a, y, b, y)
  <2>2. r \in Ready(c, k) /\ Kept(s, r)
    <3>1. y \in Int
      BY <1>1
    <3> QED
      BY <2>1, <3>1, ClearReady
  <2> HIDE DEF r
  <2>3. s \in Terminal(c, k) /\ r \in Terminal(c, k)
    BY <2>1, <2>2, ReadyCursor
  <2>4. Kept(t, r)
    BY <1>1, <2>1, <2>2, <2>3, KeptOn
  <2> QED
    BY <2>2, <2>4 DEF r, s
<1>7. inserted \in Ready(c, k) /\ Kept(t, inserted)
  <2>1. x \in Int /\ x + n - 1 \in Int
    BY <1>1
  <2> QED
    BY <1>4, <1>6, <2>1
<1>8. deleted \in Ready(c, k) /\ Kept(t, deleted)
  <2>1. t.cols - n \in Int
    BY <1>1
  <2> QED
    BY <1>1, <1>4, <1>6, <2>1
<1> HIDE DEF inserted, deleted, blanked
<1> QED
  BY <1>3, <1>5, <1>7, <1>8

(* The region is still that of the old size.                               *)
Unscrolled(c, k) ==
    [cols : {c}, rows : {k}, lines : Grid(c, k), altLines : Grid(c, k), cur : Cursor, saved : Cursor,
     top : Int, bottom : Int, mode : SUBSET {"wrap", "crlf", "alt"}, tabs : SUBSET Nat,
     history : Seq(Line), serial : Nat]

LEMMA SetScrollScreen ==
  ASSUME NEW c \in Nat \ {0}, NEW k \in Nat \ {0}, NEW t \in Unscrolled(c, k), NEW a \in Int, NEW b \in Int
  PROVE  /\ SetScroll(t, a, b) \in Ordered(c, k)
         /\ SetScroll(t, a, b).history = t.history /\ SetScroll(t, a, b).serial = t.serial
<1> DEFINE top == Clamp(a, 0, k - 1)
           bottom == Clamp(b, 0, k - 1)
           first == IF top > bottom THEN bottom ELSE top
           last == IF top > bottom THEN top ELSE bottom
           r == [t EXCEPT !.top = first, !.bottom = last]
<1>1. top \in 0 .. k - 1 /\ bottom \in 0 .. k - 1
  BY ClampCell
<1>2. SetScroll(t, a, b) = r
  <2>1. t.rows = k
    BY DEF Unscrolled
  <2> QED
    BY <2>1 DEF SetScroll
<1> HIDE DEF top, bottom
<1>3. first \in 0 .. k - 1 /\ last \in 0 .. k - 1 /\ first <= last
  BY <1>1
<1> HIDE DEF first, last
<1>4. r \in Terminal(c, k) /\ r.top = first /\ r.bottom = last /\ r.history = t.history /\ r.serial = t.serial
  BY <1>3 DEF Terminal, Unscrolled
<1> HIDE DEF r
<1> QED
  BY <1>2, <1>3, <1>4 DEF Ordered

LEMMA SetScrollOrders ==
  ASSUME NEW c \in Nat \ {0}, NEW k \in Nat \ {0}, NEW t \in Terminal(c, k), NEW a \in Int, NEW b \in Int
  PROVE  /\ SetScroll(t, a, b) \in Ordered(c, k) /\ Sound(t, SetScroll(t, a, b))
         /\ SetScroll(t, a, b).cur = t.cur
<1> DEFINE top == Clamp(a, 0, k - 1)
           bottom == Clamp(b, 0, k - 1)
           first == IF top > bottom THEN bottom ELSE top
           last == IF top > bottom THEN top ELSE bottom
           r == [t EXCEPT !.top = first, !.bottom = last]
<1>1. top \in 0 .. k - 1 /\ bottom \in 0 .. k - 1
  BY ClampCell
<1>2. SetScroll(t, a, b) = r
  <2>1. t.rows = k
    BY Fields
  <2> QED
    BY <2>1 DEF SetScroll
<1> HIDE DEF top, bottom
<1>3. first \in 0 .. k - 1 /\ last \in 0 .. k - 1 /\ first <= last
  BY <1>1
<1> HIDE DEF first, last
<1>4. /\ r \in Terminal(c, k) /\ r.cur = t.cur /\ r.top = first /\ r.bottom = last
      /\ r.lines = t.lines /\ r.altLines = t.altLines /\ r.mode = t.mode /\ r.history = t.history
      /\ r.serial = t.serial
  BY <1>3 DEF Terminal
<1> HIDE DEF r
<1>5. Sound(t, r)
  BY <1>4, SoundSame
<1> QED
  BY <1>2, <1>3, <1>4, <1>5 DEF Ordered

(* DECSTBM: the cursor goes home, into the new region.                     *)
LEMMA RegionDraws ==
  ASSUME NEW c \in Nat \ {0}, NEW k \in Nat \ {0}, NEW t \in Ready(c, k), NEW a \in Int, NEW b \in Int
  PROVE  /\ MoveAbsTo(SetScroll(t, a, b), 0, 0) \in Ready(c, k)
         /\ Sound(t, MoveAbsTo(SetScroll(t, a, b), 0, 0))
<1> DEFINE s == SetScroll(t, a, b)
           r == MoveAbsTo(s, 0, 0)
<1>1. t \in Terminal(c, k)
  BY ReadyCursor
<1>2. s \in Ordered(c, k) /\ Sound(t, s)
  BY <1>1, SetScrollOrders
<1> HIDE DEF s
<1>3. r \in Ready(c, k) /\ Sound(s, r)
  BY <1>2, MoveAbsToDraws
<1> HIDE DEF r
<1>4. s \in Terminal(c, k) /\ r \in Terminal(c, k)
  BY <1>2, <1>3, ReadyCursor DEF Ordered
<1>5. Sound(t, r)
  BY <1>1, <1>2, <1>3, <1>4, SoundOn
<1> QED
  BY <1>3, <1>5 DEF r, s

(* What a step may do with the lines: a screen is swapped for the other.   *)
Turned(t, r) ==
    /\ Grown(t, r) /\ (Whole(t) => Whole(r))
    /\ AltScreen(t) /\ AltScreen(r) => r.history = t.history /\ r.altLines = t.altLines

LEMMA SoundSwitches == ASSUME NEW t, NEW r, Sound(t, r) PROVE Turned(t, r)
  BY DEF Sound, Kept, Turned

LEMMA SwapScreenSwaps ==
  ASSUME NEW c \in Nat \ {0}, NEW k \in Nat \ {0}, NEW t \in Ready(c, k)
  PROVE  /\ SwapScreen(t) \in Ready(c, k) /\ (Whole(t) => Whole(SwapScreen(t)))
         /\ SwapScreen(t).history = t.history /\ SwapScreen(t).serial = t.serial
         /\ (AltScreen(SwapScreen(t)) <=> ~AltScreen(t))
<1> DEFINE mode == IF AltScreen(t) THEN t.mode \ {"alt"} ELSE t.mode \cup {"alt"}
           ls == t.altLines
           other == t.lines
           r == [t EXCEPT !.lines = ls, !.altLines = other, !.mode = mode]
<1>1. /\ t \in Terminal(c, k) /\ t.cols = c /\ t.rows = k /\ t.top <= t.bottom /\ Inside(t)
      /\ t.mode \in SUBSET {"wrap", "crlf", "alt"} /\ ls \in Grid(c, k) /\ other \in Grid(c, k)
  BY ReadyCursor, Fields DEF Ready, Ordered
<1>2. mode \in SUBSET {"wrap", "crlf", "alt"} /\ ("alt" \in mode <=> ~AltScreen(t))
  BY <1>1 DEF AltScreen
<1>3. SwapScreen(t) = r
  BY DEF SwapScreen
<1> HIDE DEF mode, ls, other
<1>4. /\ r \in Terminal(c, k) /\ r.cur = t.cur /\ r.top = t.top /\ r.bottom = t.bottom
      /\ r.lines = ls /\ r.altLines = other /\ r.mode = mode /\ r.history = t.history
      /\ r.serial = t.serial
  BY <1>1, <1>2 DEF Terminal
<1> HIDE DEF r
<1>5. r.cols = c /\ r.rows = k
  <2>1. r \in Terminal(c, k)
    BY <1>4
  <2> QED
    BY <2>1 DEF Terminal
<1>6. r \in Ready(c, k)
  BY <1>1, <1>4, <1>5 DEF Ready, Ordered, Inside
<1>7. Whole(t) => Whole(r)
  BY <1>4 DEF Whole, ls, other
<1>8. AltScreen(r) <=> ~AltScreen(t)
  BY <1>2, <1>4 DEF AltScreen
<1> QED
  BY <1>3, <1>4, <1>6, <1>7, <1>8

LEMMA SetAltSwitches ==
  ASSUME NEW c \in Nat \ {0}, NEW k \in Nat \ {0}, NEW t \in Ready(c, k), NEW set \in BOOLEAN,
         NEW withCursor \in BOOLEAN
  PROVE  SetAlt(t, set, withCursor) \in Ready(c, k) /\ Turned(t, SetAlt(t, set, withCursor))
<1> DEFINE cleared == IF AltScreen(t) THEN ClearAll(t) ELSE t
           swapped == IF ~set \/ ~AltScreen(t) THEN SwapScreen(cleared) ELSE cleared
           r == IF ~withCursor THEN swapped ELSE IF set THEN SaveCursor(swapped) ELSE RestoreCursor(swapped)
<1>1. SetAlt(t, set, withCursor) = r
  BY DEF SetAlt
<1>2. t \in Terminal(c, k)
  BY ReadyCursor
<1>3. cleared \in Ready(c, k) /\ Sound(t, cleared)
  <2>1. Sound(t, t)
    BY <1>2, SoundSame
  <2> QED
    BY <2>1, ClearAllDraws
<1> HIDE DEF cleared
<1>4. cleared \in Terminal(c, k)
  BY <1>3, ReadyCursor
<1>5. /\ swapped \in Ready(c, k) /\ (Whole(t) => Whole(swapped)) /\ Grown(t, swapped)
      /\ AltScreen(t) /\ AltScreen(swapped) => swapped.history = t.history /\ swapped.altLines = t.altLines
  <2>1. CASE ~set \/ ~AltScreen(t)
    <3> DEFINE q == SwapScreen(cleared)
    <3>1. /\ q \in Ready(c, k) /\ (Whole(cleared) => Whole(q))
          /\ q.history = cleared.history /\ q.serial = cleared.serial
          /\ (AltScreen(q) <=> ~AltScreen(cleared))
      BY <1>3, SwapScreenSwaps
    <3>2. swapped = q
      BY <2>1
    <3> HIDE DEF q
    <3>3. AltScreen(cleared) <=> AltScreen(t)
      BY <1>3 DEF Sound, Kept
    <3>4. ~(AltScreen(t) /\ AltScreen(q))
      BY <3>1, <3>3
    <3>5. Grown(t, q)
      BY <1>3, <3>1 DEF Sound, Kept, Grown, Dropped
    <3>6. Whole(t) => Whole(q)
      BY <1>3, <3>1 DEF Sound
    <3> HIDE DEF swapped
    <3> QED
      BY <3>1, <3>2, <3>4, <3>5, <3>6
  <2>2. CASE ~(~set \/ ~AltScreen(t))
    <3>1. swapped = cleared
      BY <2>2
    <3> HIDE DEF swapped
    <3> QED
      BY <1>3, <3>1 DEF Sound, Kept
  <2> QED
    BY <2>1, <2>2
<1> HIDE DEF swapped
<1>6. swapped \in Terminal(c, k) /\ swapped \in Ordered(c, k)
  BY <1>5, ReadyCursor
<1>7. r \in Ready(c, k) /\ Sound(swapped, r)
  <2>1. Sound(swapped, swapped)
    BY <1>6, SoundSame
  <2> QED
    BY <1>5, <1>6, <2>1, SaveCursorDraws, RestoreCursorDraws
<1> HIDE DEF r
<1>8. r \in Terminal(c, k)
  BY <1>7, ReadyCursor
<1>9. Grown(t, r)
  BY <1>2, <1>5, <1>6, <1>7, <1>8, GrownOn DEF Sound, Kept
<1>10. AltScreen(t) /\ AltScreen(r) => r.history = t.history /\ r.altLines = t.altLines
  BY <1>5, <1>7 DEF Sound, Kept
<1>11. Whole(t) => Whole(r)
  BY <1>5, <1>7 DEF Sound
<1> QED
  BY <1>1, <1>7, <1>9, <1>10, <1>11 DEF Turned

LEMMA ResetDraws ==
  ASSUME NEW c \in Nat \ {0}, NEW k \in Nat \ {0}, NEW t \in Terminal(c, k)
  PROVE  Reset(t) \in Ready(c, k) /\ Turned(t, Reset(t)) /\ ~AltScreen(Reset(t))
<1> DEFINE home == HomeCursor
           last == t.rows - 1
           tabs == {x \in 1 .. t.cols - 1 : x % TabSpaces = 0}
           s == [t EXCEPT !.cur = home, !.saved = home, !.top = 0, !.bottom = last, !.mode = {"wrap"}, !.tabs = tabs]
           u == Clear(s, 0, 0, last, t.cols - 1)
           r == MoveTo(u, 0, 0)
<1>1. Reset(t) = r
  BY DEF Reset
<1>2. t.cols = c /\ t.rows = k
  BY Fields
<1>3. home \in Cursor
  BY DEF HomeCursor, Cursor
<1>4. last \in 0 .. k - 1 /\ last \in Int /\ t.cols - 1 \in Int /\ 0 <= last /\ tabs \in SUBSET Nat
  BY <1>2
<1> HIDE DEF home, last, tabs
<1>5. 0 \in 0 .. k - 1
  OBVIOUS
<1>6. /\ s \in Terminal(c, k) /\ s.top = 0 /\ s.bottom = last /\ s.mode = {"wrap"}
      /\ s.lines = t.lines /\ s.altLines = t.altLines /\ s.history = t.history /\ s.serial = t.serial
  BY <1>3, <1>4, <1>5 DEF Terminal
<1> HIDE DEF s
<1>7. u \in Terminal(c, k) /\ u.top = 0 /\ u.bottom = last /\ Sound(s, u)
  BY <1>4, <1>6, ClearDraws
<1> HIDE DEF u
<1>8. u \in Ordered(c, k)
  BY <1>4, <1>7 DEF Ordered
<1>9. r \in Ready(c, k) /\ Sound(u, r)
  <2>1. \A x, y \in Int : MoveTo(u, x, y) \in Ready(c, k) /\ Sound(u, MoveTo(u, x, y))
    BY <1>8, MoveToDraws
  <2> QED
    BY <2>1
<1> HIDE DEF r
<1>10. r \in Terminal(c, k)
  BY <1>9, ReadyCursor
<1>11. Sound(s, r)
  BY <1>6, <1>7, <1>9, <1>10, SoundOn
<1>12. Grown(t, r)
  BY <1>6, <1>11 DEF Sound, Kept, Grown, Dropped
<1>13. Whole(t) => Whole(r)
  <2>1. Whole(t) => Whole(s)
    BY <1>6 DEF Whole
  <2> QED
    BY <1>11, <2>1 DEF Sound
<1>14. ~AltScreen(s)
  BY <1>6 DEF AltScreen
<1>15. ~AltScreen(r)
  BY <1>11, <1>14 DEF Sound, Kept
<1> QED
  BY <1>1, <1>9, <1>12, <1>13, <1>15 DEF Turned

(* What a change of the size makes of a screen.                            *)
Fit(ls, c, k, cols, rows, slide) ==
    [y \in 0 .. rows - 1 |-> [x \in 0 .. cols - 1 |->
        IF y < Least(rows, k) /\ x < Least(cols, c) THEN ls[y + slide][x] ELSE Blank]]

LEMMA FitGrid ==
  ASSUME NEW c \in Nat \ {0}, NEW k \in Nat \ {0}, NEW ls \in Grid(c, k), NEW cols \in Nat \ {0},
         NEW rows \in Nat \ {0}, NEW slide \in Nat,
         \A y \in 0 .. rows - 1 : y < k => y + slide \in 0 .. k - 1
  PROVE  Fit(ls, c, k, cols, rows, slide) \in Grid(cols, rows)
<1>1. Least(rows, k) \in Nat /\ Least(rows, k) <= k /\ Least(cols, c) \in Nat /\ Least(cols, c) <= c
  BY DEF Least
<1>2. ASSUME NEW y \in 0 .. rows - 1, NEW x \in 0 .. cols - 1, y < Least(rows, k), x < Least(cols, c)
      PROVE  ls[y + slide][x] \in Cell
  <2>1. y < k /\ x < c
    BY <1>1, <1>2
  <2>2. y + slide \in 0 .. k - 1 /\ x \in 0 .. c - 1
    BY <2>1
  <2> QED
    BY <2>2 DEF Grid, LineOf
<1>3. Blank \in Cell
  BY DEF Cell
<1> QED
  BY <1>2, <1>3 DEF Grid, LineOf, Fit

LEMMA ResizeFits ==
  ASSUME NEW c \in Nat \ {0}, NEW k \in Nat \ {0}, NEW t \in Ready(c, k), NEW cols \in Nat \ {0},
         NEW rows \in Nat \ {0}
  PROVE  /\ Resize(t, cols, rows) \in Ready(cols, rows)
         /\ Resize(t, cols, rows).history = t.history /\ Resize(t, cols, rows).serial = t.serial
         /\ cols = c /\ rows = k => Resize(t, cols, rows) = t
<1> DEFINE slide == IF t.cur.y - rows + 1 > 0 THEN t.cur.y - rows + 1 ELSE 0
           lines == Fit(t.lines, t.cols, t.rows, cols, rows, slide)
           other == Fit(t.altLines, t.cols, t.rows, cols, rows, slide)
           tabs == {x \in t.tabs : x < cols}
           s == [t EXCEPT !.cols = cols, !.rows = rows, !.lines = lines, !.altLines = other, !.tabs = tabs]
           last == rows - 1
           v == SetScroll(s, 0, last)
           r == MoveTo(v, t.cur.x, t.cur.y)
<1>1. t \in Terminal(c, k) /\ t.cols = c /\ t.rows = k /\ t.cur.x \in Int /\ t.cur.y \in 0 .. k - 1
  BY ReadyCursor
<1>2. Resize(t, cols, rows) = IF cols = t.cols /\ rows = t.rows THEN t ELSE r
  BY DEF Resize, Fit
<1>3. slide \in Nat /\ \A y \in 0 .. rows - 1 : y < k => y + slide \in 0 .. k - 1
  BY <1>1
<1> HIDE DEF slide
<1>4. lines \in Grid(cols, rows) /\ other \in Grid(cols, rows)
  <2>1. t.lines \in Grid(c, k) /\ t.altLines \in Grid(c, k)
    BY <1>1, Fields
  <2> QED
    BY <1>1, <1>3, <2>1, FitGrid
<1>5. tabs \in SUBSET Nat
  BY <1>1, Fields
<1> HIDE DEF lines, other, tabs
<1>6. s \in Unscrolled(cols, rows) /\ s.history = t.history /\ s.serial = t.serial
  <2>1. t.top \in Int /\ t.bottom \in Int
    BY <1>1, Fields
  <2>2. t \in Terminal(c, k)
    BY <1>1
  <2> QED
    BY <1>4, <1>5, <2>1, <2>2 DEF Terminal, Unscrolled
<1> HIDE DEF s
<1>7. last \in Int
  OBVIOUS
<1> HIDE DEF last
<1>8. v \in Ordered(cols, rows) /\ v.history = t.history /\ v.serial = t.serial
  <2>1. \A a, b \in Int : /\ SetScroll(s, a, b) \in Ordered(cols, rows)
                          /\ SetScroll(s, a, b).history = s.history /\ SetScroll(s, a, b).serial = s.serial
    BY <1>6, SetScrollScreen
  <2>2. 0 \in Int
    OBVIOUS
  <2> QED
    BY <1>6, <1>7, <2>1, <2>2, Zenon
<1> HIDE DEF v
<1>9. r \in Ready(cols, rows) /\ r.history = v.history /\ r.serial = v.serial
  <2>1. v \in Ordered(cols, rows)
    BY <1>8
  <2>2. t.cur.x \in Int /\ t.cur.y \in Int
    BY <1>1
  <2> QED
    BY <2>1, <2>2, MoveToScreen
<1> HIDE DEF r
<1> QED
  BY <1>1, <1>2, <1>8, <1>9

LEMMA NewReady ==
  ASSUME NEW c \in Nat \ {0}, NEW k \in Nat \ {0}
  PROVE  New(c, k) \in Ready(c, k)
<1> DEFINE ls == BlankScreen(c, k)
           last == k - 1
           home == HomeCursor
           none == <<>>
           t == [cols |-> c, rows |-> k, lines |-> ls, altLines |-> ls, cur |-> home, saved |-> home, top |-> 0,
                 bottom |-> last, mode |-> {}, tabs |-> {}, history |-> none, serial |-> 0]
<1>1. ls \in Grid(c, k)
  BY BlankLineWhole DEF BlankScreen, Grid
<1>2. home \in Cursor /\ last \in 0 .. k - 1 /\ 0 \in 0 .. k - 1 /\ none \in Seq(Line)
  BY DEF HomeCursor, Cursor
<1>3. New(c, k) = Reset(t)
  BY DEF New
<1> HIDE DEF ls, last, home, none
<1>4. t \in Terminal(c, k)
  BY <1>1, <1>2 DEF Terminal
<1> HIDE DEF t
<1> QED
  BY <1>3, <1>4, ResetDraws

-----------------------------------------------------------------------------
(* The steps of a view.                                                    *)

KeyMode == [flags : Flags, stack : Seq(Flags)]
KeyStates == [alt : BOOLEAN, mode : [BOOLEAN -> KeyMode], other : BOOLEAN, otherMain : BOOLEAN]

ViewInv ==
    /\ \E c, k \in Nat \ {0} : vt \in Ready(c, k)
    /\ offset \in 0 .. Len(vt.history)
    /\ keys \in KeyStates

(* What a step of the program does to the terminal and the window.         *)
Program(c, k) ==
    /\ vt' \in Ready(c, k) /\ Grown(vt, vt') /\ offset' = Followed(vt')
    /\ AltScreen(vt) /\ AltScreen(vt') => vt'.history = vt.history /\ vt'.altLines = vt.altLines
    /\ Whole(vt) /\ ~Cuts => Whole(vt')

LEMMA OutputTurns ==
  ASSUME NEW c \in Nat \ {0}, NEW k \in Nat \ {0}, NEW t \in Ready(c, k), Turned(vt, t), Output(t)
  PROVE  Program(c, k)
  BY DEF Program, Output, Turned

LEMMA OutputDraws ==
  ASSUME NEW c \in Nat \ {0}, NEW k \in Nat \ {0}, NEW t \in Ready(c, k), Sound(vt, t), Output(t)
  PROVE  Program(c, k)
  BY OutputTurns, SoundSwitches

LEMMA ParseDraws ==
  ASSUME NEW c \in Nat \ {0}, NEW k \in Nat \ {0}, vt \in Ready(c, k), Parse
  PROVE  Program(c, k) /\ UNCHANGED keys
<1>1. PICK width \in 0 .. 2 : Draws(PutGlyph(vt, width))
  BY DEF Parse
<1>2. PutGlyph(vt, width) \in Ready(c, k) /\ Sound(vt, PutGlyph(vt, width))
  BY PutGlyphDraws
<1> QED
  BY <1>1, <1>2, OutputDraws DEF Draws

LEMMA ControlCodesDraw ==
  ASSUME NEW c \in Nat \ {0}, NEW k \in Nat \ {0}, vt \in Ready(c, k), ControlCodes
  PROVE  Program(c, k) /\ UNCHANGED keys
<1>1. vt.cur.x - 1 \in Int /\ vt.cur.y \in Int /\ 0 \in Int
  BY ReadyCursor
<1>2. ASSUME NEW t \in Ready(c, k), Sound(vt, t), Draws(t)
      PROVE  Program(c, k) /\ UNCHANGED keys
  BY <1>2, OutputDraws DEF Draws
<1>3. CASE Draws(PutTab(vt, TRUE))
  BY <1>2, <1>3, PutTabDraws
<1>4. CASE Draws(MoveTo(vt, vt.cur.x - 1, vt.cur.y))
  BY <1>1, <1>2, <1>4, MoveToReady
<1>5. CASE Draws(MoveTo(vt, 0, vt.cur.y))
  BY <1>1, <1>2, <1>5, MoveToReady
<1>6. CASE Draws(Newline(vt, "crlf" \in vt.mode))
  <2>1. ("crlf" \in vt.mode) \in BOOLEAN
    OBVIOUS
  <2> QED
    BY <1>2, <1>6, <2>1, NewlineDraws
<1> QED
  BY <1>3, <1>4, <1>5, <1>6 DEF ControlCodes

LEMMA ParseEscDraws ==
  ASSUME NEW c \in Nat \ {0}, NEW k \in Nat \ {0}, vt \in Ready(c, k), ParseEsc
  PROVE  Program(c, k) /\ UNCHANGED keys
<1>1. /\ vt \in Terminal(c, k) /\ vt \in Ordered(c, k) /\ vt.cur.x \in Nat /\ vt.cur.y \in Int
      /\ vt.top \in 0 .. vt.bottom /\ 1 \in Int /\ vt.tabs \in SUBSET Nat
      /\ vt.cur.y + 1 \in Int /\ vt.cur.y - 1 \in Int
  BY ReadyCursor, Fields
<1>2. ASSUME NEW t \in Ready(c, k), Sound(vt, t), Draws(t)
      PROVE  Program(c, k) /\ UNCHANGED keys
  BY <1>2, OutputDraws DEF Draws
<1>3. CASE Draws(IF vt.cur.y = vt.bottom THEN ScrollUp(vt, vt.top, 1) ELSE MoveTo(vt, vt.cur.x, vt.cur.y + 1))
  <2>1. ScrollUp(vt, vt.top, 1) \in Ready(c, k) /\ Sound(vt, ScrollUp(vt, vt.top, 1))
    BY <1>1, ScrollReady
  <2>2. MoveTo(vt, vt.cur.x, vt.cur.y + 1) \in Ready(c, k) /\ Sound(vt, MoveTo(vt, vt.cur.x, vt.cur.y + 1))
    BY <1>1, MoveToReady
  <2> QED
    BY <1>2, <1>3, <2>1, <2>2
<1>4. CASE Draws(IF vt.cur.y = vt.top THEN ScrollDown(vt, vt.top, 1) ELSE MoveTo(vt, vt.cur.x, vt.cur.y - 1))
  <2>1. ScrollDown(vt, vt.top, 1) \in Ready(c, k) /\ Sound(vt, ScrollDown(vt, vt.top, 1))
    BY <1>1, ScrollReady
  <2>2. MoveTo(vt, vt.cur.x, vt.cur.y - 1) \in Ready(c, k) /\ Sound(vt, MoveTo(vt, vt.cur.x, vt.cur.y - 1))
    BY <1>1, MoveToReady
  <2> QED
    BY <1>2, <1>4, <2>1, <2>2
<1>5. CASE Draws(Newline(vt, TRUE))
  BY <1>2, <1>5, NewlineDraws
<1>6. CASE Draws([vt EXCEPT !.tabs = @ \cup {vt.cur.x}])
  <2> DEFINE tabs == vt.tabs \cup {vt.cur.x}
  <2>1. tabs \in SUBSET Nat
    BY <1>1
  <2> HIDE DEF tabs
  <2>2. [vt EXCEPT !.tabs = tabs] \in Ready(c, k) /\ Sound(vt, [vt EXCEPT !.tabs = tabs])
    BY <2>1, WithTabs
  <2>3. Draws([vt EXCEPT !.tabs = tabs])
    BY <1>6 DEF tabs
  <2> QED
    BY <1>2, <2>2, <2>3
<1>7. CASE Draws(SaveCursor(vt))
  BY <1>2, <1>7, SaveCursorDraws
<1>8. CASE Draws(RestoreCursor(vt))
  BY <1>1, <1>2, <1>8, RestoreCursorDraws
<1>9. CASE Draws(AlignmentTest(vt))
  BY <1>2, <1>9, AlignmentTestDraws
<1> QED
  BY <1>3, <1>4, <1>5, <1>6, <1>7, <1>8, <1>9 DEF ParseEsc

LEMMA MoveCSIDraws ==
  ASSUME NEW c \in Nat \ {0}, NEW k \in Nat \ {0}, vt \in Ready(c, k), MoveCSI
  PROVE  Program(c, k) /\ UNCHANGED keys
<1> DEFINE x == vt.cur.x
           y == vt.cur.y
<1>1. x \in Nat /\ y \in Int /\ vt.tabs \in SUBSET Nat /\ vt \in Ordered(c, k) /\ 0 \in Int
  BY ReadyCursor, Fields
<1>2. ASSUME NEW t \in Ready(c, k), Sound(vt, t), Draws(t)
      PROVE  Program(c, k) /\ UNCHANGED keys
  BY <1>2, OutputDraws DEF Draws
<1>3. \A n \in Counts : n \in Int
  BY PaneViewAssumption
<1>4. ASSUME NEW n \in Counts,
             NEW to \in {<<x, y - n>>, <<x, y + n>>, <<x + n, y>>, <<x - n, y>>, <<0, y + n>>, <<0, y - n>>, <<n - 1, y>>},
             Draws(MoveTo(vt, to[1], to[2]))
      PROVE  Program(c, k) /\ UNCHANGED keys
  <2> HIDE DEF x, y
  <2>1. to[1] \in Int /\ to[2] \in Int
    BY <1>1, <1>3
  <2> QED
    BY <1>2, <1>4, <2>1, MoveToReady
<1>5. ASSUME NEW n \in Counts, NEW m \in Counts, Draws(MoveAbsTo(vt, n - 1, m - 1))
      PROVE  Program(c, k) /\ UNCHANGED keys
  <2>1. n - 1 \in Int /\ m - 1 \in Int
    BY <1>3
  <2> QED
    BY <1>1, <1>2, <1>5, <2>1, MoveAbsToDraws
<1>6. ASSUME NEW n \in Counts, Draws(MoveAbsTo(vt, x, n - 1))
      PROVE  Program(c, k) /\ UNCHANGED keys
  <2>1. n - 1 \in Int /\ x \in Int
    BY <1>1, <1>3
  <2> QED
    BY <1>1, <1>2, <1>6, <2>1, MoveAbsToDraws
<1>7. CASE Draws(PutTab(vt, FALSE))
  BY <1>2, <1>7, PutTabDraws
<1>8. CASE Draws([vt EXCEPT !.tabs = @ \ {x}])
  <2> DEFINE tabs == vt.tabs \ {x}
  <2>1. tabs \in SUBSET Nat
    BY <1>1
  <2>2. Draws([vt EXCEPT !.tabs = tabs])
    BY <1>8
  <2> HIDE DEF tabs
  <2>3. [vt EXCEPT !.tabs = tabs] \in Ready(c, k) /\ Sound(vt, [vt EXCEPT !.tabs = tabs])
    BY <2>1, WithTabs
  <2> QED
    BY <1>2, <2>2, <2>3
<1>9. CASE Draws([vt EXCEPT !.tabs = {}])
  <2>1. {} \in SUBSET Nat
    OBVIOUS
  <2>2. [vt EXCEPT !.tabs = {}] \in Ready(c, k) /\ Sound(vt, [vt EXCEPT !.tabs = {}])
    BY <2>1, WithTabs
  <2> QED
    BY <1>2, <1>9, <2>2
<1> QED
  BY <1>4, <1>5, <1>6, <1>7, <1>8, <1>9 DEF MoveCSI

LEMMA EditCSIDraws ==
  ASSUME NEW c \in Nat \ {0}, NEW k \in Nat \ {0}, vt \in Ready(c, k), EditCSI
  PROVE  Program(c, k) /\ UNCHANGED keys
<1>1. vt.cur.x \in Int /\ vt.cur.y \in Int /\ vt.top \in 0 .. vt.bottom
  <2>1. vt.cur.x \in 0 .. c - 1 /\ vt.cur.y \in 0 .. k - 1 /\ vt.top \in 0 .. vt.bottom
    BY ReadyCursor
  <2> QED
    BY <2>1
<1>2. ASSUME NEW t \in Ready(c, k), Sound(vt, t), Draws(t)
      PROVE  Program(c, k) /\ UNCHANGED keys
  BY <1>2, OutputDraws DEF Draws
<1>3. \A n \in Counts : n \in Nat /\ n \in Int /\ n >= 1
  BY PaneViewAssumption
<1>4. ASSUME NEW how \in 0 .. 2, Draws(EraseDisplay(vt, how)) \/ Draws(EraseLine(vt, how))
      PROVE  Program(c, k) /\ UNCHANGED keys
  BY <1>2, <1>4, EraseDisplayDraws, EraseLineDraws
<1>5. ASSUME NEW n \in Counts, Draws(InsertBlanks(vt, n)) \/ Draws(DeleteChars(vt, n))
      PROVE  Program(c, k) /\ UNCHANGED keys
  <2>1. n \in Nat
    BY <1>3
  <2>2. vt' \in Ready(c, k) /\ Kept(vt, vt') /\ offset' = Followed(vt') /\ UNCHANGED keys
    BY <1>5, <2>1, EditCharsKeep DEF Draws, Output
  <2>3. Cuts
    BY <1>5 DEF Draws, Output, Cuts
  <2> QED
    BY <2>2, <2>3 DEF Program, Kept
<1>6. ASSUME NEW n \in Counts, Draws(InsertBlankLines(vt, n)) \/ Draws(DeleteLines(vt, n))
      PROVE  Program(c, k) /\ UNCHANGED keys
  BY <1>2, <1>3, <1>6, EditLinesDraws
<1>7. ASSUME NEW n \in Counts, Draws(ScrollUp(vt, vt.top, n)) \/ Draws(ScrollDown(vt, vt.top, n))
      PROVE  Program(c, k) /\ UNCHANGED keys
  BY <1>1, <1>2, <1>3, <1>7, ScrollReady
<1>8. ASSUME NEW n \in Counts, Draws(Clear(vt, vt.cur.x, vt.cur.y, vt.cur.x + n - 1, vt.cur.y))
      PROVE  Program(c, k) /\ UNCHANGED keys
  <2> DEFINE x == vt.cur.x
             y == vt.cur.y
             z == x + n - 1
  <2>1. x \in Int /\ y \in Int /\ z \in Int /\ x <= z
    BY <1>1, <1>3
  <2>2. Draws(Clear(vt, x, y, z, y))
    BY <1>8
  <2> HIDE DEF x, y, z
  <2> QED
    BY <1>2, <2>1, <2>2, ClearReady
<1> QED
  BY <1>4, <1>5, <1>6, <1>7, <1>8 DEF EditCSI

LEMMA ModeCSIDraws ==
  ASSUME NEW c \in Nat \ {0}, NEW k \in Nat \ {0}, vt \in Ready(c, k), ModeCSI
  PROVE  Program(c, k) /\ UNCHANGED keys
<1>1. ASSUME NEW t \in Ready(c, k), Sound(vt, t), Draws(t)
      PROVE  Program(c, k) /\ UNCHANGED keys
  BY <1>1, OutputDraws DEF Draws
<1>2. ASSUME NEW set \in BOOLEAN,
             Draws(SetMode(vt, set, "wrap")) \/ Draws(SetMode(vt, set, "crlf")) \/ Draws(SetOrigin(vt, set))
      PROVE  Program(c, k) /\ UNCHANGED keys
  BY <1>1, <1>2, SetModeDraws, SetOriginDraws
<1>3. ASSUME NEW a \in Counts, NEW b \in Counts, Draws(MoveAbsTo(SetScroll(vt, a - 1, b - 1), 0, 0))
      PROVE  Program(c, k) /\ UNCHANGED keys
  <2>1. a - 1 \in Int /\ b - 1 \in Int
    BY PaneViewAssumption
  <2> QED
    BY <1>1, <1>3, <2>1, RegionDraws
<1> QED
  BY <1>2, <1>3 DEF ModeCSI

LEMMA SwitchedKeys ==
  ASSUME keys \in KeyStates, NEW set \in BOOLEAN, keys' = Switched(set)
  PROVE  keys' \in KeyStates /\ ShellKeysStay
  BY DEF KeyStates, Switched, ShellKeysStay

LEMMA NoKeysTyped == NoMode \in KeyMode /\ NoKeys \in KeyStates
<1>1. NoMode \in KeyMode
  BY PaneViewAssumption DEF NoMode, KeyMode
<1> QED
  BY <1>1 DEF NoKeys, KeyStates

LEMMA ModeTyped ==
  ASSUME keys \in KeyStates
  PROVE  Mode \in KeyMode /\ Mode.flags \in Flags /\ Mode.stack \in Seq(Flags) /\ KeyView = keys.alt
  BY DEF KeyStates, KeyMode, Mode, KeyView

LEMMA OneModeKeys ==
  ASSUME keys \in KeyStates, NEW m \in KeyMode, keys' = [keys EXCEPT !.mode[KeyView] = m]
  PROVE  keys' \in KeyStates /\ ShellKeysStay
<1> DEFINE modes == [keys.mode EXCEPT ![keys.alt] = m]
<1>1. keys' = [keys EXCEPT !.mode = modes]
  BY DEF KeyStates, KeyView
<1>2. keys.mode \in [BOOLEAN -> KeyMode] /\ keys.alt \in BOOLEAN
  BY DEF KeyStates
<1>3. modes \in [BOOLEAN -> KeyMode] /\ (keys.alt => modes[FALSE] = keys.mode[FALSE])
  BY <1>2
<1> HIDE DEF modes
<1>4. keys' \in KeyStates /\ keys'.mode = modes /\ keys'.alt = keys.alt /\ keys'.otherMain = keys.otherMain
  BY <1>1, <1>3 DEF KeyStates
<1> QED
  BY <1>3, <1>4 DEF ShellKeysStay

LEMMA PushedKeys ==
  ASSUME keys \in KeyStates, NEW flags \in Flags, PushKeys(flags)
  PROVE  keys' \in KeyStates /\ ShellKeysStay
<1> DEFINE room == IF Len(Mode.stack) = StackLimit THEN Tail(Mode.stack) ELSE Mode.stack
           stack == Append(room, Mode.flags)
           m == [flags |-> flags, stack |-> stack]
<1>1. room \in Seq(Flags)
  <2>1. StackLimit \in Nat \ {0}
    BY PaneViewAssumption
  <2>2. Len(Mode.stack) = StackLimit => Mode.stack # <<>>
    BY <2>1, ModeTyped
  <2> QED
    BY <2>2, ModeTyped, HeadTailProperties
<1> HIDE DEF room
<1>2. stack \in Seq(Flags)
  BY <1>1, ModeTyped
<1> HIDE DEF stack
<1>3. m \in KeyMode
  BY <1>2 DEF KeyMode
<1>4. keys' = [keys EXCEPT !.mode[KeyView] = m]
  BY DEF PushKeys, stack, room
<1> HIDE DEF m
<1> QED
  BY <1>3, <1>4, OneModeKeys

LEMMA ReplacedKeys ==
  ASSUME keys \in KeyStates, NEW flags \in Flags, ReplaceKeys(flags)
  PROVE  keys' \in KeyStates /\ ShellKeysStay
<1> DEFINE m == [Mode EXCEPT !.flags = flags]
<1>1. m \in KeyMode
  BY ModeTyped DEF KeyMode
<1>2. keys' = [keys EXCEPT !.mode[KeyView] = m]
  BY DEF ReplaceKeys, Mode, KeyStates, KeyView
<1> HIDE DEF m
<1> QED
  BY <1>1, <1>2, OneModeKeys

LEMMA PoppedKeys ==
  ASSUME keys \in KeyStates, NEW n \in Nat \ {0}, PopKeys(n)
  PROVE  keys' \in KeyStates /\ ShellKeysStay
<1> DEFINE left == Len(Mode.stack) - n
           kept == [flags |-> Mode.stack[left + 1], stack |-> SubSeq(Mode.stack, 1, left)]
           m == IF left < 0 THEN NoMode ELSE kept
<1>1. ASSUME ~(left < 0)
      PROVE  kept \in KeyMode
  <2>1. Mode.stack \in Seq(Flags)
    BY ModeTyped
  <2>2. left + 1 \in 1 .. Len(Mode.stack) /\ left \in 0 .. Len(Mode.stack)
    BY <1>1, <2>1
  <2>3. Mode.stack[left + 1] \in Flags
    BY <2>1, <2>2
  <2>4. SubSeq(Mode.stack, 1, left) \in Seq(Flags)
    BY <2>1, <2>2
  <2> QED
    BY <2>3, <2>4 DEF KeyMode
<1>2. m \in KeyMode
  BY <1>1, NoKeysTyped
<1>3. keys' = [keys EXCEPT !.mode[KeyView] = m]
  BY DEF PopKeys
<1> HIDE DEF m
<1> QED
  BY <1>2, <1>3, OneModeKeys

LEMMA KeyboardCSIDraws ==
  ASSUME NEW c \in Nat \ {0}, NEW k \in Nat \ {0}, vt \in Ready(c, k), keys \in KeyStates, KeyboardCSI
  PROVE  Program(c, k) /\ keys' \in KeyStates /\ ShellKeysStay
<1>1. Program(c, k)
  <2>1. vt \in Ordered(c, k) /\ Output(RestoreCursor(vt))
    BY ReadyCursor DEF KeyboardCSI
  <2> QED
    BY <2>1, RestoreCursorDraws, OutputDraws
<1>2. CASE \E f \in Flags : PushKeys(f) \/ ReplaceKeys(f)
  BY <1>1, <1>2, PushedKeys, ReplacedKeys
<1>3. CASE \E n \in Counts : PopKeys(n)
  <2>1. Counts \subseteq Nat \ {0}
    BY PaneViewAssumption
  <2> QED
    BY <1>1, <1>3, <2>1, PoppedKeys
<1>4. CASE QueryKeys
  BY <1>1, <1>4 DEF QueryKeys, ShellKeysStay, KeyStates
<1> QED
  BY <1>2, <1>3, <1>4 DEF KeyboardCSI

LEMMA AltCSITurns ==
  ASSUME NEW c \in Nat \ {0}, NEW k \in Nat \ {0}, vt \in Ready(c, k), keys \in KeyStates,
         NEW set \in BOOLEAN, AltCSI(set)
  PROVE  Program(c, k) /\ keys' \in KeyStates /\ ShellKeysStay
<1>1. PICK withCursor \in BOOLEAN : Output(SetAlt(vt, set, withCursor))
  BY DEF AltCSI
<1>2. Program(c, k)
  BY <1>1, SetAltSwitches, OutputTurns
<1>3. keys' = Switched(set)
  BY DEF AltCSI
<1> QED
  BY <1>2, <1>3, SwitchedKeys

LEMMA ParseResetTurns ==
  ASSUME NEW c \in Nat \ {0}, NEW k \in Nat \ {0}, vt \in Ready(c, k), ParseReset
  PROVE  Program(c, k) /\ keys' \in KeyStates /\ ShellKeysStay
<1>1. Reset(vt) \in Ready(c, k) /\ Turned(vt, Reset(vt))
  BY ReadyCursor, ResetDraws
<1>2. Program(c, k)
  BY <1>1, OutputTurns DEF ParseReset
<1> QED
  BY <1>2, NoKeysTyped DEF ParseReset, ShellKeysStay

LEMMA OtherKeysTurn ==
  ASSUME NEW c \in Nat \ {0}, NEW k \in Nat \ {0}, vt \in Ready(c, k), keys \in KeyStates,
         NEW on \in BOOLEAN, OtherKeys(on)
  PROVE  Program(c, k) /\ keys' \in KeyStates /\ ShellKeysStay
<1>1. Sound(vt, vt)
  BY ReadyCursor, SoundSame
<1>2. Program(c, k)
  BY <1>1, OutputDraws DEF OtherKeys
<1>3. keys' \in KeyStates /\ ShellKeysStay
  BY DEF OtherKeys, KeyStates, ShellKeysStay
<1> QED
  BY <1>2, <1>3

(* The steps of the program.                                               *)
ProgramStep ==
    \/ Parse \/ ControlCodes \/ ParseEsc \/ ParseReset \/ MoveCSI \/ EditCSI \/ ModeCSI \/ KeyboardCSI
    \/ \E set \in BOOLEAN : AltCSI(set) \/ OtherKeys(set)

LEMMA ProgramStepDraws ==
  ASSUME NEW c \in Nat \ {0}, NEW k \in Nat \ {0}, vt \in Ready(c, k), keys \in KeyStates, ProgramStep
  PROVE  Program(c, k) /\ keys' \in KeyStates /\ ShellKeysStay
<1>1. ASSUME UNCHANGED keys
      PROVE  keys' \in KeyStates /\ ShellKeysStay
  BY <1>1 DEF ShellKeysStay, KeyStates
<1>2. CASE Parse \/ ControlCodes \/ ParseEsc \/ MoveCSI \/ EditCSI \/ ModeCSI
  BY <1>1, <1>2, ParseDraws, ControlCodesDraw, ParseEscDraws, MoveCSIDraws, EditCSIDraws, ModeCSIDraws
<1>3. CASE ParseReset
  BY <1>3, ParseResetTurns
<1>4. CASE KeyboardCSI
  BY <1>4, KeyboardCSIDraws
<1>5. CASE \E set \in BOOLEAN : AltCSI(set) \/ OtherKeys(set)
  BY <1>5, AltCSITurns, OtherKeysTurn
<1> QED
  BY <1>2, <1>3, <1>4, <1>5 DEF ProgramStep

(* The steps of the user leave the terminal and the keyboard alone.        *)
Looks ==
    \/ FinishSelection \/ ClearSelection \/ GoLive
    \/ \E d \in {1, -1} : Scroll(d)
    \/ \E y \in 0 .. vt.rows - 1 : StartSelection(y) \/ ExtendSelection(y)

(* Every step is one of the program, of the layout or of the user.         *)
LEMMA NextIs == ViewNext <=> ProgramStep \/ Resizes \/ Looks
  BY DEF ViewNext, ProgramStep, Looks

LEMMA UserLooks ==
  ASSUME ViewInv, Looks
  PROVE  UNCHANGED <<vt, keys>> /\ offset' \in 0 .. Len(vt.history)
<1>1. Len(vt.history) \in Nat /\ offset \in 0 .. Len(vt.history)
  BY Serials, ReadyCursor DEF ViewInv
<1>2. CASE \E d \in {1, -1} : Scroll(d)
  <2>1. PICK d \in {1, -1} : Scroll(d)
    BY <1>2
  <2>2. offset + d \in Int
    BY <1>1
  <2>3. Clamp(offset + d, 0, Len(vt.history)) \in 0 .. Len(vt.history)
    BY <1>1, <2>2, ClampCount
  <2> QED
    BY <2>1, <2>3 DEF Scroll, HistoryLen
<1>3. CASE GoLive
  BY <1>1, <1>3 DEF GoLive
<1>4. CASE FinishSelection \/ ClearSelection
  BY <1>1, <1>4 DEF FinishSelection, ClearSelection, Selects
<1>5. CASE \E y \in 0 .. vt.rows - 1 : StartSelection(y) \/ ExtendSelection(y)
  BY <1>1, <1>5 DEF StartSelection, ExtendSelection, Selects
<1> QED
  BY <1>2, <1>3, <1>4, <1>5 DEF Looks

LEMMA SizesSound == \A s \in Sizes : s[1] \in Nat \ {0} /\ s[2] \in Nat \ {0}
  BY PaneViewAssumption

LEMMA ResizeSteps ==
  ASSUME NEW c \in Nat \ {0}, NEW k \in Nat \ {0}, vt \in Ready(c, k), Resizes
  PROVE  /\ \E d, h \in Nat \ {0} : vt' \in Ready(d, h)
         /\ vt'.history = vt.history /\ vt'.serial = vt.serial /\ UNCHANGED <<keys, offset>>
         /\ vt' = vt \/ <<vt'.cols, vt'.rows>> # <<vt.cols, vt.rows>>
<1>1. PICK s \in Sizes : vt' = Resize(vt, s[1], s[2])
  BY DEF Resizes
<1>2. s[1] \in Nat \ {0} /\ s[2] \in Nat \ {0}
  BY SizesSound
<1> DEFINE d == s[1]
           h == s[2]
<1>3. /\ d \in Nat \ {0} /\ h \in Nat \ {0} /\ vt' = Resize(vt, d, h)
  BY <1>1, <1>2
<1> HIDE DEF d, h
<1>4. /\ vt' \in Ready(d, h) /\ vt'.history = vt.history /\ vt'.serial = vt.serial
      /\ d = c /\ h = k => vt' = vt
  <2> DEFINE r == Resize(vt, d, h)
  <2>1. /\ r \in Ready(d, h) /\ r.history = vt.history /\ r.serial = vt.serial
        /\ d = c /\ h = k => r = vt
    <3>1. d \in Nat \ {0} /\ h \in Nat \ {0}
      BY <1>3
    <3> QED
      BY <3>1, ResizeFits
  <2>2. vt' = r
    BY <1>3
  <2> HIDE DEF r
  <2> QED
    BY <2>1, <2>2
<1>5. vt.cols = c /\ vt.rows = k /\ vt'.cols = d /\ vt'.rows = h
  BY <1>3, <1>4, ReadyCursor
<1>6. vt' = vt \/ <<vt'.cols, vt'.rows>> # <<vt.cols, vt.rows>>
  BY <1>4, <1>5
<1> QED
  BY <1>3, <1>4, <1>6 DEF Resizes

(* The window follows what is added, and no further than the history goes. *)
LEMMA FollowedInside ==
  ASSUME NEW c \in Nat \ {0}, NEW k \in Nat \ {0}, vt \in Ready(c, k), offset \in 0 .. Len(vt.history),
         Program(c, k)
  PROVE  offset' \in 0 .. Len(vt'.history)
<1>1. vt \in Terminal(c, k) /\ vt' \in Terminal(c, k)
  BY ReadyCursor DEF Program
<1>2. /\ vt.serial \in Nat /\ Len(vt.history) \in Nat
      /\ vt'.serial \in Nat /\ Len(vt'.history) \in Nat
  BY <1>1, Serials
<1>3. vt.serial <= vt'.serial /\ offset' = Followed(vt')
  BY DEF Program, Grown
<1> QED
  BY <1>2, <1>3 DEF Followed, Least

LEMMA InitViewInv == ViewInit => ViewInv
<1> SUFFICES ASSUME ViewInit PROVE ViewInv
  OBVIOUS
<1>1. PICK s \in Sizes : vt = New(s[1], s[2])
  BY DEF ViewInit
<1>2. s[1] \in Nat \ {0} /\ s[2] \in Nat \ {0} /\ vt \in Ready(s[1], s[2])
  BY <1>1, SizesSound, NewReady
<1>3. Len(vt.history) \in Nat
  BY <1>2, ReadyCursor, Serials
<1> QED
  BY <1>2, <1>3, NoKeysTyped DEF ViewInit, ViewInv

LEMMA NextViewInv == ViewInv /\ [ViewNext]_viewVars => ViewInv'
<1> SUFFICES ASSUME ViewInv, [ViewNext]_viewVars PROVE ViewInv'
  OBVIOUS
<1>1. PICK c \in Nat \ {0}, k \in Nat \ {0} : vt \in Ready(c, k)
  BY DEF ViewInv
<1>2. CASE ProgramStep
  <2>1. Program(c, k) /\ keys' \in KeyStates
    BY <1>1, <1>2, ProgramStepDraws DEF ViewInv
  <2>2. offset' \in 0 .. Len(vt'.history)
    BY <1>1, <2>1, FollowedInside DEF ViewInv
  <2> QED
    BY <2>1, <2>2 DEF ViewInv, Program
<1>3. CASE Resizes
  BY <1>1, <1>3, ResizeSteps DEF ViewInv
<1>4. CASE Looks
  BY <1>4, UserLooks DEF ViewInv
<1>5. CASE UNCHANGED viewVars
  BY <1>5 DEF ViewInv, viewVars
<1> QED
  BY <1>2, <1>3, <1>4, <1>5, NextIs

LEMMA ViewInvInside == ViewInv => CursorInside
<1> SUFFICES ASSUME ViewInv PROVE CursorInside
  OBVIOUS
<1>1. PICK c \in Nat \ {0}, k \in Nat \ {0} : vt \in Ready(c, k)
  BY DEF ViewInv
<1>2. vt.top \in 0 .. vt.bottom /\ vt.bottom \in 0 .. k - 1 /\ vt.rows = k /\ Inside(vt)
  BY <1>1, ReadyCursor DEF Ready
<1>3. 0 <= vt.top /\ vt.top <= vt.bottom /\ vt.bottom < vt.rows
  BY <1>2
<1> QED
  BY <1>2, <1>3 DEF CursorInside, Inside, ViewInv, HistoryLen

LEMMA ViewInvariance == ViewSpec => []ViewInv
  BY InitViewInv, NextViewInv, PTL DEF ViewSpec

(* After every sequence and every change of the size, the cursor is a cell *)
(* of the screen or of its region and the window shows lines there are     *)
(* (state.go: moveTo, restoreCursor, resize; pane.go: writeOutput).        *)
THEOREM CursorStaysInside == ViewSpec => []CursorInside
  BY ViewInvariance, ViewInvInside, PTL

LEMMA NextShellStays == ViewInv /\ [ViewNext]_viewVars => ShellStays /\ ShellKeysStay
<1> SUFFICES ASSUME ViewInv, [ViewNext]_viewVars PROVE ShellStays /\ ShellKeysStay
  OBVIOUS
<1>1. PICK c \in Nat \ {0}, k \in Nat \ {0} : vt \in Ready(c, k)
  BY DEF ViewInv
<1>2. ASSUME UNCHANGED keys
      PROVE  ShellKeysStay
  BY <1>2 DEF ShellKeysStay, ViewInv, KeyStates
<1>3. CASE ProgramStep
  <2>1. Program(c, k) /\ ShellKeysStay
    BY <1>1, <1>3, ProgramStepDraws DEF ViewInv
  <2> QED
    BY <2>1 DEF Program, ShellStays
<1>4. CASE Resizes
  BY <1>1, <1>2, <1>4, ResizeSteps DEF ShellStays
<1>5. CASE Looks
  BY <1>2, <1>5, UserLooks DEF ShellStays
<1>6. CASE UNCHANGED viewVars
  BY <1>2, <1>6 DEF ShellStays, viewVars
<1> QED
  BY <1>3, <1>4, <1>5, <1>6, NextIs

(* A full-screen program leaves the shell's screen, its scrollback and its *)
(* key encoding alone (state.go: pushHistory; pane.go:                     *)
(* keyboardProtocolMode).                                                  *)
THEOREM ShellIsLeft == ViewSpec => AltLeavesShell
<1>1. ViewInv /\ [ViewNext]_viewVars => [ShellStays /\ ShellKeysStay]_viewVars
  BY NextShellStays
<1> QED
  BY <1>1, ViewInvariance, PTL DEF ViewSpec, AltLeavesShell

LEMMA NextWhole == ViewInv /\ [ViewNext]_viewVars => (Whole(vt) /\ ~Cuts => Whole(vt'))
<1> SUFFICES ASSUME ViewInv, [ViewNext]_viewVars, Whole(vt), ~Cuts PROVE Whole(vt')
  OBVIOUS
<1>1. PICK c \in Nat \ {0}, k \in Nat \ {0} : vt \in Ready(c, k)
  BY DEF ViewInv
<1>2. CASE ProgramStep
  <2>1. Program(c, k)
    BY <1>1, <1>2, ProgramStepDraws DEF ViewInv
  <2> QED
    BY <2>1 DEF Program
<1>3. CASE Resizes
  BY <1>1, <1>3, ResizeSteps DEF Cuts
<1>4. CASE Looks
  BY <1>4, UserLooks
<1>5. CASE UNCHANGED viewVars
  BY <1>5 DEF viewVars
<1> QED
  BY <1>2, <1>3, <1>4, <1>5, NextIs

(* No sequence leaves half of a wide glyph on a screen or in the           *)
(* scrollback, but for those that insert or delete cells and a change of   *)
(* the size (state.go: clearWideAt).                                       *)
THEOREM GlyphsStayWhole == ViewSpec => GlyphsWhole
<1>1. ViewInv /\ [ViewNext]_viewVars => [Whole(vt) /\ ~Cuts => Whole(vt')]_viewVars
  BY NextWhole
<1> QED
  BY <1>1, ViewInvariance, PTL DEF ViewSpec, GlyphsWhole

(* A row of the window that is in the scrollback, by the number of its     *)
(* line.                                                                   *)
LEMMA RenderedLine ==
  ASSUME NEW c \in Nat \ {0}, NEW k \in Nat \ {0}, NEW t \in Terminal(c, k),
         NEW o \in 0 .. Len(t.history), NEW y \in Nat, y < o
  PROVE  Rendered(t, o, y) = t.history[(t.serial - o + y + 1) - Dropped(t)]
<1>1. Len(t.history) \in Nat /\ t.serial \in Nat
  BY Serials
<1> DEFINE lt == Len(t.history)
           s == t.serial
<1>2. lt \in Nat /\ s \in Nat /\ o \in 0 .. lt
  BY <1>1
<1>3. Rendered(t, o, y) = LineText(t, lt - Least(o, lt) + y)
  BY DEF Rendered
<1>4. Dropped(t) = s - lt
  BY DEF Dropped
<1>5. LineText(t, lt - o + y) = IF lt - o + y < lt THEN t.history[lt - o + y + 1]
                                ELSE IF lt - o + y - lt \in DOMAIN t.lines THEN t.lines[lt - o + y - lt] ELSE <<>>
  BY DEF LineText
<1> HIDE DEF lt, s
<1>6. Least(o, lt) = o /\ lt - o + y < lt /\ lt - o + y + 1 = (s - o + y + 1) - (s - lt)
  BY <1>2 DEF Least
<1>7. Rendered(t, o, y) = t.history[lt - o + y + 1]
  BY <1>3, <1>5, <1>6
<1> QED
  BY <1>4, <1>6, <1>7 DEF s

LEMMA ProgramWindowStays ==
  ASSUME NEW c \in Nat \ {0}, NEW k \in Nat \ {0}, vt \in Ready(c, k), offset \in 0 .. Len(vt.history),
         Program(c, k)
  PROVE  WindowStays
<1> SUFFICES ASSUME offset > 0, vt.serial - offset >= Dropped(vt'), NEW y \in 0 .. vt.rows - 1, y < offset
             PROVE  Rendered(vt', offset', y) = Rendered(vt, offset, y)
  BY DEF WindowStays
<1>1. vt \in Terminal(c, k) /\ vt' \in Terminal(c, k) /\ y \in Nat
  BY ReadyCursor DEF Program
<1>2. /\ vt.serial \in Nat /\ Len(vt.history) \in Nat /\ vt'.serial \in Nat /\ Len(vt'.history) \in Nat
      /\ Dropped(vt) \in Int /\ Dropped(vt') \in Int
  BY <1>1, Serials
<1>3. Grown(vt, vt') /\ offset' = Followed(vt')
  BY DEF Program
<1>4. /\ offset' = offset + vt'.serial - vt.serial /\ offset' \in 0 .. Len(vt'.history)
      /\ y < offset'
  <2> DEFINE a == vt.serial
             b == vt'.serial
             h == Len(vt'.history)
             o == offset
  <2>1. offset' = IF o = 0 THEN 0 ELSE IF h < o + b - a THEN h ELSE o + b - a
    BY <1>3 DEF Followed, Least
  <2>2. a \in Nat /\ b \in Nat /\ h \in Nat /\ o \in Nat \ {0} /\ y \in Nat /\ y < o
    BY <1>1, <1>2
  <2>3. a <= b
    BY <1>3 DEF Grown
  <2>4. a - o >= b - h
    BY DEF Dropped
  <2> HIDE DEF a, b, h, o
  <2>5. o + b - a \in 0 .. h /\ ~(h < o + b - a) /\ o # 0 /\ y < o + b - a
    BY <2>2, <2>3, <2>4
  <2>6. offset' = o + b - a
    BY <2>1, <2>5
  <2> QED
    BY <2>5, <2>6 DEF a, b, h, o
<1>5. y < offset'
  BY <1>4
<1>a. Rendered(vt, offset, y) = vt.history[(vt.serial - offset + y + 1) - Dropped(vt)]
  <2>1. vt \in Terminal(c, k) /\ offset \in 0 .. Len(vt.history) /\ y \in Nat /\ y < offset
    BY <1>1
  <2> QED
    BY <2>1, RenderedLine
<1>b. Rendered(vt', offset', y) = vt'.history[(vt'.serial - offset' + y + 1) - Dropped(vt')]
  <2>1. vt' \in Terminal(c, k) /\ offset' \in 0 .. Len(vt'.history) /\ y \in Nat /\ y < offset'
    BY <1>1, <1>4, <1>5
  <2> QED
    BY <2>1, RenderedLine
<1> DEFINE s == vt.serial
           o == offset
           d == Dropped(vt')
           p == s - o + y + 1
<1>6. vt'.serial - offset' = s - o
  BY <1>2, <1>4
<1>7. s \in Nat /\ o \in Nat /\ y \in Nat /\ y < o /\ s - o >= d /\ d \in Int
  BY <1>1, <1>2
<1>8. Rendered(vt, offset, y) = vt.history[p - Dropped(vt)]
  BY <1>a
<1>9. Rendered(vt', offset', y) = vt'.history[p - d]
  BY <1>6, <1>b, Zenon
<1>10. p \in d + 1 .. s
  <2> HIDE DEF s, o, d
  <2> QED
    BY <1>7
<1>11. vt'.history[p - d] = vt.history[p - Dropped(vt)]
  BY <1>3, <1>10 DEF Grown
<1> HIDE DEF p
<1> QED
  BY <1>8, <1>9, <1>11

LEMMA NextWindowStays == ViewInv /\ [ViewNext]_viewVars => (Prints => WindowStays)
<1> SUFFICES ASSUME ViewInv, [ViewNext]_viewVars, Prints PROVE WindowStays
  OBVIOUS
<1>1. PICK c \in Nat \ {0}, k \in Nat \ {0} : vt \in Ready(c, k)
  BY DEF ViewInv
<1>2. CASE ProgramStep
  BY <1>1, <1>2, ProgramStepDraws, ProgramWindowStays DEF ViewInv
<1>3. CASE Resizes
  <2>1. PICK d \in Nat \ {0}, h \in Nat \ {0} : vt' \in Ready(d, h)
    BY <1>1, <1>3, ResizeSteps
  <2>2. vt'.history = vt.history /\ vt'.serial = vt.serial /\ UNCHANGED offset
    BY <1>1, <1>3, ResizeSteps
  <2>3. vt \in Terminal(c, k) /\ vt' \in Terminal(d, h) /\ offset \in 0 .. Len(vt.history) /\ vt.rows = k
    BY <1>1, <2>1, ReadyCursor DEF ViewInv
  <2>4. Dropped(vt') = Dropped(vt)
    BY <2>2 DEF Dropped
  <2>5. ASSUME NEW y \in 0 .. vt.rows - 1, y < offset
        PROVE  Rendered(vt', offset', y) = Rendered(vt, offset, y)
    <3>1. y \in Nat
      BY <2>3
    <3>2. Rendered(vt, offset, y) = vt.history[(vt.serial - offset + y + 1) - Dropped(vt)]
      BY <2>3, <2>5, <3>1, RenderedLine
    <3>3. Rendered(vt', offset, y) = vt'.history[(vt'.serial - offset + y + 1) - Dropped(vt')]
      BY <2>2, <2>3, <2>5, <3>1, RenderedLine
    <3> QED
      BY <2>2, <2>4, <3>2, <3>3
  <2> QED
    BY <2>5 DEF WindowStays
<1>4. CASE Looks
  BY <1>4, UserLooks DEF Prints
<1>5. CASE UNCHANGED viewVars
  BY <1>5 DEF Prints, viewVars
<1> QED
  BY <1>2, <1>3, <1>4, <1>5, NextIs

(* A window that is scrolled back stays on the lines it shows, also when   *)
(* the scrollback is full, until the cap takes one of them (pane.go:       *)
(* writeOutput).                                                           *)
THEOREM WindowStaysPut == ViewSpec => ViewStays
<1>1. ViewInv /\ [ViewNext]_viewVars => [Prints => WindowStays]_viewVars
  BY NextWindowStays
<1> QED
  BY <1>1, ViewInvariance, PTL DEF ViewSpec, ViewStays
=============================================================================
