--------------------------- MODULE CallbacksProofs ---------------------------
(***************************************************************************)
(* Proofs about the two dispatchers of callbacks, for any number of        *)
(* callbacks, frames, listeners and emits: the queues of the event loop    *)
(* (EventLoop) and the listener tables of the native layer (Emitter).      *)
(*                                                                         *)
(* LoopInv is inductive: the FIFOs are increasing and hold different       *)
(* callbacks (Fifos), and every animation frame callback is either in the  *)
(* part of the array its frame will read, or has run, or was overtaken     *)
(* (Frames).                                                               *)
(*                                                                         *)
(* TableInv is inductive: ids are given out once (IdInv); an emit under    *)
(* which nobody else shrank the array has what it owes ahead of its index  *)
(* (DueInv) and the listener it calls at its index (CallInv); a            *)
(* once-listener was called as often as it is being called (OnceInv).      *)
(***************************************************************************)
EXTENDS EventLoop, Emitter, SeqFacts, FiniteSetTheorems

(* The event loop.                                                         *)

\* q holds callbacks queued before the one numbered m, in the order they were
\* queued.
InOrder(q, m) ==
    /\ \A a \in 1 .. Len(q) : q[a] < m
    /\ \A a, b \in 1 .. Len(q) : a < b => q[a] < q[b]

Fifos == InOrder(tasks, next) /\ InOrder(micros, next) /\ InOrder(detached, next)

\* The callback is still ahead of the loop of this render phase.
Ahead(k) == \E a \in ri + 1 .. rn : raf[a] = k

Frames ==
    /\ pc = "raf" => frame > 0
    /\ \A k \in Items : regFrame[k] <= frame /\ (k >= next => regFrame[k] = -1)
    /\ \A a \in 1 .. rafN : regFrame[raf[a]] = frame
    /\ \A r \in rafRan : r[2] = regFrame[r[1]] + 1 \/ r[2] \in overtaken
    /\ \A r \in rafRan : r[1] < next
    /\ \A a \in 1 .. Len(raf) : raf[a] < next
    /\ pc = "raf" => \/ frame \in overtaken
                     \/ \A a \in ri + 1 .. rn : regFrame[raf[a]] = frame - 1
    /\ \A k \in Items : regFrame[k] = frame => \E a \in 1 .. rafN : raf[a] = k
    /\ \A k \in Items : regFrame[k] \in 0 .. frame - 1 =>
         \/ <<k, regFrame[k] + 1>> \in rafRan
         \/ regFrame[k] + 1 \in overtaken
         \/ pc = "raf" /\ regFrame[k] = frame - 1 /\ Ahead(k)

\* The microtasks are drained when run_one_task begins.
Drained == pc = "task" => micros = <<>> /\ ~inCb

LoopInv == TypeOK /\ NothingQueuedTwice /\ Fifos /\ Drained /\ Frames

-----------------------------------------------------------------------------
(* The queues                                                              *)

\* Queueing at the end of a FIFO keeps its order.
LEMMA EnqueueInOrder ==
    ASSUME NEW m \in Items, NEW q \in Seq(Items), InOrder(q, m)
    PROVE  /\ Append(q, m) \in Seq(Items)
           /\ InOrder(Append(q, m), m + 1)
           /\ ToSet(Append(q, m)) = ToSet(q) \cup {m}
<1>1. m \in Int /\ \A a \in 1 .. Len(q) : q[a] \in Int
  BY LoopAssumption DEF Items
<1>2. /\ Append(q, m) \in Seq(Items) /\ Len(Append(q, m)) = Len(q) + 1
      /\ Append(q, m)[Len(q) + 1] = m
      /\ \A a \in 1 .. Len(q) : Append(q, m)[a] = q[a]
  OBVIOUS
<1>3. ToSet(Append(q, m)) = ToSet(q) \cup {m}
  BY AppendFacts
<1>. HIDE DEF Items
<1>4. \A a \in 1 .. Len(q) + 1 : a = Len(q) + 1 \/ a \in 1 .. Len(q)
  OBVIOUS
<1>5. InOrder(Append(q, m), m + 1)
  BY <1>1, <1>2, <1>4 DEF InOrder
<1>. QED
  BY <1>2, <1>3, <1>5

\* What is in a FIFO was queued before now, and stays so.
LEMMA KeepInOrder ==
    ASSUME NEW m \in Items, NEW q \in Seq(Items), InOrder(q, m)
    PROVE  InOrder(q, m + 1) /\ m \notin ToSet(q)
<1>1. m \in Int /\ \A a \in 1 .. Len(q) : q[a] \in Int
  BY LoopAssumption DEF Items
<1>. QED
  BY <1>1 DEF InOrder, ToSet

\* Unlinking the head keeps the order, and the head is older than the rest.
LEMMA DequeueInOrder ==
    ASSUME NEW m \in Nat, NEW q \in Seq(Items), q # <<>>, InOrder(q, m)
    PROVE  /\ Tail(q) \in Seq(Items)
           /\ InOrder(Tail(q), m)
           /\ ToSet(q) = ToSet(Tail(q)) \cup {Head(q)}
           /\ \A k \in ToSet(Tail(q)) : Head(q) < k
<1>1. /\ Len(q) \in Nat \ {0} /\ Tail(q) \in Seq(Items)
      /\ Len(Tail(q)) = Len(q) - 1 /\ Head(q) = q[1]
      /\ \A a \in 1 .. Len(q) - 1 : Tail(q)[a] = q[a + 1]
  OBVIOUS
<1>2. ToSet(q) = ToSet(Tail(q)) \cup {Head(q)}
  BY TailFacts
<1>3. InOrder(Tail(q), m)
  BY <1>1 DEF InOrder
<1>4. \A k \in ToSet(Tail(q)) : Head(q) < k
  BY <1>1 DEF InOrder, ToSet
<1>. QED
  BY <1>1, <1>2, <1>3, <1>4

\* A step that leaves the frames alone, or only moves between phases that are
\* no render phase, keeps what is said of them.
LEMMA FramesKept ==
    ASSUME TypeOK, Frames, next' \in {next, next + 1},
           UNCHANGED <<raf, rafN, rn, ri, frame, regFrame, rafRan, overtaken>>,
           pc' = pc \/ (pc # "raf" /\ pc' # "raf")
    PROVE  Frames'
<1>1. \A k \in Items : k \in Int /\ regFrame[k] \in Int
  BY LoopAssumption DEF TypeOK, Items
<1>2. /\ \A a \in 1 .. Len(raf) : raf[a] \in Items
      /\ \A r \in rafRan : r[1] \in Items
      /\ next \in Int
  BY DEF TypeOK
<1>3. \A k \in Items : Ahead(k)' <=> Ahead(k)
  BY DEF Ahead
<1>. QED
  BY <1>1, <1>2, <1>3 DEF Frames

\* mini_eventloop_create
LEMMA LoopInit == Init => LoopInv
<1>. SUFFICES ASSUME Init PROVE LoopInv
  OBVIOUS
<1>1. <<>> \in Seq(Items) /\ ToSet(<<>>) = {} /\ Len(<<>>) = 0
  BY EmptyFacts
<1>2. TypeOK
  <2>1. regFrame \in [Items -> -1 .. MaxFrames]
    BY LoopAssumption DEF Init
  <2>2. /\ next \in 1 .. MaxItems + 1 /\ frame \in 0 .. MaxFrames
        /\ rafN \in 0 .. Len(raf) /\ rn \in 0 .. Len(raf) /\ ri \in 0 .. rn
    BY <1>1, LoopAssumption DEF Init
  <2>3. pc = "host" /\ inCb \in BOOLEAN /\ rafRan = {} /\ overtaken = {}
    BY DEF Init
  <2>4. /\ tasks \in Seq(Items) /\ micros \in Seq(Items) /\ detached \in Seq(Items)
        /\ raf \in Seq(Items)
    BY <1>1 DEF Init
  <2>. QED
    BY <2>1, <2>2, <2>3, <2>4 DEF TypeOK
<1>3. NothingQueuedTwice
  BY <1>1 DEF Init, NothingQueuedTwice
<1>4. Fifos
  BY <1>1 DEF Init, Fifos, InOrder
<1>5. Frames
  BY <1>1, LoopAssumption DEF Init, Frames, Items
<1>. QED
  BY <1>2, <1>3, <1>4, <1>5 DEF LoopInv, Init, Drained

\* mini_eventloop_queue_task
LEMMA LoopQueueTask ==
    ASSUME LoopInv, QueueTask
    PROVE  LoopInv'
<1>. USE DEF LoopInv, QueueTask, MayCall
<1>1. next \in Items /\ next \in Nat /\ next + 1 \in 1 .. MaxItems + 1
  BY LoopAssumption DEF TypeOK, Items
<1>2. tasks \in Seq(Items) /\ micros \in Seq(Items) /\ detached \in Seq(Items)
  BY DEF TypeOK
<1>3. /\ tasks' \in Seq(Items) /\ InOrder(tasks', next')
      /\ ToSet(tasks') = ToSet(tasks) \cup {next}
  BY <1>1, <1>2, EnqueueInOrder DEF Fifos
<1>4. /\ InOrder(micros, next + 1) /\ next \notin ToSet(micros)
      /\ InOrder(detached, next + 1) /\ next \notin ToSet(detached)
  BY <1>1, <1>2, KeepInOrder DEF Fifos
<1>5. TypeOK'
  BY <1>1, <1>3 DEF TypeOK
<1>6. NothingQueuedTwice' /\ Fifos'
  BY <1>3, <1>4 DEF NothingQueuedTwice, Fifos
<1>7. Frames'
  BY FramesKept
<1>. QED
  BY <1>5, <1>6, <1>7 DEF Drained

\* mini_eventloop_queue_microtask
LEMMA LoopQueueMicrotask ==
    ASSUME LoopInv, QueueMicrotask
    PROVE  LoopInv'
<1>. USE DEF LoopInv, QueueMicrotask, MayCall
<1>1. next \in Items /\ next \in Nat /\ next + 1 \in 1 .. MaxItems + 1
  BY LoopAssumption DEF TypeOK, Items
<1>2. tasks \in Seq(Items) /\ micros \in Seq(Items) /\ detached \in Seq(Items)
  BY DEF TypeOK
<1>3. /\ micros' \in Seq(Items) /\ InOrder(micros', next')
      /\ ToSet(micros') = ToSet(micros) \cup {next}
  BY <1>1, <1>2, EnqueueInOrder DEF Fifos
<1>4. /\ InOrder(tasks, next + 1) /\ next \notin ToSet(tasks)
      /\ InOrder(detached, next + 1) /\ next \notin ToSet(detached)
  BY <1>1, <1>2, KeepInOrder DEF Fifos
<1>5. TypeOK'
  BY <1>1, <1>3 DEF TypeOK
<1>6. NothingQueuedTwice' /\ Fifos'
  BY <1>3, <1>4 DEF NothingQueuedTwice, Fifos
<1>7. Frames'
  BY FramesKept
<1>. QED
  BY <1>5, <1>6, <1>7 DEF Drained

\* Taking the head of a queue, moving a queue to the detached list, and the
\* steps from one phase to the next.
LEMMA LoopQueues ==
    ASSUME LoopInv,
           \/ DrainMicrotask \/ DrainDone \/ RunOneTask \/ PumpBegin
           \/ CallbackReturns
           \/ DestroyBegin \/ DestroyRuns \/ DestroyMicros \/ DestroyFree
    PROVE  LoopInv'
<1>. USE DEF LoopInv, queues
<1>1. /\ tasks \in Seq(Items) /\ micros \in Seq(Items) /\ detached \in Seq(Items)
      /\ next \in Nat
  BY DEF TypeOK
<1>2. <<>> \in Seq(Items) /\ ToSet(<<>>) = {} /\ InOrder(<<>>, next)
  BY EmptyFacts DEF InOrder
<1>3. CASE DrainMicrotask
  <2>1. /\ micros' \in Seq(Items) /\ InOrder(micros', next)
        /\ ToSet(micros') \subseteq ToSet(micros)
    BY <1>1, <1>3, DequeueInOrder DEF DrainMicrotask, Fifos
  <2>2. TypeOK'
    BY <1>3, <2>1 DEF TypeOK, DrainMicrotask
  <2>3. NothingQueuedTwice' /\ Fifos'
    BY <1>3, <2>1 DEF NothingQueuedTwice, Fifos, DrainMicrotask
  <2>4. Frames'
    BY <1>3, FramesKept DEF DrainMicrotask
  <2>. QED
    BY <1>3, <2>2, <2>3, <2>4 DEF Drained, DrainMicrotask
<1>4. CASE RunOneTask
  <2>1. /\ tasks' \in Seq(Items) /\ InOrder(tasks', next)
        /\ ToSet(tasks') \subseteq ToSet(tasks)
    <3>1. CASE tasks = <<>>
      BY <1>1, <1>4, <3>1 DEF RunOneTask, Fifos
    <3>2. CASE tasks # <<>>
      <4>1. tasks' = Tail(tasks) /\ InOrder(tasks, next)
        BY <1>4, <3>2 DEF RunOneTask, Fifos
      <4>. QED
        BY <1>1, <3>2, <4>1, DequeueInOrder
    <3>. QED
      BY <3>1, <3>2
  <2>2. inCb' \in BOOLEAN
    BY <1>4 DEF RunOneTask, TypeOK
  <2>3. TypeOK'
    BY <1>4, <2>1, <2>2 DEF TypeOK, RunOneTask
  <2>4. NothingQueuedTwice' /\ Fifos'
    BY <1>4, <2>1 DEF NothingQueuedTwice, Fifos, RunOneTask
  <2>5. Frames'
    BY <1>4, FramesKept DEF RunOneTask
  <2>. QED
    BY <1>4, <2>3, <2>4, <2>5 DEF Drained, RunOneTask
<1>5. CASE DestroyRuns
  <2>1. /\ detached' \in Seq(Items) /\ InOrder(detached', next)
        /\ ToSet(detached') \subseteq ToSet(detached)
    BY <1>1, <1>5, DequeueInOrder DEF DestroyRuns, Fifos
  <2>2. TypeOK'
    BY <1>5, <2>1 DEF TypeOK, DestroyRuns
  <2>3. NothingQueuedTwice' /\ Fifos'
    BY <1>5, <2>1 DEF NothingQueuedTwice, Fifos, DestroyRuns
  <2>4. Frames'
    BY <1>5, FramesKept DEF DestroyRuns
  <2>. QED
    BY <1>5, <2>2, <2>3, <2>4 DEF Drained, DestroyRuns
<1>6. CASE DestroyBegin
  <2>1. TypeOK'
    BY <1>6, <1>2 DEF TypeOK, DestroyBegin
  <2>2. NothingQueuedTwice' /\ Fifos'
    BY <1>6, <1>2 DEF NothingQueuedTwice, Fifos, DestroyBegin
  <2>3. Frames'
    BY <1>6, FramesKept DEF DestroyBegin
  <2>. QED
    BY <1>6, <2>1, <2>2, <2>3 DEF Drained, DestroyBegin
<1>7. CASE DestroyMicros
  <2>1. TypeOK'
    BY <1>7, <1>2 DEF TypeOK, DestroyMicros
  <2>2. NothingQueuedTwice' /\ Fifos'
    BY <1>7, <1>2 DEF NothingQueuedTwice, Fifos, DestroyMicros
  <2>3. Frames'
    BY <1>7, FramesKept DEF DestroyMicros
  <2>. QED
    BY <1>7, <2>1, <2>2, <2>3 DEF Drained, DestroyMicros
<1>8. CASE DrainDone \/ PumpBegin \/ CallbackReturns \/ DestroyFree
  <2>. USE DEF DrainDone, PumpBegin, CallbackReturns, DestroyFree
  <2>1. TypeOK'
    BY <1>8 DEF TypeOK
  <2>2. NothingQueuedTwice' /\ Fifos'
    BY <1>8 DEF NothingQueuedTwice, Fifos
  <2>3. Frames'
    BY <1>8, FramesKept
  <2>. QED
    BY <1>8, <2>1, <2>2, <2>3 DEF Drained
<1>. QED
  BY <1>3, <1>4, <1>5, <1>6, <1>7, <1>8

-----------------------------------------------------------------------------
(* The animation frames                                                    *)

\* What the types say of the array and of the history.
LEMMA FrameTypes ==
    ASSUME TypeOK
    PROVE  /\ \A k \in Items : k \in Int /\ regFrame[k] \in Int
           /\ \A a \in 1 .. Len(raf) : raf[a] \in Items
           /\ \A r \in rafRan : r[1] \in Items /\ r[2] \in Int
           /\ next \in Nat /\ frame \in Nat /\ rafN \in Nat /\ rn \in Nat
           /\ ri \in Nat /\ Len(raf) \in Nat
           /\ rafN <= Len(raf) /\ rn <= Len(raf) /\ ri <= rn
<1>1. \A k \in Items : k \in Int /\ regFrame[k] \in Int
  BY LoopAssumption DEF TypeOK, Items
<1>2. \A a \in 1 .. Len(raf) : raf[a] \in Items
  BY DEF TypeOK
<1>3. \A r \in rafRan : r[1] \in Items /\ r[2] \in Int
  BY DEF TypeOK
<1>4. /\ next \in Nat /\ frame \in Nat /\ rafN \in Nat /\ rn \in Nat
      /\ ri \in Nat /\ Len(raf) \in Nat
      /\ rafN <= Len(raf) /\ rn <= Len(raf) /\ ri <= rn
  BY DEF TypeOK
<1>. QED
  BY <1>1, <1>2, <1>3, <1>4

\* raf[raf_n++] = cb: a new callback takes the slot after the ones registered
\* since the frame began; if the loop has yet to read that slot, the frame is
\* overtaken.
LEMMA LoopAddRaf ==
    ASSUME LoopInv, AddRaf
    PROVE  LoopInv'
<1>. USE DEF LoopInv, AddRaf, MayCall
<1>1. next \in Items /\ next \in Nat /\ next + 1 \in 1 .. MaxItems + 1
  BY LoopAssumption DEF TypeOK, Items
<1>2. /\ raf' \in Seq(Items) /\ raf'[rafN + 1] = next /\ rafN + 1 \in 1 .. Len(raf')
      /\ Len(raf') >= Len(raf)
      /\ \A a \in 1 .. Len(raf') : a # rafN + 1 =>
            a \in 1 .. Len(raf) /\ raf'[a] = raf[a]
      /\ \A a \in 1 .. Len(raf) : a # rafN + 1 => raf'[a] = raf[a]
  <2>1. raf \in Seq(Items) /\ rafN \in Nat /\ rafN <= Len(raf)
    BY DEF TypeOK
  <2>2. CASE rafN < Len(raf)
    <3>1. raf' = [raf EXCEPT ![rafN + 1] = next] /\ rafN + 1 \in 1 .. Len(raf)
      BY <2>1, <2>2
    <3>. QED
      BY <1>1, <2>1, <3>1
  <2>3. CASE ~(rafN < Len(raf))
    <3>1. raf' = Append(raf, next) /\ rafN = Len(raf)
      BY <2>1, <2>3
    <3>. QED
      BY <1>1, <2>1, <3>1
  <2>. QED
    BY <2>2, <2>3
<1>3. /\ regFrame' \in [Items -> -1 .. MaxFrames] /\ regFrame'[next] = frame
      /\ \A k \in Items : k # next => regFrame'[k] = regFrame[k]
  BY <1>1 DEF TypeOK
<1>4. \A k \in Items : k \in Int /\ regFrame[k] \in Int
  BY FrameTypes
<1>5. TypeOK'
  <2>1. rafN' \in 0 .. Len(raf') /\ rn' \in 0 .. Len(raf')
    BY <1>2, FrameTypes
  <2>2. overtaken' \subseteq 1 .. MaxFrames
    BY DEF TypeOK, Frames
  <2>. QED
    BY <1>1, <1>2, <1>3, <2>1, <2>2 DEF TypeOK
<1>6. NothingQueuedTwice' /\ Fifos'
  <2>1. /\ tasks \in Seq(Items) /\ micros \in Seq(Items) /\ detached \in Seq(Items)
    BY DEF TypeOK
  <2>2. InOrder(tasks, next + 1) /\ InOrder(micros, next + 1)
        /\ InOrder(detached, next + 1)
    BY <1>1, <2>1, KeepInOrder DEF Fifos
  <2>. QED
    BY <2>2 DEF NothingQueuedTwice, Fifos
<1>7. Frames'
  <2>1. pc' = "raf" => frame' > 0
    BY DEF Frames
  <2>2. \A k \in Items : regFrame'[k] <= frame' /\ (k >= next' => regFrame'[k] = -1)
    BY <1>1, <1>3, <1>4, FrameTypes DEF Frames
  <2>3. \A a \in 1 .. rafN' : regFrame'[raf'[a]] = frame'
    <3>1. SUFFICES ASSUME NEW a \in 1 .. rafN + 1
                   PROVE  regFrame'[raf'[a]] = frame
      OBVIOUS
    <3>2. CASE a = rafN + 1
      BY <1>2, <1>3, <3>2
    <3>3. CASE a # rafN + 1
      <4>1. a \in 1 .. rafN /\ a \in 1 .. Len(raf)
        BY <3>1, <3>3, FrameTypes
      <4>2. raf'[a] = raf[a]
        BY <1>2, <3>3, <4>1, Zenon
      <4>3. raf[a] \in Items /\ raf[a] < next /\ regFrame[raf[a]] = frame
        BY <4>1, FrameTypes DEF Frames
      <4>. QED
        BY <1>1, <1>3, <4>2, <4>3
    <3>. QED
      BY <3>2, <3>3
  <2>4. \A r \in rafRan : r[1] \in Items /\ r[1] # next
    BY <1>1, FrameTypes DEF Frames
  <2>5. \A r \in rafRan' : r[2] = regFrame'[r[1]] + 1 \/ r[2] \in overtaken'
    BY <1>3, <2>4 DEF Frames
  <2>6. \A r \in rafRan' : r[1] < next'
    <3>1. \A r \in rafRan : r[1] \in Int /\ r[1] < next
      BY FrameTypes DEF Frames
    <3>. QED
      BY <1>1, <3>1
  <2>7. \A a \in 1 .. Len(raf') : raf'[a] < next'
    <3>1. \A a \in 1 .. Len(raf) : raf[a] \in Int /\ raf[a] < next
      BY FrameTypes DEF Frames
    <3>. QED
      BY <1>1, <1>2, <3>1
  <2>8. pc' = "raf" => \/ frame' \in overtaken'
                       \/ \A a \in ri' + 1 .. rn' : regFrame'[raf'[a]] = frame' - 1
    <3>1. SUFFICES ASSUME pc = "raf", ~(rafN \in ri .. rn - 1), frame \notin overtaken,
                          NEW a \in ri + 1 .. rn
                   PROVE  regFrame'[raf'[a]] = frame - 1
      OBVIOUS
    <3>2. a # rafN + 1 /\ a \in 1 .. Len(raf)
      BY <3>1, FrameTypes
    <3>3. raf'[a] = raf[a] /\ raf[a] \in Items /\ raf[a] < next
      BY <1>2, <3>2, FrameTypes DEF Frames
    <3>4. regFrame[raf[a]] = frame - 1
      BY <3>1 DEF Frames
    <3>5. raf[a] # next
      BY <1>1, <3>3, FrameTypes
    <3>. QED
      BY <1>3, <3>3, <3>4, <3>5
  <2>9. \A k \in Items : regFrame'[k] = frame' => \E a \in 1 .. rafN' : raf'[a] = k
    <3>1. SUFFICES ASSUME NEW k \in Items, regFrame'[k] = frame
                   PROVE  \E a \in 1 .. rafN + 1 : raf'[a] = k
      OBVIOUS
    <3>2. CASE k = next
      BY <1>2, <3>2, FrameTypes
    <3>3. CASE k # next
      <4>1. PICK a \in 1 .. rafN : raf[a] = k
        BY <1>3, <3>1, <3>3 DEF Frames
      <4>2. a \in 1 .. Len(raf) /\ a # rafN + 1 /\ a \in 1 .. rafN + 1
        BY FrameTypes
      <4>. QED
        BY <1>2, <4>1, <4>2
    <3>. QED
      BY <3>2, <3>3
  <2>10. \A k \in Items : regFrame'[k] \in 0 .. frame' - 1 =>
           \/ <<k, regFrame'[k] + 1>> \in rafRan'
           \/ regFrame'[k] + 1 \in overtaken'
           \/ pc' = "raf" /\ regFrame'[k] = frame' - 1 /\ Ahead(k)'
    <3>1. SUFFICES ASSUME NEW k \in Items, regFrame'[k] \in 0 .. frame - 1
                   PROVE  \/ <<k, regFrame'[k] + 1>> \in rafRan
                          \/ regFrame'[k] + 1 \in overtaken'
                          \/ pc = "raf" /\ regFrame'[k] = frame - 1 /\ Ahead(k)'
      OBVIOUS
    <3>2. k # next /\ regFrame'[k] = regFrame[k]
      BY <1>3, <3>1, FrameTypes
    <3>3. CASE pc = "raf" /\ regFrame[k] = frame - 1 /\ Ahead(k)
      <4>1. PICK a \in ri + 1 .. rn : raf[a] = k
        BY <3>3 DEF Ahead
      <4>2. a \in 1 .. Len(raf)
        BY FrameTypes
      <4>3. CASE a = rafN + 1
        <5>1. rafN \in ri .. rn - 1
          BY <4>3, FrameTypes
        <5>2. regFrame'[k] + 1 = frame
          <6>1. regFrame'[k] = frame - 1 /\ frame \in Nat
            BY <3>2, <3>3, FrameTypes
          <6>. QED
            BY <6>1
        <5>. QED
          BY <3>3, <5>1, <5>2
      <4>4. CASE a # rafN + 1
        <5>1. raf'[a] = k
          BY <1>2, <4>1, <4>2, <4>4
        <5>2. Ahead(k)'
          BY <4>1, <5>1 DEF Ahead
        <5>. QED
          BY <3>2, <3>3, <5>2
      <4>. QED
        BY <4>3, <4>4
    <3>4. CASE \/ <<k, regFrame[k] + 1>> \in rafRan
               \/ regFrame[k] + 1 \in overtaken
      BY <3>2, <3>4
    <3>. QED
      BY <3>1, <3>2, <3>3, <3>4 DEF Frames
  <2>. QED
    BY <2>1, <2>2, <2>3, <2>5, <2>6, <2>7, <2>8, <2>9, <2>10 DEF Frames
<1>. QED
  BY <1>5, <1>6, <1>7 DEF Drained

\* A frame begins: the callbacks registered since the last one are the ones
\* its loop will read.
LEMMA LoopRenderBegin ==
    ASSUME LoopInv, RenderBegin
    PROVE  LoopInv'
<1>. USE DEF LoopInv, RenderBegin
<1>1. TypeOK'
  BY LoopAssumption DEF TypeOK
<1>2. NothingQueuedTwice' /\ Fifos'
  BY DEF NothingQueuedTwice, Fifos
<1>3. Frames'
  <2>1. \A k \in Items : regFrame[k] <= frame + 1 /\ regFrame[k] # frame + 1
    BY FrameTypes DEF Frames
  <2>2. \A a \in 1 .. rafN' : FALSE
    OBVIOUS
  <2>3. \A a \in ri' + 1 .. rn' : regFrame'[raf'[a]] = frame' - 1
    BY FrameTypes DEF Frames
  <2>4. \A k \in Items : regFrame'[k] \in 0 .. frame' - 1 =>
           \/ <<k, regFrame'[k] + 1>> \in rafRan'
           \/ regFrame'[k] + 1 \in overtaken'
           \/ pc' = "raf" /\ regFrame'[k] = frame' - 1 /\ Ahead(k)'
    <3>1. SUFFICES ASSUME NEW k \in Items, regFrame[k] \in 0 .. frame
                   PROVE  \/ <<k, regFrame[k] + 1>> \in rafRan
                          \/ regFrame[k] + 1 \in overtaken
                          \/ regFrame[k] = frame /\ Ahead(k)'
      BY FrameTypes
    <3>2. CASE regFrame[k] = frame
      BY <3>2, FrameTypes DEF Frames, Ahead
    <3>3. CASE regFrame[k] # frame
      BY <3>1, <3>3, FrameTypes DEF Frames
    <3>. QED
      BY <3>2, <3>3
  <2>. QED
    BY <2>1, <2>2, <2>3, <2>4, FrameTypes DEF Frames
<1>. QED
  BY <1>1, <1>2, <1>3 DEF Drained

\* The loop runs the callback at its index, one of the frame before unless the
\* frame is overtaken.
LEMMA LoopRunRaf ==
    ASSUME LoopInv, RunRaf
    PROVE  LoopInv'
<1>. USE DEF LoopInv, RunRaf, queues
<1>1. /\ ri + 1 \in 1 .. Len(raf) /\ ri + 1 \in ri + 1 .. rn /\ raf[ri + 1] \in Items
      /\ raf[ri + 1] < next
  BY FrameTypes DEF Frames
<1>2. frame \in 1 .. MaxFrames
  BY DEF TypeOK, Frames
<1>3. TypeOK'
  <2>1. ri' \in 0 .. rn'
    BY FrameTypes
  <2>2. rafRan' \subseteq Items \X (1 .. MaxFrames)
    <3>1. rafRan \subseteq Items \X (1 .. MaxFrames)
      BY DEF TypeOK
    <3>2. rafRan' = rafRan \cup {<<raf[ri + 1], frame>>}
      OBVIOUS
    <3>. QED
      BY <1>1, <1>2, <3>1, <3>2
  <2>. QED
    BY <2>1, <2>2 DEF TypeOK
<1>4. NothingQueuedTwice' /\ Fifos'
  BY DEF NothingQueuedTwice, Fifos
<1>5. Frames'
  <2>1. \A r \in rafRan' : r = <<raf[ri + 1], frame>> \/ r \in rafRan
    OBVIOUS
  <2>2. regFrame[raf[ri + 1]] = frame - 1 \/ frame \in overtaken
    BY <1>1 DEF Frames
  <2>3. \A r \in rafRan' : r[2] = regFrame'[r[1]] + 1 \/ r[2] \in overtaken'
    BY <2>1, <2>2, FrameTypes DEF Frames
  <2>4. \A r \in rafRan' : r[1] < next'
    BY <1>1, <2>1 DEF Frames
  <2>5. \A a \in ri' + 1 .. rn' : a \in ri + 1 .. rn
    BY FrameTypes
  <2>6. \A k \in Items : regFrame'[k] \in 0 .. frame' - 1 =>
           \/ <<k, regFrame'[k] + 1>> \in rafRan'
           \/ regFrame'[k] + 1 \in overtaken'
           \/ pc' = "raf" /\ regFrame'[k] = frame' - 1 /\ Ahead(k)'
    <3>1. SUFFICES ASSUME NEW k \in Items, regFrame[k] \in 0 .. frame - 1,
                          regFrame[k] = frame - 1, Ahead(k)
                   PROVE  <<k, regFrame[k] + 1>> \in rafRan' \/ Ahead(k)'
      BY DEF Frames
    <3>2. PICK a \in ri + 1 .. rn : raf[a] = k
      BY <3>1 DEF Ahead
    <3>3. CASE a = ri + 1
      <4>1. regFrame[k] + 1 = frame
        BY <3>1, FrameTypes
      <4>. QED
        BY <3>2, <3>3, <4>1
    <3>4. CASE a # ri + 1
      <4>1. a \in ri' + 1 .. rn'
        BY <3>4, FrameTypes
      <4>. QED
        BY <3>2, <4>1 DEF Ahead
    <3>. QED
      BY <3>3, <3>4
  <2>. QED
    BY <2>3, <2>4, <2>5, <2>6 DEF Frames
<1>. QED
  BY <1>3, <1>4, <1>5 DEF Drained

\* The frame ends when its loop has read everything: nothing is ahead.
LEMMA LoopRenderEnd ==
    ASSUME LoopInv, RenderEnd
    PROVE  LoopInv'
<1>. USE DEF LoopInv, RenderEnd, queues
<1>1. TypeOK'
  BY DEF TypeOK
<1>2. NothingQueuedTwice' /\ Fifos'
  BY DEF NothingQueuedTwice, Fifos
<1>3. \A k \in Items : ~Ahead(k)
  BY FrameTypes DEF Ahead
<1>4. Frames'
  BY <1>3 DEF Frames
<1>. QED
  BY <1>1, <1>2, <1>4 DEF Drained

-----------------------------------------------------------------------------

\* LoopInv holds in every reachable state of the loop.
THEOREM LoopInvariant == Spec => []LoopInv
<1>1. LoopInv /\ [Next]_vars => LoopInv'
  <2>. SUFFICES ASSUME LoopInv, [Next]_vars PROVE LoopInv'
    OBVIOUS
  <2>1. CASE Client
    BY <2>1, LoopQueueTask, LoopQueueMicrotask, LoopAddRaf DEF Client
  <2>2. CASE CallbackReturns
    BY <2>2, LoopQueues
  <2>3. CASE Loop
    BY <2>3, LoopQueues, LoopRenderBegin, LoopRunRaf, LoopRenderEnd DEF Loop
  <2>4. CASE UNCHANGED vars
    BY <2>4, FramesKept DEF vars, queues, LoopInv, TypeOK, NothingQueuedTwice,
       Fifos, Drained
  <2>. QED
    BY <2>1, <2>2, <2>3, <2>4 DEF Next, Freed
<1>. QED
  BY <1>1, LoopInit, PTL DEF Spec

\* Every animation frame callback runs in the next frame and in no other, unless
\* the frame was overtaken, and nothing is queued twice, whatever the callbacks
\* queue while they run (mini_eventloop_render_phase, drain_queue).
THEOREM CallbacksCorrect == Spec => []CallbacksInTurn
<1>1. LoopInv => CallbacksInTurn
  <2>. SUFFICES ASSUME LoopInv PROVE RafNextFrame
    BY DEF LoopInv, CallbacksInTurn
  <2>. QED
    BY DEF LoopInv, Frames, RafNextFrame
<1>. QED
  BY <1>1, LoopInvariant, PTL

\* A task starts only with the microtasks drained and only after every task
\* queued before it (mini_eventloop_pump, run_one_task).
THEOREM TaskOrderCorrect == Spec => TaskOrder
<1>1. LoopInv /\ [Next]_vars =>
        [ /\ (pc = "task" /\ pc' = "drain2") => micros = <<>>
          /\ (pc = "drain2" /\ pc' = "host") => micros' = <<>> ]_vars
  BY DEF LoopInv, Drained, Next, Client, Loop, Freed, vars, queues,
     QueueTask, QueueMicrotask, AddRaf, CallbackReturns, PumpBegin,
     DrainMicrotask, DrainDone, RunOneTask, RenderBegin, RunRaf, RenderEnd,
     DestroyBegin, DestroyRuns, DestroyMicros, DestroyFree
<1>2. LoopInv /\ [Next]_vars =>
        [ tasks' # tasks /\ Len(tasks') < Len(tasks) /\ pc = "task" =>
            \A k \in ToSet(tasks') : \A j \in ToSet(tasks) \ ToSet(tasks') : j < k
        ]_vars
  <2>. SUFFICES ASSUME LoopInv, Next, tasks' # tasks, pc = "task",
                       NEW k \in ToSet(tasks'), NEW j \in ToSet(tasks) \ ToSet(tasks')
                PROVE  j < k
    BY DEF vars, queues
  <2>1. RunOneTask
    BY DEF LoopInv, Drained, Next, Client, Loop, Freed, vars, queues, MayCall,
     QueueTask, QueueMicrotask, AddRaf, CallbackReturns, PumpBegin,
     DrainMicrotask, DrainDone, RenderBegin, RunRaf, RenderEnd,
     DestroyBegin, DestroyRuns, DestroyMicros, DestroyFree
  <2>2. tasks # <<>> /\ tasks' = Tail(tasks)
    BY <2>1 DEF RunOneTask
  <2>3. tasks \in Seq(Items) /\ next \in Nat /\ InOrder(tasks, next)
    BY DEF LoopInv, TypeOK, Fifos
  <2>. QED
    BY <2>2, <2>3, DequeueInOrder
<1>. QED
  BY <1>1, <1>2, LoopInvariant, PTL DEF Spec, TaskOrder, Checkpoints, TasksInOrder

-----------------------------------------------------------------------------
(* The listener tables.                                                    *)

Listener == [id : Ids, ev : Events, once : BOOLEAN]
Frame == [ev : Events, i : Nat \ {0}, calling : BOOLEAN, once : BOOLEAN,
          cb : Nat, shrunk : BOOLEAN, due : SUBSET Ids]

TableTypes ==
    /\ table \in Seq(Listener) /\ stack \in Seq(Frame)
    /\ nextId \in 1 .. MaxListeners + 1 /\ emits \in 0 .. MaxEmits
    /\ fired \in [Ids -> Nat] /\ removed \subseteq Ids
    /\ stale \in BOOLEAN /\ corrupt \in BOOLEAN

\* Ids are given out once, in order.
IdInv ==
    /\ \A i, j \in 1 .. Len(table) : table[i].id = table[j].id => i = j
    /\ \A i \in 1 .. Len(table) : table[i].id < nextId
    /\ \A k \in 1 .. Len(stack) : stack[k].cb < nextId
    /\ \A l \in Ids : l >= nextId => fired[l] = 0

\* Callers of k-th emit
Callers(l) == {k \in 1 .. Len(stack) : stack[k].calling /\ stack[k].cb = l}

\* An emit whose array nobody else shrank still has before it what it owes, and
\* the listener it is calling at its index.
DueInv ==
    \A k \in 1 .. Len(stack) : ~stack[k].shrunk =>
        \A d \in stack[k].due : \E j \in stack[k].i .. Len(table) :
            /\ table[j].id = d /\ table[j].ev = stack[k].ev
            /\ stack[k].calling => j # stack[k].i

\* An emit that calls a listener knows it, and is at its entry unless the array
\* shrank.
CallInv ==
    \A k \in 1 .. Len(stack) : stack[k].calling =>
        /\ \A j \in 1 .. Len(table) : table[j].id = stack[k].cb => table[j].once = stack[k].once
        /\ stack[k].cb \in Ids /\ fired[stack[k].cb] > 0
        /\ ~stack[k].shrunk => /\ stack[k].i <= Len(table)
                               /\ table[stack[k].i].id = stack[k].cb

\* A once-listener that is still there has been called by the emits that are calling
\* it now.
OnceInv ==
    ~stale => \A i \in 1 .. Len(table) :
        table[i].once => fired[table[i].id] = Cardinality(Callers(table[i].id))

CorruptInv == corrupt => stack # <<>> /\ Top.calling /\ Top.shrunk

TableInv == TableTypes /\ IdInv /\ DueInv /\ CallInv /\ OnceInv /\ CorruptInv

-----------------------------------------------------------------------------

\* The fields of the entries and of the emits in progress.
LEMMA EntryTypes ==
    ASSUME TableTypes
    PROVE  /\ Len(table) \in Nat
           /\ \A i \in 1 .. Len(table) :
                /\ table[i] \in Listener /\ table[i].id \in Ids /\ table[i].id \in Nat
                /\ table[i].ev \in Events /\ table[i].once \in BOOLEAN
<1>1. \A i \in 1 .. Len(table) : table[i] \in Listener
  BY DEF TableTypes
<1>2. \A l \in Listener : l.id \in Ids /\ l.ev \in Events /\ l.once \in BOOLEAN
  BY DEF Listener
<1>3. Ids \subseteq Nat
  BY EmitterAssumption DEF Ids
<1>4. Len(table) \in Nat
  BY DEF TableTypes
<1>. QED
  BY <1>1, <1>2, <1>3, <1>4, Zenon

\* The fields of an emit in progress.
LEMMA FrameFields ==
    ASSUME NEW f \in Frame
    PROVE  /\ f.ev \in Events /\ f.i \in Nat \ {0} /\ f.calling \in BOOLEAN
           /\ f.once \in BOOLEAN /\ f.cb \in Nat /\ f.shrunk \in BOOLEAN /\ f.due \subseteq Ids
BY DEF Frame

\* The emits in progress have their types.
LEMMA EmitTypes ==
    ASSUME TableTypes
    PROVE  /\ Len(stack) \in Nat
           /\ \A k \in 1 .. Len(stack) :
                /\ stack[k] \in Frame
                /\ stack[k].ev \in Events /\ stack[k].i \in Nat \ {0} /\ stack[k].calling \in BOOLEAN
                /\ stack[k].once \in BOOLEAN /\ stack[k].cb \in Nat /\ stack[k].shrunk \in BOOLEAN
                /\ stack[k].due \subseteq Ids
<1>1. \A k \in 1 .. Len(stack) : stack[k] \in Frame
  BY DEF TableTypes
<1>. QED
  BY <1>1, FrameFields DEF TableTypes

\* An emit in progress, once the array it walks has shrunk.
LEMMA ShrunkFrame ==
    ASSUME NEW f \in Frame, NEW g, g = [f EXCEPT !.shrunk = TRUE]
    PROVE  /\ g \in Frame /\ g.shrunk = TRUE /\ g.calling = f.calling /\ g.cb = f.cb
           /\ g.once = f.once
BY DEF Frame

\* An empty table satisfies the invariant.
LEMMA TableInit == EmitterInit => TableInv
<1>1. SUFFICES ASSUME EmitterInit PROVE TableInv
  OBVIOUS
<1>2. table = <<>> /\ stack = <<>> /\ Len(table) = 0 /\ Len(stack) = 0
  BY <1>1 DEF EmitterInit
<1>3. TableTypes
  <2>1. /\ 1 \in 1 .. MaxListeners + 1 /\ 0 \in 0 .. MaxEmits
        /\ [l \in Ids |-> 0] \in [Ids -> Nat]
    BY EmitterAssumption
  <2>2. table \in Seq(Listener) /\ stack \in Seq(Frame)
    BY <1>2
  <2>. QED
    BY <1>1, <2>1, <2>2, Zenon DEF EmitterInit, TableTypes
<1>4. IdInv
  BY <1>1, <1>2 DEF EmitterInit, IdInv
<1>. QED
  BY <1>1, <1>2, <1>3, <1>4 DEF EmitterInit, TableInv, DueInv, CallInv, OnceInv, CorruptInv

\* The parts that speak of the stack alone hold of a stack with the same
\* callbacks on it.
LEMMA EmptiedInv ==
    ASSUME TableInv, ScriptRuns, stack' = Shrunk(Len(stack)),
           table' \in Seq(Listener),
           \A i \in 1 .. Len(table') : \E j \in 1 .. Len(table) : table'[i] = table[j],
           \A i, j \in 1 .. Len(table') : table'[i].id = table'[j].id => i = j,
           removed' \subseteq Ids,
           UNCHANGED <<nextId, emits, fired, hist>>
    PROVE  TableInv'
<1>0. TableTypes /\ Len(stack) \in Nat
  BY DEF TableInv, TableTypes
<1>1. /\ Len(stack') = Len(stack)
      /\ \A k \in 1 .. Len(stack) : stack'[k] = [stack[k] EXCEPT !.shrunk = TRUE]
  BY <1>0 DEF Shrunk
<1>2. \A k \in 1 .. Len(stack) : stack[k] \in Frame
  BY <1>0 DEF TableTypes
<1>3. \A k \in 1 .. Len(stack) :
        /\ stack'[k] \in Frame /\ stack'[k].shrunk = TRUE
        /\ stack'[k].calling = stack[k].calling /\ stack'[k].cb = stack[k].cb
        /\ stack'[k].once = stack[k].once
  BY <1>1, <1>2, ShrunkFrame
<1>4. stack' \in Seq(Frame)
  <2>1. stack' = [k \in 1 .. Len(stack) |-> stack'[k]]
    BY <1>0, <1>1 DEF Shrunk
  <2>. QED
    BY <2>1, <1>0, <1>3, IsASeq
<1>5. TableTypes'
  BY <1>0, <1>4 DEF TableTypes, hist
<1>6. IdInv'
  BY <1>0, <1>1, <1>3 DEF TableInv, IdInv, TableTypes
<1>7. DueInv'
  BY <1>1, <1>3 DEF DueInv
<1>8. CallInv'
  <2>1. SUFFICES ASSUME NEW k \in 1 .. Len(stack), stack[k].calling
                 PROVE  /\ \A j \in 1 .. Len(table') :
                             table'[j].id = stack[k].cb => table'[j].once = stack[k].once
                        /\ stack[k].cb \in Ids /\ fired[stack[k].cb] > 0
    BY <1>1, <1>3 DEF CallInv
  <2>2. /\ \A j \in 1 .. Len(table) :
             table[j].id = stack[k].cb => table[j].once = stack[k].once
        /\ stack[k].cb \in Ids /\ fired[stack[k].cb] > 0
    BY <2>1 DEF TableInv, CallInv
  <2>3. ASSUME NEW j \in 1 .. Len(table'), table'[j].id = stack[k].cb
        PROVE  table'[j].once = stack[k].once
    <3>1. PICK a \in 1 .. Len(table) : table'[j] = table[a]
      OBVIOUS
    <3>. QED
      BY <2>2, <2>3, <3>1
  <2>. QED
    BY <2>2, <2>3
<1>9. OnceInv'
  <2>1. \A l : Callers(l)' = Callers(l)
    BY <1>1, <1>3 DEF Callers
  <2>. QED
    BY <2>1 DEF TableInv, OnceInv, hist
<1>10. CorruptInv'
  BY DEF ScriptRuns, CorruptInv, hist
<1>. QED
  BY <1>5, <1>6, <1>7, <1>8, <1>9, <1>10 DEF TableInv

\* on and once: the new listener has the next number and is behind every index.
LEMMA OnInv ==
    ASSUME TableInv, NEW ev \in Events, NEW once \in BOOLEAN, On(ev, once)
    PROVE  TableInv'
<1>. DEFINE n == Len(table)
            e == [id |-> nextId, ev |-> ev, once |-> once]
<1>0. /\ TableTypes /\ n \in Nat /\ nextId \in Ids /\ nextId \in Nat /\ ScriptRuns
      /\ table' = Append(table, e) /\ nextId' = nextId + 1
      /\ UNCHANGED <<stack, emits, fired, removed, stale, corrupt>>
  BY EmitterAssumption DEF TableInv, TableTypes, On, Ids, hist
<1>1. e \in Listener /\ e.id = nextId
  BY <1>0 DEF Listener
<1>. HIDE DEF e
<1>2. /\ table' \in Seq(Listener) /\ Len(table') = n + 1 /\ table'[n + 1] = e
      /\ \A i \in 1 .. n : table'[i] = table[i]
  BY <1>0, <1>1 DEF TableTypes
<1>3. TableTypes'
  BY <1>0, <1>2, EmitterAssumption DEF TableTypes, Ids
<1>4. IdInv'
  <2>1. \A i \in 1 .. n : table[i].id \in Nat /\ table[i].id < nextId
    BY <1>0, EntryTypes DEF TableInv, IdInv
  <2>2. \A i \in 1 .. n + 1 : i = n + 1 \/ i \in 1 .. n
    BY <1>0
  <2>3. \A i \in 1 .. n + 1 : table'[i].id < nextId + 1
    BY <1>0, <1>1, <1>2, <2>1, <2>2
  <2>4. \A i, j \in 1 .. n + 1 : table'[i].id = table'[j].id => i = j
    BY <1>0, <1>1, <1>2, <2>1, <2>2 DEF TableInv, IdInv
  <2>5. \A k \in 1 .. Len(stack) : stack[k].cb < nextId + 1
    BY <1>0, EmitTypes DEF TableInv, IdInv
  <2>6. \A l \in Ids : l >= nextId + 1 => fired[l] = 0
    BY <1>0, EmitterAssumption DEF TableInv, IdInv, Ids
  <2>. QED
    BY <1>0, <1>2, <2>3, <2>4, <2>5, <2>6 DEF IdInv
<1>5. DueInv'
  <2>1. \A k \in 1 .. Len(stack) : stack[k].i \in Nat \ {0}
    BY <1>0, EmitTypes
  <2>2. \A k \in 1 .. Len(stack) : \A j \in stack[k].i .. n : j \in stack[k].i .. n + 1 /\ (j \in 1 .. n)
    BY <1>0, <2>1
  <2>. QED
    BY <1>0, <1>2, <2>2 DEF TableInv, DueInv
<1>6. CallInv'
  <2>1. ASSUME NEW k \in 1 .. Len(stack), stack[k].calling
        PROVE  /\ \A j \in 1 .. n + 1 : table'[j].id = stack[k].cb => table'[j].once = stack[k].once
               /\ stack[k].cb \in Ids /\ fired[stack[k].cb] > 0
               /\ ~stack[k].shrunk => /\ stack[k].i <= n + 1
                                      /\ table'[stack[k].i].id = stack[k].cb
    <3>2. stack[k].cb < nextId /\ stack[k].cb \in Nat /\ stack[k].i \in Nat \ {0}
      BY <1>0, EmitTypes DEF TableInv, IdInv
    <3>3. \A j \in 1 .. n + 1 : j = n + 1 \/ j \in 1 .. n
      BY <1>0
    <3>. QED
      BY <1>0, <1>1, <1>2, <2>1, <3>2, <3>3 DEF TableInv, CallInv
  <2>2. stack' = stack /\ fired' = fired /\ Len(table') = n + 1
    BY <1>0, <1>2
  <2>. HIDE DEF n
  <2>. QED
    BY <2>1, <2>2 DEF CallInv
<1>7. OnceInv'
  <2>1. \A l : Callers(l)' = Callers(l)
    BY <1>0 DEF Callers
  <2>2. Callers(nextId) = {}
    <3>1. \A k \in 1 .. Len(stack) : stack[k].cb # nextId
      BY <1>0, EmitTypes DEF TableInv, IdInv
    <3>. QED
      BY <3>1 DEF Callers
  <2>3. Cardinality(Callers(nextId)) = 0 /\ fired[nextId] = 0
    BY <1>0, <2>2, FS_EmptySet DEF TableInv, IdInv
  <2>4. \A j \in 1 .. n + 1 : j = n + 1 \/ j \in 1 .. n
    BY <1>0
  <2>. QED
    BY <1>0, <1>1, <1>2, <2>1, <2>3, <2>4 DEF TableInv, OnceInv
<1>8. CorruptInv'
  BY <1>0 DEF ScriptRuns, CorruptInv
<1>. QED
  BY <1>3, <1>4, <1>5, <1>6, <1>7, <1>8 DEF TableInv

\* off: what is left was there before, and every emit in progress is marked.
LEMMA OffInv ==
    ASSUME TableInv, NEW ev \in Events, Off(ev)
    PROVE  TableInv'
<1>. DEFINE P == {l \in ToSet(table) : l.ev # ev}
<1>0. /\ TableTypes /\ ScriptRuns /\ table' = Filter(table, P)
      /\ stack' = Shrunk(Len(stack)) /\ UNCHANGED <<nextId, emits, fired, hist>>
      /\ removed' = removed \cup {table[i].id : i \in {i \in 1 .. Len(table) : table[i].ev = ev}}
  BY DEF TableInv, Off
<1>1. table \in Seq(Listener) /\ Len(table) \in Nat
  BY <1>0 DEF TableTypes
<1>2. IsInjective(table)
  BY <1>1 DEF TableInv, IdInv, IsInjective
<1>. HIDE DEF P
<1>3. table' \in Seq(Listener) /\ ToSet(table') = ToSet(table) \cap P /\ IsInjective(table')
  BY <1>0, <1>1, <1>2, FilterKeeps
<1>4. \A i \in 1 .. Len(table') : \E j \in 1 .. Len(table) : table'[i] = table[j]
  <2>1. SUFFICES ASSUME NEW i \in 1 .. Len(table')
                 PROVE  \E j \in 1 .. Len(table) : table'[i] = table[j]
    OBVIOUS
  <2>2. table'[i] \in ToSet(table')
    BY <1>3 DEF ToSet
  <2>3. table'[i] \in ToSet(table)
    BY <1>3, <2>2
  <2>. QED
    BY <2>3, <1>1 DEF ToSet
<1>5. \A i, j \in 1 .. Len(table') : table'[i].id = table'[j].id => i = j
  <2>1. \A i, j \in 1 .. Len(table) : table[i].id = table[j].id => table[i] = table[j]
    BY DEF TableInv, IdInv
  <2>2. \A i, j \in 1 .. Len(table') : table'[i].id = table'[j].id => table'[i] = table'[j]
    BY <1>4, <2>1
  <2>. QED
    BY <1>3, <2>2 DEF IsInjective
<1>6. removed' \subseteq Ids
  BY <1>0, EntryTypes DEF TableTypes
<1>. QED
  BY <1>0, <1>3, <1>4, <1>5, <1>6, EmptiedInv

\* removeAllListeners: the same with nothing left.
LEMMA RemoveAllInv ==
    ASSUME TableInv, RemoveAll
    PROVE  TableInv'
<1>1. /\ table' = <<>> /\ Len(table') = 0 /\ table' \in Seq(Listener) /\ ScriptRuns
      /\ stack' = Shrunk(Len(stack)) /\ UNCHANGED <<nextId, emits, fired, hist>>
  BY DEF RemoveAll
<1>2. removed' \subseteq Ids
  <2>1. removed' = removed \cup {table[i].id : i \in 1 .. Len(table)} /\ TableTypes
    BY DEF RemoveAll, Registered, TableInv
  <2>. QED
    BY <2>1, EntryTypes DEF TableTypes
<1>. QED
  BY <1>1, <1>2, EmptiedInv

\* What a change of the innermost emit leaves alone.
LEMMA TopChanges ==
    ASSUME TableTypes, stack # <<>>, NEW g \in Frame, SetTop(g)
    PROVE  /\ Len(stack) \in Nat \ {0} /\ Len(stack') = Len(stack) /\ stack' \in Seq(Frame)
           /\ Top = stack[Len(stack)] /\ Top \in Frame
           /\ stack'[Len(stack)] = g
           /\ \A k \in 1 .. Len(stack) - 1 : k \in 1 .. Len(stack) /\ stack'[k] = stack[k]
           /\ \A k \in 1 .. Len(stack) : k = Len(stack) \/ k \in 1 .. Len(stack) - 1
<1>1. stack \in Seq(Frame) /\ Len(stack) \in Nat \ {0}
  BY DEF TableTypes
<1>2. stack' = [stack EXCEPT ![Len(stack)] = g] /\ Len(stack) \in 1 .. Len(stack)
  BY <1>1 DEF SetTop
<1>3. stack' \in Seq(Frame) /\ Len(stack') = Len(stack)
  BY <1>1, <1>2, ExceptSeq
<1>4. Top = stack[Len(stack)] /\ Top \in Frame
  BY <1>1, <1>2 DEF Top
<1>5. stack'[Len(stack)] = g /\ \A k \in 1 .. Len(stack) - 1 : k \in 1 .. Len(stack) /\ stack'[k] = stack[k]
  BY <1>1, <1>2
<1>6. \A k \in 1 .. Len(stack) : k = Len(stack) \/ k \in 1 .. Len(stack) - 1
  BY <1>1
<1>. QED
  BY <1>1, <1>3, <1>4, <1>5, <1>6

\* An emit begins at the first entry and owes all of its listeners a call.
LEMMA EmitInv ==
    ASSUME TableInv, NEW ev \in Events, Emit(ev)
    PROVE  TableInv'
<1>. DEFINE n == Len(stack)
            D == {table[i].id : i \in {j \in 1 .. Len(table) : table[j].ev = ev}}
            g == [ev |-> ev, i |-> 1, calling |-> FALSE, once |-> FALSE,
                  cb |-> 0, shrunk |-> FALSE, due |-> D]
<1>0. /\ TableTypes /\ n \in Nat /\ ScriptRuns /\ emits < MaxEmits /\ emits' = emits + 1
      /\ stack' = Append(stack, g) /\ nextId \in Nat \ {0}
      /\ UNCHANGED <<table, nextId, fired, removed, stale, corrupt>>
  BY EmitterAssumption DEF TableInv, TableTypes, Emit, hist
<1>1. D \subseteq Ids
  BY <1>0, EntryTypes
<1>2. \A d \in D : \E j \in 1 .. Len(table) : table[j].id = d /\ table[j].ev = ev
  OBVIOUS
<1>. HIDE DEF D
<1>3. g \in Frame /\ g.ev = ev /\ g.i = 1 /\ g.calling = FALSE /\ g.cb = 0 /\ g.shrunk = FALSE /\ g.due = D
  BY <1>1 DEF Frame
<1>. HIDE DEF g
<1>4. /\ stack' \in Seq(Frame) /\ Len(stack') = n + 1 /\ stack'[n + 1] = g
      /\ \A k \in 1 .. n : stack'[k] = stack[k]
      /\ \A k \in 1 .. n + 1 : k = n + 1 \/ k \in 1 .. n
  BY <1>0, <1>3 DEF TableTypes
<1>. HIDE DEF n
<1>5. TableTypes'
  BY <1>0, <1>4, EmitterAssumption DEF TableTypes
<1>6. IdInv'
  BY <1>0, <1>3, <1>4 DEF TableInv, IdInv, n
<1>7. DueInv'
  <2>1. ASSUME NEW k \in 1 .. n + 1, ~stack'[k].shrunk, NEW d \in stack'[k].due
        PROVE  \E j \in stack'[k].i .. Len(table) :
                 /\ table[j].id = d /\ table[j].ev = stack'[k].ev
                 /\ stack'[k].calling => j # stack'[k].i
    <3>1. CASE k = n + 1
      BY <3>1, <2>1, <1>2, <1>3, <1>4
    <3>2. CASE k \in 1 .. n
      BY <3>2, <2>1, <1>4 DEF TableInv, DueInv, n
    <3>. QED
      BY <3>1, <3>2, <1>4
  <2>2. table' = table
    BY <1>0
  <2>. QED
    BY <2>1, <2>2, <1>4 DEF DueInv
<1>8. CallInv'
  <2>1. table' = table /\ fired' = fired
    BY <1>0
  <2>. QED
    BY <2>1, <1>3, <1>4 DEF TableInv, CallInv, n
<1>9. OnceInv'
  <2>1. \A l : Callers(l)' = Callers(l)
    <3>1. SUFFICES ASSUME NEW l PROVE Callers(l)' = Callers(l)
      OBVIOUS
    <3>2. \A k \in Callers(l)' : k \in Callers(l)
      BY <1>3, <1>4 DEF Callers, n
    <3>3. \A k \in Callers(l) : k \in Callers(l)'
      BY <1>0, <1>4 DEF Callers, n
    <3>. QED
      BY <3>2, <3>3
  <2>. QED
    BY <1>0, <2>1 DEF TableInv, OnceInv
<1>10. CorruptInv'
  BY <1>0 DEF ScriptRuns, CorruptInv
<1>. QED
  BY <1>5, <1>6, <1>7, <1>8, <1>9, <1>10 DEF TableInv

\* The index moves over an entry of another event: nothing owed is passed.
LEMMA SkipInv ==
    ASSUME TableInv, Skip
    PROVE  TableInv'
<1>. DEFINE n == Len(stack)
            g == [Top EXCEPT !.i = @ + 1]
<1>0. /\ TableTypes /\ stack # <<>> /\ ~Top.calling /\ Top.i <= Len(table)
      /\ table[Top.i].ev # Top.ev /\ SetTop(g)
      /\ UNCHANGED <<table, nextId, emits, fired, removed, stale, corrupt>>
  BY DEF TableInv, Skip, Scanning, hist
<1>1. Top \in Frame
  BY <1>0 DEF TableTypes, Top
<1>2. /\ g \in Frame /\ g.i = Top.i + 1 /\ g.ev = Top.ev /\ g.calling = Top.calling
      /\ g.cb = Top.cb /\ g.shrunk = Top.shrunk /\ g.due = Top.due
  BY <1>1 DEF Frame
<1>. HIDE DEF g
<1>3. /\ n \in Nat \ {0} /\ Len(stack') = n /\ stack' \in Seq(Frame)
      /\ Top = stack[n] /\ stack'[n] = g
      /\ \A k \in 1 .. n - 1 : k \in 1 .. n /\ stack'[k] = stack[k]
      /\ \A k \in 1 .. n : k = n \/ k \in 1 .. n - 1
  BY <1>0, <1>2, TopChanges
<1>. HIDE DEF n
<1>4. \A k \in 1 .. n : stack'[k].cb = stack[k].cb /\ stack'[k].calling = stack[k].calling
  BY <1>2, <1>3
<1>5. TableTypes'
  BY <1>0, <1>3 DEF TableTypes
<1>6. IdInv'
  BY <1>0, <1>3, <1>4 DEF TableInv, IdInv, n
<1>7. DueInv'
  <2>1. ASSUME NEW k \in 1 .. n, ~stack'[k].shrunk, NEW d \in stack'[k].due
        PROVE  \E j \in stack'[k].i .. Len(table) :
                 /\ table[j].id = d /\ table[j].ev = stack'[k].ev
                 /\ stack'[k].calling => j # stack'[k].i
    <3>1. CASE k = n
      <4>1. PICK j \in Top.i .. Len(table) : table[j].id = d /\ table[j].ev = Top.ev
        BY <3>1, <2>1, <1>2, <1>3 DEF TableInv, DueInv, n
      <4>2. j # Top.i /\ Top.i \in Nat
        BY <4>1, <1>0, <1>1, FrameFields
      <4>3. j \in Top.i + 1 .. Len(table)
        BY <4>1, <4>2
      <4>. QED
        BY <4>1, <4>3, <3>1, <1>0, <1>2, <1>3
    <3>2. CASE k \in 1 .. n - 1
      BY <3>2, <2>1, <1>3 DEF TableInv, DueInv, n
    <3>. QED
      BY <3>1, <3>2, <1>3
  <2>2. table' = table
    BY <1>0
  <2>. QED
    BY <2>1, <2>2, <1>3 DEF DueInv
<1>8. CallInv'
  <2>1. table' = table /\ fired' = fired
    BY <1>0
  <2>. QED
    BY <2>1, <1>0, <1>2, <1>3 DEF TableInv, CallInv, n
<1>9. OnceInv'
  <2>1. \A l : Callers(l)' = Callers(l)
    BY <1>3, <1>4 DEF Callers, n
  <2>. QED
    BY <1>0, <2>1 DEF TableInv, OnceInv
<1>10. CorruptInv'
  BY <1>0 DEF TableInv, CorruptInv
<1>. QED
  BY <1>5, <1>6, <1>7, <1>8, <1>9, <1>10 DEF TableInv

\* Finitely many emits are calling a listener.
LEMMA CallersFinite ==
    ASSUME TableTypes, NEW l
    PROVE  IsFiniteSet(Callers(l)) /\ Callers(l) \subseteq 1 .. Len(stack)
<1>0. Len(stack) \in Int /\ 1 \in Int
  BY EmitTypes
<1>1. IsFiniteSet(1 .. Len(stack))
  BY <1>0, FS_Interval
<1>2. Callers(l) \subseteq 1 .. Len(stack)
  BY DEF Callers
<1>. QED
  BY <1>1, <1>2, FS_Subset

\* A call pays what was owed to the listener and makes its emit one of the callers.
LEMMA CallStep ==
    ASSUME TableInv, Call
    PROVE  TableInv'
<1>. DEFINE n == Len(stack)
            l == table[Top.i]
            g == [Top EXCEPT !.calling = TRUE, !.once = l.once, !.cb = l.id, !.due = @ \ {l.id}]
<1>0. /\ TableTypes /\ stack # <<>> /\ ~Top.calling /\ Top.i <= Len(table)
      /\ l.ev = Top.ev /\ SetTop(g) /\ fired' = [fired EXCEPT ![l.id] = @ + 1]
      /\ UNCHANGED <<table, nextId, emits, removed, stale, corrupt>>
  BY DEF TableInv, Call, Scanning, hist
<1>1. Top \in Frame /\ Top.i \in 1 .. Len(table)
  <2>1. Top \in Frame
    BY <1>0 DEF TableTypes, Top
  <2>. QED
    BY <2>1, <1>0, FrameFields, EntryTypes
<1>2. l \in Listener /\ l.id \in Ids /\ l.id \in Nat /\ l.once \in BOOLEAN
  BY <1>0, <1>1, EntryTypes
<1>. HIDE DEF l
<1>3. /\ g \in Frame /\ g.i = Top.i /\ g.ev = Top.ev /\ g.calling = TRUE /\ g.once = l.once
      /\ g.cb = l.id /\ g.shrunk = Top.shrunk /\ g.due = Top.due \ {l.id}
  BY <1>1, <1>2 DEF Frame
<1>. HIDE DEF g
<1>4. /\ n \in Nat \ {0} /\ Len(stack') = n /\ stack' \in Seq(Frame)
      /\ Top = stack[n] /\ stack'[n] = g
      /\ \A k \in 1 .. n - 1 : k \in 1 .. n /\ stack'[k] = stack[k]
      /\ \A k \in 1 .. n : k = n \/ k \in 1 .. n - 1
  BY <1>0, <1>3, TopChanges
<1>5. /\ fired' \in [Ids -> Nat] /\ fired'[l.id] = fired[l.id] + 1 /\ fired[l.id] \in Nat
      /\ \A x \in Ids : x # l.id => fired'[x] = fired[x]
      /\ \A x \in Ids : fired'[x] >= fired[x] /\ fired[x] \in Nat
  BY <1>0, <1>2 DEF TableTypes
<1>. HIDE DEF n
<1>6. TableTypes'
  BY <1>0, <1>4, <1>5 DEF TableTypes
<1>7. IdInv'
  <2>1. l.id < nextId
    BY <1>1 DEF TableInv, IdInv, l
  <2>2. \A k \in 1 .. n : stack'[k].cb < nextId
    BY <1>3, <1>4, <2>1 DEF TableInv, IdInv, n
  <2>3. \A x \in Ids : x >= nextId => fired'[x] = 0
    <3>1. nextId \in Nat
      BY <1>0 DEF TableTypes
    <3>2. ~(l.id >= nextId)
      BY <2>1, <3>1, <1>2
    <3>. QED
      BY <1>5, <3>2 DEF TableInv, IdInv
  <2>. QED
    BY <1>0, <1>4, <2>2, <2>3 DEF TableInv, IdInv
<1>8. DueInv'
  <2>1. ASSUME NEW k \in 1 .. n, ~stack'[k].shrunk, NEW d \in stack'[k].due
        PROVE  \E j \in stack'[k].i .. Len(table) :
                 /\ table[j].id = d /\ table[j].ev = stack'[k].ev
                 /\ stack'[k].calling => j # stack'[k].i
    <3>1. CASE k = n
      <4>1. d \in Top.due /\ d # l.id /\ ~Top.shrunk
        BY <3>1, <2>1, <1>3, <1>4
      <4>2. PICK j \in Top.i .. Len(table) : table[j].id = d /\ table[j].ev = Top.ev
        BY <4>1, <1>4 DEF TableInv, DueInv, n
      <4>3. j # Top.i
        BY <4>1, <4>2 DEF l
      <4>. QED
        BY <4>2, <4>3, <3>1, <1>3, <1>4
    <3>2. CASE k \in 1 .. n - 1
      BY <3>2, <2>1, <1>4 DEF TableInv, DueInv, n
    <3>. QED
      BY <3>1, <3>2, <1>4
  <2>2. table' = table
    BY <1>0
  <2>. QED
    BY <2>1, <2>2, <1>4 DEF DueInv
<1>9. CallInv'
  <2>1. ASSUME NEW k \in 1 .. n, stack'[k].calling
        PROVE  /\ \A j \in 1 .. Len(table) : table[j].id = stack'[k].cb => table[j].once = stack'[k].once
               /\ stack'[k].cb \in Ids /\ fired'[stack'[k].cb] > 0
               /\ ~stack'[k].shrunk => /\ stack'[k].i <= Len(table)
                                       /\ table[stack'[k].i].id = stack'[k].cb
    <3>1. CASE k = n
      <4>1. \A j \in 1 .. Len(table) : table[j].id = l.id => table[j] = l
        BY <1>1 DEF TableInv, IdInv, l
      <4>2. fired'[l.id] > 0
        BY <1>5
      <4>. QED
        BY <4>1, <4>2, <3>1, <1>0, <1>2, <1>3, <1>4 DEF l
    <3>2. CASE k \in 1 .. n - 1
      <4>1. stack'[k] = stack[k] /\ k \in 1 .. Len(stack)
        BY <3>2, <1>4 DEF n
      <4>2. /\ \A j \in 1 .. Len(table) : table[j].id = stack[k].cb => table[j].once = stack[k].once
            /\ stack[k].cb \in Ids /\ fired[stack[k].cb] > 0
            /\ ~stack[k].shrunk => /\ stack[k].i <= Len(table)
                                   /\ table[stack[k].i].id = stack[k].cb
        BY <4>1, <2>1 DEF TableInv, CallInv
      <4>3. fired'[stack[k].cb] > 0
        <5>1. fired'[stack[k].cb] >= fired[stack[k].cb] /\ fired[stack[k].cb] \in Nat
              /\ fired'[stack[k].cb] \in Nat
          BY <4>2, <1>5
        <5>. QED
          BY <5>1, <4>2
      <4>. QED
        BY <4>1, <4>2, <4>3
    <3>. QED
      BY <3>1, <3>2, <1>4
  <2>2. table' = table
    BY <1>0
  <2>. QED
    BY <2>1, <2>2, <1>4 DEF CallInv
<1>10. OnceInv'
  <2>1. ASSUME NEW x, x # l.id PROVE Callers(x)' = Callers(x)
    <3>1. \A k \in Callers(x)' : k \in Callers(x)
      BY <2>1, <1>3, <1>4 DEF Callers, n
    <3>2. \A k \in Callers(x) : k \in Callers(x)'
      BY <1>0, <1>4 DEF Callers, n
    <3>. QED
      BY <3>1, <3>2
  <2>2. ASSUME NEW x, x = l.id
        PROVE  Cardinality(Callers(x)') = Cardinality(Callers(x)) + 1
    <3>1. \A k \in Callers(x)' : k \in Callers(x) \cup {n}
      BY <1>3, <1>4 DEF Callers, n
    <3>2. \A k \in Callers(x) : k \in Callers(x)'
      BY <1>0, <1>4 DEF Callers, n
    <3>3. n \in Callers(x)'
      BY <2>2, <1>3, <1>4 DEF Callers
    <3>4. n \notin Callers(x)
      BY <1>0, <1>4 DEF Callers
    <3>5. Callers(x)' = Callers(x) \cup {n}
      BY <3>1, <3>2, <3>3
    <3>6. Cardinality(Callers(x) \cup {n}) = Cardinality(Callers(x)) + 1
      BY <3>4, <1>0, CallersFinite, FS_AddElement
    <3>. QED
      BY <3>5, <3>6
  <2>4. ASSUME ~stale, NEW i \in 1 .. Len(table), table[i].once, NEW x, x = table[i].id
        PROVE  fired'[x] = Cardinality(Callers(x)')
    <3>1. fired[x] = Cardinality(Callers(x))
      BY <2>4 DEF TableInv, OnceInv
    <3>2. CASE x = l.id
      <4>1. Cardinality(Callers(x)') = Cardinality(Callers(x)) + 1
        BY <2>2, <3>2
      <4>. QED
        BY <3>1, <3>2, <4>1, <1>5
    <3>3. CASE x # l.id
      <4>1. x \in Ids
        BY <2>4, <1>0, EntryTypes
      <4>2. Callers(x)' = Callers(x)
        BY <2>1, <3>3
      <4>. QED
        BY <3>1, <3>3, <4>1, <4>2, <1>5
    <3>. QED
      BY <3>2, <3>3
  <2>. QED
    BY <1>0, <2>4 DEF OnceInv
<1>11. CorruptInv'
  BY <1>0 DEF TableInv, CorruptInv
<1>. QED
  BY <1>6, <1>7, <1>8, <1>9, <1>10, <1>11 DEF TableInv

\* The innermost emit after its listener returned.
LEMMA ReturnedFrame ==
    ASSUME NEW f \in Frame, NEW g, g = [f EXCEPT !.calling = FALSE, !.i = @ + 1]
    PROVE  /\ g \in Frame /\ g.i = f.i + 1 /\ g.ev = f.ev /\ g.calling = FALSE
           /\ g.cb = f.cb /\ g.shrunk = f.shrunk /\ g.due = f.due
<1>1. f.i \in Nat \ {0} /\ f.i + 1 \in Nat \ {0}
  BY FrameFields
<1>2. PICK j \in Nat \ {0} : j = f.i + 1
  BY <1>1
<1>3. g = [f EXCEPT !.calling = FALSE, !.i = j]
  BY <1>2
<1>4. /\ g \in Frame /\ g.i = j /\ g.ev = f.ev /\ g.calling = FALSE
      /\ g.cb = f.cb /\ g.shrunk = f.shrunk /\ g.due = f.due
  BY <1>3 DEF Frame
<1>. QED
  BY <1>2, <1>4

\* An ordinary listener returns: the index moves on.
LEMMA ReturnsInv ==
    ASSUME TableInv, Returns
    PROVE  TableInv'
<1>. DEFINE n == Len(stack)
            g == [Top EXCEPT !.calling = FALSE, !.i = @ + 1]
<1>0. /\ TableTypes /\ stack # <<>> /\ Top.calling /\ ~Top.once /\ ~corrupt /\ SetTop(g)
      /\ UNCHANGED <<table, nextId, emits, fired, removed, stale, corrupt>>
  BY DEF TableInv, Returns, Calling, hist
<1>1. Top \in Frame
  BY <1>0 DEF TableTypes, Top
<1>2. /\ g \in Frame /\ g.i = Top.i + 1 /\ g.ev = Top.ev /\ g.calling = FALSE
      /\ g.cb = Top.cb /\ g.shrunk = Top.shrunk /\ g.due = Top.due
  BY <1>1, ReturnedFrame
<1>. HIDE DEF g
<1>3. /\ n \in Nat \ {0} /\ Len(stack') = n /\ stack' \in Seq(Frame)
      /\ Top = stack[n] /\ stack'[n] = g
      /\ \A k \in 1 .. n - 1 : k \in 1 .. n /\ stack'[k] = stack[k]
      /\ \A k \in 1 .. n : k = n \/ k \in 1 .. n - 1
  BY <1>0, <1>2, TopChanges
<1>. HIDE DEF n
<1>5. TableTypes'
  BY <1>0, <1>3 DEF TableTypes
<1>6. IdInv'
  BY <1>0, <1>2, <1>3 DEF TableInv, IdInv, n
<1>7. DueInv'
  <2>1. ASSUME NEW k \in 1 .. n, ~stack'[k].shrunk, NEW d \in stack'[k].due
        PROVE  \E j \in stack'[k].i .. Len(table) :
                 /\ table[j].id = d /\ table[j].ev = stack'[k].ev
                 /\ stack'[k].calling => j # stack'[k].i
    <3>1. CASE k = n
      <4>0. d \in Top.due /\ ~Top.shrunk
        BY <3>1, <2>1, <1>2, <1>3
      <4>1. PICK j \in Top.i .. Len(table) : table[j].id = d /\ table[j].ev = Top.ev /\ j # Top.i
        BY <4>0, <1>0, <1>3 DEF TableInv, DueInv, n
      <4>2. Top.i \in Nat
        BY <1>1, FrameFields
      <4>3. j \in Top.i + 1 .. Len(table)
        BY <4>1, <4>2
      <4>. QED
        BY <4>1, <4>3, <3>1, <1>2, <1>3
    <3>2. CASE k \in 1 .. n - 1
      BY <3>2, <2>1, <1>3 DEF TableInv, DueInv, n
    <3>. QED
      BY <3>1, <3>2, <1>3
  <2>2. table' = table
    BY <1>0
  <2>. QED
    BY <2>1, <2>2, <1>3 DEF DueInv
<1>8. CallInv'
  <2>1. table' = table /\ fired' = fired
    BY <1>0
  <2>. QED
    BY <2>1, <1>2, <1>3 DEF TableInv, CallInv, n
<1>9. OnceInv'
  <2>1. ASSUME NEW x, x # Top.cb PROVE Callers(x)' = Callers(x)
    <3>1. \A k \in Callers(x)' : k \in Callers(x)
      BY <2>1, <1>2, <1>3 DEF Callers, n
    <3>2. \A k \in Callers(x) : k \in Callers(x)'
      BY <2>1, <1>0, <1>3 DEF Callers, n
    <3>. QED
      BY <3>1, <3>2
  <2>2. \A i \in 1 .. Len(table) : table[i].once => table[i].id # Top.cb
    BY <1>0, <1>3 DEF TableInv, CallInv, n
  <2>. QED
    BY <1>0, <2>1, <2>2 DEF TableInv, OnceInv
<1>10. CorruptInv'
  BY <1>0 DEF TableInv, CorruptInv
<1>. QED
  BY <1>5, <1>6, <1>7, <1>8, <1>9, <1>10 DEF TableInv

\* A once-listener returns: the array closes up and the index stays.
LEMMA OnceReturnsInv ==
    ASSUME TableInv, OnceReturns
    PROVE  TableInv'
<1>. DEFINE n == Len(stack)
            m == Len(table)
            p == Top.i
            g == [Top EXCEPT !.calling = FALSE]
<1>0. /\ TableTypes /\ stack # <<>> /\ Top.calling /\ Top.once /\ ~corrupt /\ p <= m
      /\ table' = RemoveAt(table, p) /\ stale' = (stale \/ table[p].id # Top.cb)
      /\ stack' = [Shrunk(n - 1) EXCEPT ![n] = g]
      /\ UNCHANGED <<nextId, emits, fired, removed, corrupt>>
  BY DEF TableInv, OnceReturns, Calling
<1>1. stack \in Seq(Frame) /\ n \in Nat \ {0} /\ Top = stack[n] /\ Top \in Frame
  BY <1>0 DEF TableTypes, Top
<1>2. p \in 1 .. m /\ p \in Nat \ {0} /\ m \in Nat /\ table \in Seq(Listener)
  <2>1. p \in Nat \ {0}
    BY <1>1, FrameFields
  <2>2. m \in Nat /\ table \in Seq(Listener)
    BY <1>0 DEF TableTypes
  <2>. QED
    BY <2>1, <2>2, <1>0
<1>3. /\ g \in Frame /\ g.i = p /\ g.ev = Top.ev /\ g.calling = FALSE
      /\ g.cb = Top.cb /\ g.shrunk = Top.shrunk /\ g.due = Top.due
  BY <1>1 DEF Frame
<1>. HIDE DEF g
<1>4. /\ Len(stack') = n /\ stack'[n] = g
      /\ \A k \in 1 .. n - 1 : k \in 1 .. n /\ stack'[k] = [stack[k] EXCEPT !.shrunk = TRUE]
      /\ stack' = [k \in 1 .. n |-> stack'[k]]
  <2>. DEFINE s == Shrunk(n - 1)
  <2>1. s = [k \in 1 .. n |-> IF k <= n - 1 THEN [stack[k] EXCEPT !.shrunk = TRUE] ELSE stack[k]]
    BY DEF Shrunk
  <2>2. DOMAIN s = 1 .. n /\ \A k \in 1 .. n - 1 : k \in 1 .. n /\ s[k] = [stack[k] EXCEPT !.shrunk = TRUE]
    <3>. HIDE DEF s, n
    <3>1. DOMAIN s = 1 .. n
      BY <2>1
    <3>2. ASSUME NEW k \in 1 .. n - 1
          PROVE  k \in 1 .. n /\ s[k] = [stack[k] EXCEPT !.shrunk = TRUE]
      <4>1. k \in 1 .. n /\ k <= n - 1
        BY <1>1
      <4>. QED
        BY <2>1, <4>1, Zenon
    <3>. QED
      BY <3>1, <3>2
  <2>. HIDE DEF s
  <2>3. stack' = [s EXCEPT ![n] = g] /\ s = [k \in 1 .. n |-> s[k]]
    BY <2>1, <1>0 DEF s
  <2>4. n \in 1 .. n /\ \A k \in 1 .. n - 1 : k # n
    BY <1>1
  <2>5. stack' = [k \in 1 .. n |-> stack'[k]] /\ stack'[n] = g /\ DOMAIN stack' = 1 .. n
    BY <2>2, <2>3, <2>4
  <2>6. \A k \in 1 .. n - 1 : stack'[k] = s[k]
    BY <2>2, <2>3, <2>4
  <2>7. Len(stack') = n
    BY <2>5, <1>1
  <2>. QED
    BY <2>2, <2>5, <2>6, <2>7
<1>5. \A k \in 1 .. n : k = n \/ k \in 1 .. n - 1
  BY <1>1
<1>6. \A k \in 1 .. n - 1 :
        /\ stack'[k] \in Frame /\ stack'[k].shrunk = TRUE
        /\ stack'[k].calling = stack[k].calling /\ stack'[k].cb = stack[k].cb
        /\ stack'[k].once = stack[k].once
  <2>1. \A k \in 1 .. n : stack[k] \in Frame
    BY <1>1
  <2>. QED
    BY <2>1, <1>4, ShrunkFrame
<1>7. stack' \in Seq(Frame)
  BY <1>1, <1>3, <1>4, <1>5, <1>6, IsASeq
<1>8. /\ table' \in Seq(Listener) /\ Len(table') = m - 1
      /\ \A a \in 1 .. m - 1 : table'[a] = IF a < p THEN table[a] ELSE table[a + 1]
  BY <1>0, <1>2, RemoveAtFacts
<1>9. ASSUME NEW a \in 1 .. m - 1
      PROVE  \E b \in 1 .. m : b # p /\ table'[a] = table[b] /\ b = (IF a < p THEN a ELSE a + 1)
  BY <1>2, <1>8
<1>. HIDE DEF n, m, p
<1>10. TableTypes'
  BY <1>0, <1>7, <1>8 DEF TableTypes
<1>11. IdInv'
  <2>1. \A i, j \in 1 .. m : table[i].id = table[j].id => i = j
    BY DEF TableInv, IdInv, m
  <2>2. \A i, j \in 1 .. m - 1 : table'[i].id = table'[j].id => i = j
    <3>1. SUFFICES ASSUME NEW i \in 1 .. m - 1, NEW j \in 1 .. m - 1, table'[i].id = table'[j].id
                   PROVE  i = j
      OBVIOUS
    <3>2. PICK b \in 1 .. m : b # p /\ table'[i] = table[b] /\ b = (IF i < p THEN i ELSE i + 1)
      BY <1>9
    <3>3. PICK c \in 1 .. m : c # p /\ table'[j] = table[c] /\ c = (IF j < p THEN j ELSE j + 1)
      BY <1>9
    <3>4. b = c
      BY <2>1, <3>1, <3>2, <3>3
    <3>. QED
      BY <1>2, <3>2, <3>3, <3>4
  <2>3. \A i \in 1 .. m - 1 : table'[i].id < nextId
    BY <1>9 DEF TableInv, IdInv, m
  <2>4. \A k \in 1 .. n : stack'[k].cb < nextId
    BY <1>1, <1>3, <1>4, <1>5, <1>6 DEF TableInv, IdInv, n
  <2>. QED
    BY <1>0, <1>4, <1>8, <2>2, <2>3, <2>4 DEF TableInv, IdInv
<1>12. DueInv'
  <2>1. ASSUME NEW k \in 1 .. n, ~stack'[k].shrunk, NEW d \in stack'[k].due
        PROVE  \E j \in stack'[k].i .. m - 1 :
                 /\ table'[j].id = d /\ table'[j].ev = stack'[k].ev
                 /\ stack'[k].calling => j # stack'[k].i
    <3>1. k = n
      BY <2>1, <1>5, <1>6
    <3>2. d \in Top.due /\ ~Top.shrunk
      BY <3>1, <2>1, <1>3, <1>4
    <3>3. PICK j \in p .. m : table[j].id = d /\ table[j].ev = Top.ev /\ j # p
      BY <3>2, <1>0, <1>1 DEF TableInv, DueInv, n, m, p
    <3>4. /\ j - 1 \in p .. m - 1 /\ j - 1 \in 1 .. m - 1 /\ ~(j - 1 < p) /\ (j - 1) + 1 = j
      BY <3>3, <1>2
    <3>5. table'[j - 1] = table[j]
      BY <3>4, <1>8
    <3>. QED
      BY <3>1, <3>3, <3>4, <3>5, <1>3, <1>4
  <2>. QED
    BY <2>1, <1>4, <1>8 DEF DueInv
<1>13. CallInv'
  <2>1. ASSUME NEW k \in 1 .. n, stack'[k].calling
        PROVE  /\ \A j \in 1 .. m - 1 : table'[j].id = stack'[k].cb => table'[j].once = stack'[k].once
               /\ stack'[k].cb \in Ids /\ fired[stack'[k].cb] > 0
               /\ stack'[k].shrunk
    <3>1. k \in 1 .. n - 1
      BY <2>1, <1>3, <1>4, <1>5
    <3>2. k \in 1 .. n /\ stack[k].calling
      BY <3>1, <2>1, <1>4, <1>6
    <3>3. /\ \A j \in 1 .. m : table[j].id = stack[k].cb => table[j].once = stack[k].once
          /\ stack[k].cb \in Ids /\ fired[stack[k].cb] > 0
      BY <3>2 DEF TableInv, CallInv, n, m
    <3>. QED
      BY <3>1, <3>3, <1>6, <1>9
  <2>2. fired' = fired
    BY <1>0
  <2>. QED
    BY <2>1, <2>2, <1>4, <1>8 DEF CallInv
<1>14. OnceInv'
  <2>1. ASSUME NEW x, x # Top.cb PROVE Callers(x)' = Callers(x)
    <3>1. \A k \in Callers(x)' : k \in Callers(x)
      BY <2>1, <1>3, <1>4, <1>5, <1>6 DEF Callers, n
    <3>2. \A k \in Callers(x) : k \in Callers(x)'
      BY <2>1, <1>1, <1>4, <1>5, <1>6 DEF Callers, n
    <3>. QED
      BY <3>1, <3>2
  <2>2. ASSUME ~stale', NEW i \in 1 .. m - 1, table'[i].once, NEW x, x = table'[i].id
        PROVE  fired[x] = Cardinality(Callers(x)')
    <3>1. ~stale /\ table[p].id = Top.cb
      BY <2>2, <1>0
    <3>2. PICK b \in 1 .. m : b # p /\ table'[i] = table[b]
      BY <1>9
    <3>3. table[b].id # Top.cb
      BY <3>1, <3>2, <1>2 DEF TableInv, IdInv, m
    <3>4. fired[x] = Cardinality(Callers(x))
      BY <3>1, <3>2, <2>2 DEF TableInv, OnceInv, m
    <3>. QED
      BY <2>1, <2>2, <3>2, <3>3, <3>4
  <2>. QED
    BY <1>0, <1>8, <2>2 DEF OnceInv
<1>15. CorruptInv'
  BY <1>0 DEF CorruptInv
<1>. QED
  BY <1>10, <1>11, <1>12, <1>13, <1>14, <1>15 DEF TableInv

\* A once-listener returns to an array that ends before its index.
LEMMA PastEndInv ==
    ASSUME TableInv, OnceReturnsPastEnd
    PROVE  TableInv'
<1>0. /\ TableTypes /\ stack # <<>> /\ Top.calling /\ Top.i > Len(table) /\ corrupt' = TRUE
      /\ UNCHANGED <<table, stack, nextId, emits, fired, removed, stale>>
  BY DEF TableInv, OnceReturnsPastEnd, Calling
<1>1. Len(stack) \in 1 .. Len(stack) /\ Top = stack[Len(stack)] /\ Top.i \in Nat /\ Len(table) \in Nat
  <2>1. Len(stack) \in 1 .. Len(stack)
    BY <1>0 DEF TableTypes
  <2>. QED
    BY <2>1, <1>0, EmitTypes, EntryTypes DEF Top
<1>2. Top.shrunk
  BY <1>0, <1>1 DEF TableInv, CallInv
<1>3. CorruptInv'
  BY <1>0, <1>2 DEF CorruptInv, Top
<1>4. TableTypes' /\ IdInv' /\ DueInv' /\ CallInv'
  BY <1>0 DEF TableInv, TableTypes, IdInv, DueInv, CallInv
<1>5. OnceInv'
  <2>1. \A l : Callers(l)' = Callers(l)
    BY <1>0 DEF Callers
  <2>. QED
    BY <1>0, <2>1 DEF TableInv, OnceInv
<1>. QED
  BY <1>3, <1>4, <1>5 DEF TableInv

\* An emit ends; the others stay as they are.
LEMMA EmitEndsInv ==
    ASSUME TableInv, EmitEnds
    PROVE  TableInv'
<1>. DEFINE n == Len(stack)
<1>0. /\ TableTypes /\ stack # <<>> /\ ~Top.calling /\ stack' = Front(stack)
      /\ UNCHANGED <<table, nextId, emits, fired, removed, stale, corrupt>>
  BY DEF TableInv, EmitEnds, Scanning, hist
<1>1. stack \in Seq(Frame) /\ n \in Nat \ {0} /\ Top = stack[n]
  BY <1>0 DEF TableTypes, Top
<1>2. /\ stack' \in Seq(Frame) /\ Len(stack') = n - 1
      /\ \A k \in 1 .. n - 1 : stack'[k] = stack[k] /\ k \in 1 .. n
  <2>1. n - 1 \in Nat /\ n - 1 <= Len(stack) /\ \A k \in 1 .. n - 1 : k \in 1 .. n
    BY <1>1
  <2>. QED
    BY <2>1, <1>0, <1>1, PrefixFacts DEF Front
<1>. HIDE DEF n
<1>3. TableTypes'
  BY <1>0, <1>2 DEF TableTypes
<1>4. IdInv' /\ DueInv' /\ CallInv'
  <2>1. table' = table /\ fired' = fired /\ nextId' = nextId
    BY <1>0
  <2>2. IdInv'
    BY <2>1, <1>2 DEF TableInv, IdInv, n
  <2>3. DueInv'
    BY <2>1, <1>2 DEF TableInv, DueInv, n
  <2>4. CallInv'
    BY <2>1, <1>2 DEF TableInv, CallInv, n
  <2>. QED
    BY <2>2, <2>3, <2>4
<1>5. OnceInv'
  <2>1. \A l : Callers(l)' = Callers(l)
    <3>1. SUFFICES ASSUME NEW l PROVE Callers(l)' = Callers(l)
      OBVIOUS
    <3>2. \A k \in Callers(l)' : k \in Callers(l)
      BY <1>2 DEF Callers, n
    <3>3. ASSUME NEW k \in Callers(l) PROVE k \in Callers(l)'
      <4>1. k \in 1 .. n /\ stack[k].calling /\ stack[k].cb = l
        BY DEF Callers, n
      <4>2. k # n
        BY <4>1, <1>0, <1>1
      <4>3. k \in 1 .. n - 1
        BY <4>1, <4>2, <1>1
      <4>. QED
        BY <4>1, <4>3, <1>2 DEF Callers
    <3>. QED
      BY <3>2, <3>3
  <2>. QED
    BY <1>0, <2>1 DEF TableInv, OnceInv
<1>6. CorruptInv'
  BY <1>0 DEF TableInv, CorruptInv
<1>. QED
  BY <1>3, <1>4, <1>5, <1>6 DEF TableInv

\* Every step keeps the invariant.
LEMMA TableNext == TableInv /\ [EmitterNext]_emitterVars => TableInv'
<1>1. SUFFICES ASSUME TableInv, [EmitterNext]_emitterVars PROVE TableInv'
  OBVIOUS
<1>2. CASE UNCHANGED emitterVars
  <2>1. \A l : Callers(l)' = Callers(l)
    BY <1>2 DEF Callers, emitterVars
  <2>. QED
    BY <1>1, <1>2, <2>1 DEF TableInv, TableTypes, IdInv, DueInv, CallInv, OnceInv, CorruptInv, Top, emitterVars
<1>3. ASSUME NEW ev \in Events, Off(ev) PROVE TableInv'
  BY <1>1, <1>3, OffInv
<1>4. ASSUME NEW ev \in Events, Emit(ev) PROVE TableInv'
  BY <1>1, <1>4, EmitInv
<1>5. ASSUME NEW ev \in Events, NEW once \in BOOLEAN, On(ev, once) PROVE TableInv'
  BY <1>1, <1>5, OnInv
<1>6. CASE RemoveAll
  BY <1>1, <1>6, RemoveAllInv
<1>7. CASE Skip
  BY <1>1, <1>7, SkipInv
<1>8. CASE Call
  BY <1>1, <1>8, CallStep
<1>9. CASE Returns
  BY <1>1, <1>9, ReturnsInv
<1>10. CASE OnceReturns
  BY <1>1, <1>10, OnceReturnsInv
<1>11. CASE OnceReturnsPastEnd
  BY <1>1, <1>11, PastEndInv
<1>12. CASE EmitEnds
  BY <1>1, <1>12, EmitEndsInv
<1>. QED
  BY <1>1, <1>2, <1>3, <1>4, <1>5, <1>6, <1>7, <1>8, <1>9, <1>10, <1>11, <1>12 DEF EmitterNext

\* The invariant holds in every reachable state.
LEMMA TableHolds == EmitterSpec => []TableInv
BY TableInit, TableNext, PTL DEF EmitterSpec

\* The invariant implies what the run checks.
LEMMA TableExact == TableInv => EmitIsExact
<1>1. SUFFICES ASSUME TableInv PROVE EmitIsExact
  OBVIOUS
<1>2. TableTypes
  BY <1>1 DEF TableInv
<1>3. EmitterTypeOK
  <2>1. \A i \in 1 .. Len(table) : table[i] \in [id : Ids, ev : Events, once : BOOLEAN]
    BY <1>2, EntryTypes DEF Listener
  <2>2. IsInjective([i \in 1 .. Len(table) |-> table[i].id])
    BY <1>1 DEF TableInv, IdInv, IsInjective
  <2>. QED
    BY <1>2, <2>1, <2>2 DEF TableTypes, EmitterTypeOK
<1>4. EmitReachesAll
  <2>1. SUFFICES ASSUME Scanning, Top.i > Len(table), ~Top.shrunk PROVE Top.due = {}
    BY DEF EmitReachesAll
  <2>2. Len(stack) \in 1 .. Len(stack) /\ Top = stack[Len(stack)]
    BY <1>2, <2>1 DEF TableTypes, Scanning, Top
  <2>3. Top.i \in Nat /\ Len(table) \in Nat
    BY <1>2, <2>2, EmitTypes, EntryTypes
  <2>4. (Top.i .. Len(table)) = {}
    BY <2>1, <2>3
  <2>. QED
    BY <1>1, <2>1, <2>2, <2>4 DEF TableInv, DueInv
<1>5. OnceFiresOnce
  BY <1>1 DEF TableInv, OnceInv, Callers, OnceFiresOnce
<1>6. FreedTwiceOnlyIfShrunk
  BY <1>1 DEF TableInv, CorruptInv, FreedTwiceOnlyIfShrunk
<1>. QED
  BY <1>3, <1>4, <1>5, <1>6 DEF EmitIsExact

\* bw_emit and app_emit_internal call every listener they owe a call to, those of
\* once one time only, and free an entry twice only when the array shrank under
\* a call: EmitIsExact for any number of listeners, events and nested emits.
THEOREM EmitterExact == EmitterSpec => []EmitIsExact
BY TableHolds, TableExact, PTL

\* What a step may take out of the table.
Loss ==
    \A i \in 1 .. Len(table) :
           LET l == table[i]
               kept == \E j \in 1 .. Len(table') : table'[j] = l
           IN  kept \/ l.id \in removed' \/ (l.once /\ fired[l.id] > 0)
               \/ (Calling /\ Top.once /\ Top.shrunk)

\* No step loses a listener.
LEMMA StepLoses == TableInv /\ [EmitterNext]_emitterVars => [Loss]_emitterVars
<1>1. SUFFICES ASSUME TableInv, EmitterNext PROVE Loss
  OBVIOUS
<1>2. TableTypes
  BY <1>1 DEF TableInv
<1>3. CASE table' = table
  BY <1>3 DEF Loss
<1>4. ASSUME NEW ev \in Events, NEW once \in BOOLEAN, On(ev, once) PROVE Loss
  <2>1. table \in Seq(Listener) /\ table' = Append(table, [id |-> nextId, ev |-> ev, once |-> once])
    BY <1>2, <1>4 DEF TableTypes, On
  <2>2. \A i \in 1 .. Len(table) : i \in 1 .. Len(table') /\ table'[i] = table[i]
    BY <2>1
  <2>. QED
    BY <2>2 DEF Loss
<1>5. ASSUME NEW ev \in Events, Off(ev) PROVE Loss
  <2>. DEFINE P == {l \in ToSet(table) : l.ev # ev}
  <2>1. table \in Seq(Listener) /\ table' = Filter(table, P)
    BY <1>2, <1>5 DEF TableTypes, Off
  <2>2. table' \in Seq(Listener) /\ ToSet(table') = ToSet(table) \cap P
    BY <2>1, FilterKeeps
  <2>3. ASSUME NEW i \in 1 .. Len(table)
        PROVE  (\E j \in 1 .. Len(table') : table'[j] = table[i]) \/ table[i].id \in removed'
    <3>1. CASE table[i].ev = ev
      BY <3>1, <1>5 DEF Off
    <3>2. CASE table[i].ev # ev
      <4>1. table[i] \in ToSet(table)
        BY <2>1 DEF ToSet
      <4>2. table[i] \in ToSet(table')
        BY <4>1, <3>2, <2>2
      <4>. QED
        BY <4>2, <2>2 DEF ToSet
    <3>. QED
      BY <3>1, <3>2
  <2>. QED
    BY <2>3 DEF Loss
<1>6. CASE RemoveAll
  BY <1>6 DEF RemoveAll, Registered, Loss
<1>7. CASE OnceReturns
  <2>1. /\ stack # <<>> /\ Top.calling /\ Top.once /\ Calling /\ Top.i <= Len(table)
        /\ table' = RemoveAt(table, Top.i)
    BY <1>7 DEF OnceReturns, Calling
  <2>2. Len(stack) \in 1 .. Len(stack) /\ Top = stack[Len(stack)]
    BY <1>2, <2>1 DEF TableTypes, Top
  <2>3. Top.i \in Nat \ {0} /\ Len(table) \in Nat /\ Top.i \in 1 .. Len(table) /\ table \in Seq(Listener)
    BY <1>2, <2>1, <2>2, EmitTypes, EntryTypes DEF TableTypes
  <2>4. /\ Len(table') = Len(table) - 1
        /\ \A a \in 1 .. Len(table) - 1 : table'[a] = IF a < Top.i THEN table[a] ELSE table[a + 1]
    BY <2>1, <2>3, RemoveAtFacts
  <2>5. ASSUME NEW i \in 1 .. Len(table), i # Top.i
        PROVE  \E j \in 1 .. Len(table') : table'[j] = table[i]
    <3>1. CASE i < Top.i
      <4>1. i \in 1 .. Len(table) - 1
        BY <3>1, <2>3
      <4>. QED
        BY <4>1, <3>1, <2>4
    <3>2. CASE ~(i < Top.i)
      <4>1. i - 1 \in 1 .. Len(table) - 1 /\ ~(i - 1 < Top.i) /\ (i - 1) + 1 = i
        BY <3>2, <2>3, <2>5
      <4>. QED
        BY <4>1, <2>4
    <3>. QED
      BY <3>1, <3>2
  <2>6. ~Top.shrunk => table[Top.i].once /\ fired[table[Top.i].id] > 0
    BY <1>1, <2>1, <2>2, <2>3 DEF TableInv, CallInv
  <2>. QED
    BY <2>1, <2>5, <2>6 DEF Loss
<1>. QED
  BY <1>1, <1>3, <1>4, <1>5, <1>6, <1>7 DEF EmitterNext, Emit, Skip, Call, Returns, OnceReturnsPastEnd, EmitEnds

\* A listener leaves the table of bw_emit only because a script removed its event
\* or because it was registered with once and has been called, unless the array
\* shrank during the call of a once-listener: an action property.
THEOREM EmitterLosesNone == EmitterSpec => NoneLost
<1>1. NoneLost <=> [][Loss]_emitterVars
  BY DEF NoneLost, Loss
<1>. QED
  BY TableHolds, StepLoses, <1>1, PTL DEF EmitterSpec

=============================================================================
