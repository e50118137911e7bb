------------------------------ MODULE EventLoop ------------------------------
(***************************************************************************)
(* The queues of mini_eventloop.c: the task and microtask FIFOs, the       *)
(* requestAnimationFrame array and their destruction. A callback on the    *)
(* stack (inCb) may call every queueing operation before it returns, as    *)
(* may the host between two calls into the loop. Queued callbacks are      *)
(* numbered in the order they were queued.                                 *)
(*                                                                         *)
(* The observers are left out: what their callbacks queue at the end of a  *)
(* render phase is what the host may queue after it.                       *)
(***************************************************************************)
EXTENDS Integers, Sequences, SequencesExt

CONSTANTS
    MaxItems,       \* bound: callbacks queued in a behaviour
    MaxFrames       \* bound: render phases in a behaviour

ASSUME LoopAssumption == MaxItems \in Nat /\ MaxFrames \in Nat

VARIABLES
    pc,         \* where the loop is: "host" between calls, or a phase below
    inCb,       \* a callback is on the stack
    next,       \* the number of the next queued callback
    tasks,      \* the task FIFO (task_head .. task_tail)
    micros,     \* the microtask FIFO
    detached,   \* the list drain_queue has taken off the queue
    raf, rafN,  \* the rAF array and raf_n; entries past rafN stay readable
    rn, ri,     \* n and i of mini_eventloop_render_phase
    frame,      \* how many render phases have started
    regFrame,   \* history: regFrame[k] = frame when rAF k was registered, or -1
    rafRan,     \* history: pairs <<k, f>>, rAF k ran in render phase f
    overtaken   \* history: the render phases in which a registration wrote
                \* over an entry of the snapshot that had not run yet

queues == <<tasks, micros, raf, rafN, next>>
vars == <<pc, inCb, queues, detached, rn, ri, frame, regFrame, rafRan, overtaken>>

Items == 1..MaxItems

Init ==
    /\ pc = "host" /\ inCb = FALSE /\ next = 1
    /\ tasks = <<>> /\ micros = <<>> /\ detached = <<>>
    /\ raf = <<>> /\ rafN = 0 /\ rn = 0 /\ ri = 0
    /\ frame = 0 /\ regFrame = [k \in Items |-> -1] /\ rafRan = {}
    /\ overtaken = {}

(***************************************************************************)
(* Operations a callback, or the host, may call                            *)
(***************************************************************************)
MayCall == next <= MaxItems /\ pc # "freed" /\ (inCb \/ pc = "host")

\* mini_eventloop_queue_task
QueueTask ==
    /\ MayCall
    /\ tasks' = Append(tasks, next) /\ next' = next + 1
    /\ UNCHANGED <<pc, inCb, micros, detached, raf, rafN, rn, ri, frame,
                   regFrame, rafRan, overtaken>>

\* mini_eventloop_queue_microtask
QueueMicrotask ==
    /\ MayCall
    /\ micros' = Append(micros, next) /\ next' = next + 1
    /\ UNCHANGED <<pc, inCb, tasks, detached, raf, rafN, rn, ri, frame,
                   regFrame, rafRan, overtaken>>

\* raf[raf_n++] = cb: the slot is overwritten when the array already has it.
AddRaf ==
    /\ MayCall
    /\ raf' = IF rafN < Len(raf) THEN [raf EXCEPT ![rafN + 1] = next]
              ELSE Append(raf, next)
    /\ rafN' = rafN + 1 /\ next' = next + 1
    /\ regFrame' = [regFrame EXCEPT ![next] = frame]
    /\ overtaken' = IF pc = "raf" /\ rafN \in ri .. rn - 1
                    THEN overtaken \cup {frame} ELSE overtaken
    /\ UNCHANGED <<pc, inCb, tasks, micros, detached, rn, ri, frame, rafRan>>

CallbackReturns ==
    /\ inCb
    /\ inCb' = FALSE
    /\ UNCHANGED <<pc, queues, detached, rn, ri, frame, regFrame, rafRan, overtaken>>

(***************************************************************************)
(* mini_eventloop_pump: drain microtasks, run one task, drain again        *)
(***************************************************************************)
PumpBegin ==
    /\ pc = "host"
    /\ pc' = "drain1"
    /\ UNCHANGED <<inCb, queues, detached, rn, ri, frame, regFrame,
                   rafRan, overtaken>>

\* drain_microtasks: the head is unlinked before its callback runs.
DrainMicrotask ==
    /\ pc \in {"drain1", "drain2"} /\ ~inCb
    /\ micros # <<>>
    /\ micros' = Tail(micros) /\ inCb' = TRUE
    /\ UNCHANGED <<pc, tasks, raf, rafN, next, detached, rn, ri, frame,
                   regFrame, rafRan, overtaken>>

\* Mutant: a pump returns after its first checkpoint.
DrainDoneSkipsTask ==
    /\ pc \in {"drain1", "drain2"} /\ ~inCb
    /\ micros = <<>>
    /\ pc' = "host"
    /\ UNCHANGED <<inCb, queues, detached, rn, ri, frame, regFrame,
                   rafRan, overtaken>>

DrainDone ==
    /\ pc \in {"drain1", "drain2"} /\ ~inCb
    /\ micros = <<>>
    /\ pc' = IF pc = "drain1" THEN "task" ELSE "host"
    /\ UNCHANGED <<inCb, queues, detached, rn, ri, frame, regFrame,
                   rafRan, overtaken>>

\* run_one_task
RunOneTask ==
    /\ pc = "task" /\ ~inCb
    /\ pc' = "drain2"
    /\ IF tasks = <<>> THEN UNCHANGED <<tasks, inCb>>
       ELSE tasks' = Tail(tasks) /\ inCb' = TRUE
    /\ UNCHANGED <<micros, raf, rafN, next, detached, rn, ri, frame,
                   regFrame, rafRan, overtaken>>

(***************************************************************************)
(* mini_eventloop_render_phase, the rAF part                               *)
(***************************************************************************)

\* Mutant: raf_n is not reset, so the entries run again next frame.
RenderBeginKeepsCount ==
    /\ pc = "host" /\ frame < MaxFrames
    /\ rn' = rafN /\ ri' = 0 /\ frame' = frame + 1
    /\ pc' = "raf"
    /\ UNCHANGED <<inCb, queues, detached, regFrame, rafRan, overtaken>>

\* int n = raf_n; raf_n = 0: the entries stay where they are.
RenderBegin ==
    /\ pc = "host" /\ frame < MaxFrames
    /\ rn' = rafN /\ rafN' = 0 /\ ri' = 0 /\ frame' = frame + 1
    /\ pc' = "raf"
    /\ UNCHANGED <<inCb, tasks, micros, raf, next, detached, regFrame,
                   rafRan, overtaken>>

\* The loop reads raf[i] when it gets there, not when the phase began.
RunRaf ==
    /\ pc = "raf" /\ ~inCb
    /\ ri < rn
    /\ rafRan' = rafRan \cup {<<raf[ri + 1], frame>>}
    /\ ri' = ri + 1 /\ inCb' = TRUE
    /\ UNCHANGED <<pc, queues, detached, rn, frame, regFrame, overtaken>>

RenderEnd ==
    /\ pc = "raf" /\ ~inCb
    /\ ri = rn
    /\ pc' = "host"
    /\ UNCHANGED <<inCb, queues, detached, rn, ri, frame, regFrame,
                   rafRan, overtaken>>

(***************************************************************************)
(* mini_eventloop_destroy: drain_queue on the tasks, then on the microtasks *)
(***************************************************************************)
DestroyBegin ==
    /\ pc = "host"
    /\ detached' = tasks /\ tasks' = <<>>
    /\ pc' = "freetasks"
    /\ UNCHANGED <<inCb, micros, raf, rafN, next, rn, ri, frame,
                   regFrame, rafRan, overtaken>>

DestroyRuns ==
    /\ pc \in {"freetasks", "freemicros"} /\ ~inCb
    /\ detached # <<>>
    /\ detached' = Tail(detached) /\ inCb' = TRUE
    /\ UNCHANGED <<pc, queues, rn, ri, frame, regFrame, rafRan, overtaken>>

DestroyMicros ==
    /\ pc = "freetasks" /\ ~inCb /\ detached = <<>>
    /\ detached' = micros /\ micros' = <<>>
    /\ pc' = "freemicros"
    /\ UNCHANGED <<inCb, tasks, raf, rafN, next, rn, ri, frame, regFrame,
                   rafRan, overtaken>>

DestroyFree ==
    /\ pc = "freemicros" /\ ~inCb /\ detached = <<>>
    /\ pc' = "freed"
    /\ UNCHANGED <<inCb, queues, detached, rn, ri, frame, regFrame,
                   rafRan, overtaken>>

Freed == pc = "freed" /\ UNCHANGED vars

Client == QueueTask \/ QueueMicrotask \/ AddRaf
Loop ==
    \/ PumpBegin \/ DrainMicrotask \/ DrainDone \/ RunOneTask
    \/ RenderBegin \/ RunRaf \/ RenderEnd
    \/ DestroyBegin \/ DestroyRuns \/ DestroyMicros \/ DestroyFree

Next == Client \/ CallbackReturns \/ Loop \/ Freed

Spec == Init /\ [][Next]_vars

\* Callbacks return and a call into the loop runs to its end; when the host
\* pumps, renders or destroys is its own choice, but it keeps pumping.
Fairness ==
    /\ WF_vars(CallbackReturns)
    /\ WF_vars(DrainMicrotask) /\ WF_vars(DrainDone) /\ WF_vars(RunOneTask)
    /\ WF_vars(RunRaf) /\ WF_vars(RenderEnd)
    /\ WF_vars(DestroyRuns) /\ WF_vars(DestroyMicros) /\ WF_vars(DestroyFree)
    /\ SF_vars(PumpBegin)

FairSpec == Spec /\ Fairness

-----------------------------------------------------------------------------
(***************************************************************************)
(* Properties                                                              *)
(***************************************************************************)

\* The type of struct MiniEventLoop and of the loop's locals.
TypeOK ==
    /\ pc \in {"host", "drain1", "task", "drain2", "raf", "freetasks",
               "freemicros", "freed"}
    /\ inCb \in BOOLEAN
    /\ next \in 1..(MaxItems + 1) /\ frame \in 0..MaxFrames
    /\ tasks \in Seq(Items) /\ micros \in Seq(Items) /\ detached \in Seq(Items)
    /\ raf \in Seq(Items) /\ rafN \in 0..Len(raf)
    /\ rn \in 0..Len(raf) /\ ri \in 0..rn
    /\ regFrame \in [Items -> -1..MaxFrames]
    /\ rafRan \subseteq Items \X (1..MaxFrames) /\ overtaken \subseteq 1..MaxFrames

\* A task never starts while a microtask waits, and a pump returns to the
\* host only with the microtask queue drained, nested microtasks included
\* (mini_eventloop_pump, drain_microtasks).
Checkpoints ==
    [][ /\ (pc = "task" /\ pc' = "drain2") => micros = <<>>
        /\ (pc = "drain2" /\ pc' = "host") => micros' = <<>> ]_vars

\* Tasks run in the order they were queued, whatever is queued while they
\* run: what is still queued is always younger than what has run.
TasksInOrder ==
    [][ tasks' # tasks /\ Len(tasks') < Len(tasks) /\ pc = "task" =>
          \A k \in ToSet(tasks') : \A j \in ToSet(tasks) \ ToSet(tasks') : j < k
      ]_vars

\* A requestAnimationFrame callback runs in the first render phase that starts
\* after it was registered, and in no other one ("snapshot; new rAFs land next
\* frame", mini_eventloop.c:129).  That holds of every phase but the ones in
\* which the callbacks registered faster than the loop read: the snapshot shares
\* its array with the new registrations.
RafNextFrame ==
    /\ \A r \in rafRan : r[2] = regFrame[r[1]] + 1 \/ r[2] \in overtaken
    /\ pc = "host" =>
         \A k \in Items : regFrame[k] \in 0 .. frame - 1 =>
             \/ <<k, regFrame[k] + 1>> \in rafRan
             \/ regFrame[k] + 1 \in overtaken

\* A callback is in one queue only: nothing queued is also about to be run
\* from a detached list (a freed entry of the list would run again).
NothingQueuedTwice ==
    /\ ToSet(detached) \cap (ToSet(tasks) \cup ToSet(micros)) = {}
    /\ ToSet(tasks) \cap ToSet(micros) = {}

\* Every queued task is run in the end if the host keeps pumping or destroys
\* the loop, as long as callbacks do not queue without end.
TasksEventuallyRun ==
    \A k \in Items : k \in ToSet(tasks) ~> (k \notin ToSet(tasks) \/ pc = "freed")

\* Every callback has its turn and no other: an animation frame callback in the
\* next frame, a queued one from one queue only (render_phase, drain_queue).
CallbacksInTurn == TypeOK /\ RafNextFrame /\ NothingQueuedTwice

\* The order of an HTML event loop: microtask checkpoints around every task,
\* tasks first in, first out (mini_eventloop_pump).
TaskOrder == Checkpoints /\ TasksInOrder

\* And none of them is left waiting: order and progress of the tasks
\* (mini_eventloop_pump, run_one_task).
TasksRunInOrder == TaskOrder /\ TasksEventuallyRun
=============================================================================
