----------------------------- MODULE BridgeTimers -----------------------------
(***************************************************************************)
(* The callbacks a bridge keeps for its script (mini_js_bridge.c): timers, *)
(* requestAnimationFrame and promise jobs, and how mini_bridge_pump,       *)
(* mini_bridge_fire_raf and mini_bridge_destroy run and release them.      *)
(*                                                                         *)
(* Timers are kept in an array that the pump walks with an index while the *)
(* callbacks it runs append to the array and remove from it, by moving the *)
(* last entry into the hole.                                               *)
(*                                                                         *)
(* Time is relative: the left of a timer is how much later than the pump's *)
(* last reading of the clock it is due, rounded up to a tick.  A pump      *)
(* reads a later time than the one before; setTimeout may read the same.   *)
(***************************************************************************)
EXTENDS Integers, Sequences, SequencesExt, FiniteSets

CONSTANTS MaxTimers,     \* bound: timers created
          MaxRafs,       \* bound: animation frame callbacks registered
          MaxJobs,       \* bound: promise jobs queued
          MaxDelay       \* bound: the delay of a timer, in ticks

ASSUME TimersAssumption ==
    /\ MaxTimers \in Nat /\ MaxRafs \in Nat /\ MaxJobs \in Nat
    /\ MaxDelay \in Nat \ {0}

TimerIds == 1 .. MaxTimers
RafIds == 1 .. MaxRafs
None == 0

VARIABLES
    pc,           \* "host", or the loop that is running
    inCb,         \* a callback is on the stack
    timers,       \* timers[0 .. tm_n - 1]
    nextTimer,    \* tm_next_id + 1
    i,            \* the index of the pump's walk, from 1
    cur,          \* the timer whose callback is on the stack, or None
    curRec,       \* the pump's local recurring
    raf, nextRaf, \* raf[0 .. raf_n - 1] and raf_next_id + 1
    detached, ri, \* the array fire_raf took away, and its index
    jobs, made,   \* promise jobs queued, and how many were ever queued
    timerRefs,    \* references the bridge holds to each timer's callback
    rafRefs,      \* references to each animation frame callback
    inPass,       \* history: timers called in this walk
    retired,      \* history: timers cleared, and one-shot timers called
    clearedInPass,\* history: a timer was removed during this walk
    frameDue,     \* history: rAFs waiting when the frame began
    frameRan      \* history: rAFs run in this frame

arrays == <<timers, nextTimer, raf, nextRaf, jobs, made, timerRefs, rafRefs>>
walk == <<i, cur, curRec, inPass>>
frame == <<detached, ri, frameDue, frameRan>>
vars == <<pc, inCb, arrays, walk, frame, retired, clearedInPass>>

Init ==
    /\ pc = "host" /\ inCb = FALSE
    /\ timers = <<>> /\ nextTimer = 1 /\ i = 1 /\ cur = None /\ curRec = FALSE
    /\ raf = <<>> /\ nextRaf = 1 /\ detached = <<>> /\ ri = 1
    /\ jobs = 0 /\ made = 0
    /\ timerRefs = [t \in TimerIds |-> 0] /\ rafRefs = [r \in RafIds |-> 0]
    /\ inPass = {} /\ retired = {} /\ clearedInPass = FALSE
    /\ frameDue = {} /\ frameRan = {}

-----------------------------------------------------------------------------
(* What a script calls: from a callback, or from an event the host          *)
(* dispatches between two loops.                                            *)

ScriptRuns == inCb \/ pc = "host"

\* setTimeout and setInterval, at the time of the last pump or after it.  An
\* array that cannot grow is an exception that changes nothing.
AddTimer(ms, rec) ==
    /\ ScriptRuns /\ nextTimer \in TimerIds
    /\ \E late \in 0 .. 1 :
          timers' = Append(timers, [id |-> nextTimer, left |-> ms + late,
                                    rec |-> rec,
                                    every |-> IF rec THEN ms ELSE 0])
    /\ nextTimer' = nextTimer + 1
    /\ timerRefs' = [timerRefs EXCEPT ![nextTimer] = 1]
    /\ UNCHANGED <<pc, inCb, raf, nextRaf, jobs, made, rafRefs, walk, frame,
                   retired, clearedInPass>>

\* timers[k] = timers[--tm_n]
Compacted(ts, k) == Front([ts EXCEPT ![k] = Last(ts)])

\* Mutant: the entry is removed but its callback is not released.
ClearTimerLeaks(k) ==
    /\ ScriptRuns
    /\ timers' = Compacted(timers, k)
    /\ retired' = retired \cup {timers[k].id}
    /\ clearedInPass' = (pc = "scan")
    /\ UNCHANGED <<pc, inCb, nextTimer, raf, nextRaf, jobs, made, timerRefs,
                   rafRefs, walk, frame>>

\* Mutant: the first entry is removed, whatever the handle.
ClearTimerFirst(k) ==
    /\ ScriptRuns
    /\ timers' = Compacted(timers, 1)
    /\ timerRefs' = [timerRefs EXCEPT ![timers[1].id] = @ - 1]
    /\ retired' = retired \cup {timers[k].id}
    /\ clearedInPass' = (pc = "scan")
    /\ UNCHANGED <<pc, inCb, nextTimer, raf, nextRaf, jobs, made, rafRefs, walk,
                   frame>>

\* clearTimeout and clearInterval of the timer at index k.
ClearTimer(k) ==
    /\ ScriptRuns
    /\ timers' = Compacted(timers, k)
    /\ timerRefs' = [timerRefs EXCEPT ![timers[k].id] = @ - 1]
    /\ retired' = retired \cup {timers[k].id}
    /\ clearedInPass' = (pc = "scan")
    /\ UNCHANGED <<pc, inCb, nextTimer, raf, nextRaf, jobs, made, rafRefs, walk,
                   frame>>

\* requestAnimationFrame.
RequestFrame ==
    /\ ScriptRuns /\ nextRaf \in RafIds
    /\ raf' = Append(raf, nextRaf) /\ nextRaf' = nextRaf + 1
    /\ rafRefs' = [rafRefs EXCEPT ![nextRaf] = 1]
    /\ UNCHANGED <<pc, inCb, timers, nextTimer, jobs, made, timerRefs, walk,
                   frame, retired, clearedInPass>>

\* cancelAnimationFrame finds callbacks that no frame has taken away yet.
CancelFrame(k) ==
    /\ ScriptRuns
    /\ raf' = RemoveAt(raf, k)
    /\ rafRefs' = [rafRefs EXCEPT ![raf[k]] = @ - 1]
    /\ UNCHANGED <<pc, inCb, timers, nextTimer, nextRaf, jobs, made, timerRefs,
                   walk, frame, retired, clearedInPass>>

\* A promise with a reaction is settled.
QueueJob ==
    /\ ScriptRuns /\ made < MaxJobs
    /\ jobs' = jobs + 1 /\ made' = made + 1
    /\ UNCHANGED <<pc, inCb, timers, nextTimer, raf, nextRaf, timerRefs,
                   rafRefs, walk, frame, retired, clearedInPass>>

Script ==
    \/ \E ms \in 0 .. MaxDelay, rec \in BOOLEAN : AddTimer(ms, rec)
    \/ \E k \in DOMAIN timers : ClearTimer(k)
    \/ RequestFrame
    \/ \E k \in DOMAIN raf : CancelFrame(k)
    \/ QueueJob

-----------------------------------------------------------------------------
(* mini_bridge_pump.                                                        *)

\* The timers as the clock e ticks later sees them.
Elapsed(e) ==
    [k \in DOMAIN timers |->
        [timers[k] EXCEPT !.left = IF @ > e THEN @ - e ELSE 0]]

\* Mutant: the pump goes straight to the timers.
PumpBeginSkips ==
    /\ pc = "host" /\ ~inCb /\ pc' = "scan"
    /\ \E e \in 1 .. MaxDelay + 1 : timers' = Elapsed(e)
    /\ UNCHANGED <<inCb, nextTimer, raf, nextRaf, jobs, made, timerRefs,
                   rafRefs, walk, frame, retired, clearedInPass>>

PumpBegin ==
    /\ pc = "host" /\ ~inCb /\ pc' = "jobs"
    /\ UNCHANGED <<inCb, arrays, walk, frame, retired, clearedInPass>>

\* JS_ExecutePendingJob, also in mini_bridge_destroy.
RunJob ==
    /\ pc \in {"jobs", "freeJobs"} /\ ~inCb /\ jobs > 0
    /\ jobs' = jobs - 1 /\ inCb' = TRUE
    /\ UNCHANGED <<pc, timers, nextTimer, raf, nextRaf, made, timerRefs,
                   rafRefs, walk, frame, retired, clearedInPass>>

\* now = glfwGetTime(): the walk over the timers begins.
ScanBegin ==
    /\ pc' = "scan" /\ i' = 1 /\ inPass' = {} /\ clearedInPass' = FALSE
    /\ \E e \in 1 .. MaxDelay + 1 : timers' = Elapsed(e)
    /\ UNCHANGED <<nextTimer, raf, nextRaf, jobs, made, timerRefs, rafRefs,
                   cur, curRec, frame, retired>>

\* The job loop ends when no job is left ...
JobsDone ==
    /\ pc = "jobs" /\ ~inCb /\ jobs = 0
    /\ ScanBegin /\ UNCHANGED inCb

\* ... or when a job threw; the ones behind it wait for the next pump.
JobThrows ==
    /\ pc = "jobs" /\ inCb
    /\ ScanBegin /\ inCb' = FALSE

JobReturns ==
    /\ pc \in {"jobs", "freeJobs"} /\ inCb
    /\ inCb' = FALSE
    /\ UNCHANGED <<pc, arrays, walk, frame, retired, clearedInPass>>

Scanning == pc = "scan" /\ ~inCb
Due == i <= Len(timers) /\ timers[i].left = 0

NotDue ==
    /\ Scanning /\ i <= Len(timers) /\ ~Due
    /\ i' = i + 1
    /\ UNCHANGED <<pc, inCb, arrays, cur, curRec, inPass, frame, retired,
                   clearedInPass>>

Calling(t) == inCb' = TRUE /\ cur' = t /\ inPass' = inPass \cup {t}

\* A one-shot timer leaves the array before it is called.
FireTimeout ==
    /\ Scanning /\ Due /\ ~timers[i].rec
    /\ Calling(timers[i].id) /\ curRec' = FALSE
    /\ timers' = Compacted(timers, i)
    /\ retired' = retired \cup {timers[i].id}
    /\ UNCHANGED <<pc, i, nextTimer, raf, nextRaf, jobs, made, timerRefs,
                   rafRefs, frame, clearedInPass>>

\* An interval is re-armed, at least one tick ahead, and its callback is
\* duplicated for the call.
FireInterval ==
    /\ Scanning /\ Due /\ timers[i].rec
    /\ Calling(timers[i].id) /\ curRec' = TRUE
    /\ timers' = [timers EXCEPT ![i].left =
                     IF timers[i].every > 1 THEN timers[i].every ELSE 1]
    /\ timerRefs' = [timerRefs EXCEPT ![timers[i].id] = @ + 1]
    /\ UNCHANGED <<pc, i, nextTimer, raf, nextRaf, jobs, made, rafRefs, frame,
                   retired, clearedInPass>>

\* Mutant: the index advances after a one-shot timer too.
TimerReturnsAdvances ==
    /\ pc = "scan" /\ inCb
    /\ inCb' = FALSE /\ cur' = None /\ curRec' = FALSE /\ i' = i + 1
    /\ timerRefs' = [timerRefs EXCEPT ![cur] = @ - 1]
    /\ UNCHANGED <<pc, timers, nextTimer, raf, nextRaf, jobs, made, rafRefs,
                   inPass, frame, retired, clearedInPass>>

\* The callback returns, or throws and is logged: its reference is released,
\* and the index advances unless a compaction put another timer there.
TimerReturns ==
    /\ pc = "scan" /\ inCb
    /\ inCb' = FALSE /\ cur' = None /\ curRec' = FALSE
    /\ i' = IF curRec THEN i + 1 ELSE i
    /\ timerRefs' = [timerRefs EXCEPT ![cur] = @ - 1]
    /\ UNCHANGED <<pc, timers, nextTimer, raf, nextRaf, jobs, made, rafRefs,
                   inPass, frame, retired, clearedInPass>>

\* What follows in the pump (sockets, children, workers) keeps its own queues.
ScanDone ==
    /\ Scanning /\ i > Len(timers) /\ pc' = "host"
    /\ i' = 1 /\ inPass' = {} /\ clearedInPass' = FALSE
    /\ UNCHANGED <<inCb, arrays, cur, curRec, frame, retired>>

-----------------------------------------------------------------------------
(* mini_bridge_fire_raf.                                                    *)

\* The array is taken away; callbacks register into a new one.
FrameBegin ==
    /\ pc = "host" /\ ~inCb /\ pc' = "raf"
    /\ detached' = raf /\ raf' = <<>> /\ ri' = 1
    /\ frameDue' = ToSet(raf) /\ frameRan' = {}
    /\ UNCHANGED <<inCb, timers, nextTimer, nextRaf, jobs, made, timerRefs,
                   rafRefs, walk, retired, clearedInPass>>

RunRaf ==
    /\ pc = "raf" /\ ~inCb /\ ri <= Len(detached)
    /\ inCb' = TRUE /\ frameRan' = frameRan \cup {detached[ri]}
    /\ UNCHANGED <<pc, arrays, walk, detached, ri, frameDue, retired,
                   clearedInPass>>

RafReturns ==
    /\ pc = "raf" /\ inCb
    /\ inCb' = FALSE /\ ri' = ri + 1
    /\ rafRefs' = [rafRefs EXCEPT ![detached[ri]] = @ - 1]
    /\ UNCHANGED <<pc, timers, nextTimer, raf, nextRaf, jobs, made, timerRefs,
                   walk, detached, frameDue, frameRan, retired,
                   clearedInPass>>

FrameEnd ==
    /\ pc = "raf" /\ ~inCb /\ ri > Len(detached)
    /\ pc' = "host"
    /\ detached' = <<>> /\ ri' = 1 /\ frameDue' = {} /\ frameRan' = {}
    /\ UNCHANGED <<inCb, arrays, walk, retired, clearedInPass>>

-----------------------------------------------------------------------------
(* mini_bridge_destroy.                                                     *)

\* The arrays are released first ...
DestroyBegin ==
    /\ pc = "host" /\ ~inCb /\ pc' = "freeJobs"
    /\ timers' = <<>> /\ raf' = <<>>
    /\ timerRefs' = [t \in TimerIds |->
            timerRefs[t] - Cardinality({k \in DOMAIN timers : timers[k].id = t})]
    /\ rafRefs' = [r \in RafIds |->
            rafRefs[r] - Cardinality({k \in DOMAIN raf : raf[k] = r})]
    /\ retired' = retired \cup {timers[k].id : k \in DOMAIN timers}
    /\ UNCHANGED <<inCb, nextTimer, nextRaf, jobs, made, walk, frame,
                   clearedInPass>>

\* ... then the jobs run, up to the first that throws, and the runtime goes.
DestroyEnd ==
    /\ pc = "freeJobs" /\ pc' = "freed"
    /\ inCb \/ jobs = 0
    /\ inCb' = FALSE
    /\ UNCHANGED <<arrays, walk, frame, retired, clearedInPass>>

Pump ==
    \/ PumpBegin \/ RunJob \/ JobsDone \/ JobReturns \/ NotDue
    \/ FireTimeout \/ FireInterval \/ TimerReturns \/ ScanDone
Frame == FrameBegin \/ RunRaf \/ RafReturns \/ FrameEnd
Freed == pc = "freed" /\ UNCHANGED vars

Next ==
    \/ Script \/ Pump \/ JobThrows \/ Frame
    \/ DestroyBegin \/ DestroyEnd \/ Freed

Spec == Init /\ [][Next]_vars

\* The loops run on and callbacks return; the host pumps again and again, with
\* frames in between.  Nothing obliges scripts to call anything.
FairSpec ==
    /\ Spec
    /\ WF_vars(RunJob \/ JobsDone \/ JobReturns \/ NotDue \/ FireTimeout
               \/ FireInterval \/ TimerReturns \/ ScanDone
               \/ RunRaf \/ RafReturns \/ FrameEnd \/ DestroyEnd)
    /\ SF_vars(PumpBegin)

-----------------------------------------------------------------------------
(* Properties.                                                             *)

Timers == [id : TimerIds, left : 0 .. MaxDelay + 1, rec : BOOLEAN,
           every : 0 .. MaxDelay]

\* The type of the bridge's queues and of the loops' locals.
TypeOK ==
    /\ pc \in {"host", "jobs", "scan", "raf", "freeJobs", "freed"}
    /\ inCb \in BOOLEAN /\ curRec \in BOOLEAN /\ clearedInPass \in BOOLEAN
    /\ timers \in Seq(Timers) /\ nextTimer \in 1 .. MaxTimers + 1
    /\ i \in Nat \ {0} /\ ri \in Nat \ {0}
    /\ cur \in TimerIds \cup {None}
    /\ raf \in Seq(RafIds) /\ nextRaf \in 1 .. MaxRafs + 1
    /\ detached \in Seq(RafIds)
    /\ jobs \in 0 .. MaxJobs /\ made \in 0 .. MaxJobs
    /\ timerRefs \in [TimerIds -> 0 .. 2] /\ rafRefs \in [RafIds -> 0 .. 1]
    /\ inPass \subseteq TimerIds
    /\ retired \subseteq TimerIds
    /\ frameDue \subseteq RafIds /\ frameRan \subseteq RafIds

Entries(t) == Cardinality({k \in DOMAIN timers : timers[k].id = t})
WaitingRafs ==
    ToSet(raf) \cup (IF pc = "raf"
                     THEN {detached[k] : k \in {j \in DOMAIN detached : j >= ri}}
                     ELSE {})

\* The bridge holds one reference to a callback for each place that names it,
\* the call in progress included: none is called after its release, even by
\* a callback that clears its own timer, and none is kept after its last use
\* (add_timer, js_clearTimer, mini_bridge_pump, mini_bridge_fire_raf).
CallbackRefs ==
    /\ \A t \in TimerIds :
         timerRefs[t] = Entries(t) + (IF cur = t THEN 1 ELSE 0)
    /\ \A r \in RafIds : rafRefs[r] = IF r \in WaitingRafs THEN 1 ELSE 0

\* A timer is called only while it is owed a call: not after clearTimeout or
\* the destruction of the bridge, a one-shot timer once, an interval once in a
\* walk ("move on so we don't re-fire this frame").
CalledWhenOwed ==
    [][ \A t \in TimerIds : cur = None /\ cur' = t =>
            t \notin retired /\ t \notin inPass ]_vars

\* A walk of mini_bridge_pump that no callback disturbed with a clear has
\* called every timer that was due: compaction under the index skips none.
WalkIsComplete ==
    Scanning /\ i > Len(timers) /\ ~clearedInPass =>
        \A k \in DOMAIN timers : timers[k].left > 0

\* A frame of mini_bridge_fire_raf runs the callbacks registered before it
\* began, each of them, and none registered or re-registered by them.
FrameRunsItsOwn ==
    /\ pc = "raf" => frameRan \subseteq frameDue
    /\ (pc = "raf" /\ ~inCb /\ ri > Len(detached)) => frameRan = frameDue

\* A timer in the array is called, cleared or destroyed with the bridge, even
\* if clears keep moving it behind the index of the walk in mini_bridge_pump.
TimersFire ==
    \A t \in TimerIds :
        Entries(t) > 0 ~> (cur = t \/ Entries(t) = 0 \/ pc = "freed")

\* Promise jobs run even when earlier ones throw: the loop that stops at an
\* exception in mini_bridge_pump takes them up again in the next pump.
JobsRun == jobs > 0 ~> (jobs = 0 \/ pc = "freed")

\* The two walks of the bridge over arrays that callbacks change, the timers of
\* mini_bridge_pump and the frames of mini_bridge_fire_raf, leave nothing out.
WalksAreComplete == TypeOK /\ WalkIsComplete /\ FrameRunsItsOwn

\* Timers and promise jobs get their turn (mini_bridge_pump).
CallbacksRun == TimersFire /\ JobsRun
=============================================================================
