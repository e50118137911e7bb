----------------------------- MODULE WorkerPool -----------------------------
(***************************************************************************)
(* The background I/O worker pool of mini_worker.c: the main (JavaScript)  *)
(* thread submits file and fetch tasks, worker threads perform them, and   *)
(* the main thread fires the callbacks from its per-frame pump.            *)
(*                                                                         *)
(* Every access to the shared queues is inside one mutex, so a critical    *)
(* section is one action; what a thread does between two sections (result  *)
(* allocation, the I/O itself, firing callbacks) is a separate action.     *)
(* A JSValue callback is a reference the pool must release exactly once;   *)
(* refs counts the references the pool owes for each task.                 *)
(***************************************************************************)
EXTENDS Integers, Sequences, SequencesExt

CONSTANTS
    Workers,        \* the thread slots of the pool (two in mini_bridge_create)
    Tasks,          \* task identities; each is submitted at most once
    Kind,           \* Kind[t] \in {"read", "write", "fetch"} (MWKind)
    Path,           \* Path[t]: the file a read or write task names
    Paths,          \* the files
    InitCap,        \* first capacity of pending and ready (16 in the code)
    AllocMayFail,   \* malloc/calloc/realloc/_beginthreadex may fail
    IOMayFail       \* fopen and mini_net_fetch may fail

ASSUME PoolAssumption ==
    /\ Kind \in [Tasks -> {"read", "write", "fetch"}]
    /\ Path \in [Tasks -> Paths]
    /\ InitCap \in Nat \ {0}
    /\ AllocMayFail \in BOOLEAN
    /\ IOMayFail \in BOOLEAN

Init0 == "init"           \* the contents of a file no task has written
Empty == "empty"          \* the contents after fopen("wb") truncated it
ASSUME ContentsDistinct == Init0 \notin Tasks /\ Empty \notin Tasks

Idle == "idle"            \* a worker that holds no task
ASSUME IdleDistinct == Idle \notin Tasks

VARIABLES
    pc,         \* pc[w]: where worker w is in worker_main
    cur,        \* cur[w]: the task w took from pending, or Idle
    pending,    \* q->pending: a stack, submit pushes and workers pop the end
    pendCap,    \* q->pend_cap
    ready,      \* q->ready: tasks whose result waits for the pump
    readyCap,   \* q->ready_cap
    shutdown,   \* q->shutdown
    mpc,        \* the main thread: "js", "pump", "join", "freed"
    batch,      \* the pump's private copy of ready
    err,        \* the tasks whose result has err = 1
    refs,       \* refs[t]: callback references of t the pool still owes
    fired,      \* fired[t]: how often the callback of t was called
    file,       \* file[p]: the task whose data is in p, Init0 or Empty
    seen,       \* seen[t]: what a read task found (Init0 until it reads)
    submitted,  \* the tasks JavaScript has handed to mini_worker_submit
    refused,    \* history: submitted tasks that never entered pending
    performed,  \* history: tasks whose I/O a worker completed
    lost,       \* history: tasks whose callback reference was forgotten
    before      \* history: before[t] = writes settled when t was submitted

poolVars == <<pending, pendCap, ready, readyCap, shutdown>>
ioVars   == <<err, file, seen, performed>>
subVars  == <<submitted, refused, before>>
vars == <<pc, cur, mpc, batch, refs, fired, lost, subVars, poolVars, ioVars>>

Started == {w \in Workers : pc[w] # "unstarted"}

\* mini_worker_init: a thread that cannot be created leaves its slot empty.
Init ==
    /\ pc \in [Workers -> {"top"} \cup
                          (IF AllocMayFail THEN {"unstarted"} ELSE {})]
    /\ cur = [w \in Workers |-> Idle]
    /\ pending = <<>> /\ pendCap = 0
    /\ ready = <<>> /\ readyCap = 0
    /\ shutdown = FALSE
    /\ mpc = "js" /\ batch = <<>>
    /\ err = {}
    /\ refs = [t \in Tasks |-> 0]
    /\ fired = [t \in Tasks |-> 0]
    /\ file = [p \in Paths |-> Init0]
    /\ seen = [t \in Tasks |-> Init0]
    /\ submitted = {} /\ refused = {} /\ performed = {} /\ lost = {}
    /\ before = [t \in Tasks |-> {}]

(***************************************************************************)
(* The capacities a full array of n entries and capacity c can have after  *)
(* the growth step: doubled (InitCap at first), or unchanged when realloc  *)
(* fails.                                                                  *)
(***************************************************************************)
Grown(n, c) ==
    IF n < c THEN {c}
    ELSE {IF c = 0 THEN InitCap ELSE 2 * c} \cup
         (IF AllocMayFail THEN {c} ELSE {})

\* Mutant: submit forgets to signal.
SignalForgotten(pcs) == {pcs}

\* mw_cnd_signal wakes one waiter when there is one.
Signal(pcs) ==
    LET waiters == {w \in Workers : pcs[w] = "waiting"}
    IN  IF waiters = {} THEN {pcs}
        ELSE {[pcs EXCEPT ![w] = "top"] : w \in waiters}

(***************************************************************************)
(* Worker threads: worker_main and worker_do                               *)
(***************************************************************************)

\* The while loop around mw_cnd_wait: nothing to do and not stopping.
Wait(w) ==
    /\ pc[w] = "top"
    /\ pending = <<>> /\ ~shutdown
    /\ pc' = [pc EXCEPT ![w] = "waiting"]
    /\ UNCHANGED <<cur, mpc, batch, refs, fired, lost, subVars,
                   poolVars, ioVars>>

\* Condition variables may wake a thread nobody signalled.
SpuriousWakeup(w) ==
    /\ pc[w] = "waiting"
    /\ pc' = [pc EXCEPT ![w] = "top"]
    /\ UNCHANGED <<cur, mpc, batch, refs, fired, lost, subVars,
                   poolVars, ioVars>>

\* Mutant: a worker leaves as soon as it sees the flag.
ExitOnFlag(w) ==
    /\ pc[w] = "top"
    /\ shutdown
    /\ pc' = [pc EXCEPT ![w] = "exited"]
    /\ UNCHANGED <<cur, mpc, batch, refs, fired, lost, subVars,
                   poolVars, ioVars>>

\* A stopping worker leaves only once the pending array is empty.
Exit(w) ==
    /\ pc[w] = "top"
    /\ shutdown /\ pending = <<>>
    /\ pc' = [pc EXCEPT ![w] = "exited"]
    /\ UNCHANGED <<cur, mpc, batch, refs, fired, lost, subVars,
                   poolVars, ioVars>>

\* Mutant: pending[pend_n - 1] is read but pend_n is not decremented.
TakeWithoutPop(w) ==
    /\ pc[w] = "top"
    /\ pending # <<>>
    /\ pc' = [pc EXCEPT ![w] = "taken"]
    /\ cur' = [cur EXCEPT ![w] = Last(pending)]
    /\ UNCHANGED <<mpc, batch, refs, fired, lost, subVars, poolVars,
                   ioVars>>

\* pending[--pend_n]: the NEWEST task is taken.
Take(w) ==
    /\ pc[w] = "top"
    /\ pending # <<>>
    /\ pc' = [pc EXCEPT ![w] = "taken"]
    /\ cur' = [cur EXCEPT ![w] = Last(pending)]
    /\ pending' = Front(pending)
    /\ UNCHANGED <<mpc, batch, refs, fired, lost, subVars, pendCap,
                   ready, readyCap, shutdown, ioVars>>

\* calloc of the result; when it fails the task is freed and its callback,
\* which no other structure names, is forgotten.
AllocResult(w) ==
    /\ pc[w] = "taken"
    /\ \/ /\ pc' = [pc EXCEPT ![w] = "open"]
          /\ UNCHANGED <<cur, lost>>
       \/ /\ AllocMayFail
          /\ pc' = [pc EXCEPT ![w] = "top"]
          /\ cur' = [cur EXCEPT ![w] = Idle]
          /\ lost' = lost \cup {cur[w]}
    /\ UNCHANGED <<mpc, batch, refs, fired, subVars, poolVars,
                   ioVars>>

\* fopen or the fetch fails (or the buffer of a read cannot be allocated).
DoFail(w) ==
    /\ pc[w] = "open"
    /\ IOMayFail
    /\ err' = err \cup {cur[w]}
    /\ performed' = performed \cup {cur[w]}
    /\ pc' = [pc EXCEPT ![w] = "publish"]
    /\ UNCHANGED <<cur, mpc, batch, refs, fired, lost, subVars,
                   poolVars, file, seen>>

\* A read copies the file; a fetch leaves the files alone.
DoRead(w) ==
    /\ pc[w] = "open"
    /\ Kind[cur[w]] # "write"
    /\ seen' = IF Kind[cur[w]] = "read"
               THEN [seen EXCEPT ![cur[w]] = file[Path[cur[w]]]]
               ELSE seen
    /\ performed' = performed \cup {cur[w]}
    /\ pc' = [pc EXCEPT ![w] = "publish"]
    /\ UNCHANGED <<cur, mpc, batch, refs, fired, lost, subVars,
                   poolVars, err, file>>

\* fopen(path, "wb") truncates the file.
DoOpenWrite(w) ==
    /\ pc[w] = "open"
    /\ Kind[cur[w]] = "write"
    /\ file' = [file EXCEPT ![Path[cur[w]]] = Empty]
    /\ pc' = [pc EXCEPT ![w] = "write"]
    /\ UNCHANGED <<cur, mpc, batch, refs, fired, lost, subVars,
                   poolVars, err, seen, performed>>

\* fwrite and fclose. writeFile's copy of the data may have failed to
\* allocate: then nothing is written, and err stays 0 all the same.
DoWrite(w) ==
    /\ pc[w] = "write"
    /\ \/ file' = [file EXCEPT ![Path[cur[w]]] = cur[w]]
       \/ AllocMayFail /\ UNCHANGED file
    /\ performed' = performed \cup {cur[w]}
    /\ pc' = [pc EXCEPT ![w] = "publish"]
    /\ UNCHANGED <<cur, mpc, batch, refs, fired, lost, subVars,
                   poolVars, err, seen>>

\* The second critical section: append the result, or drop it and release
\* its callback (JS_FreeValueRT, from the worker) when ready cannot grow.
Publish(w) ==
    /\ pc[w] = "publish"
    /\ \E c \in Grown(Len(ready), readyCap) :
         /\ readyCap' = c
         /\ IF Len(ready) < c
            THEN /\ ready' = Append(ready, cur[w])
                 /\ UNCHANGED refs
            ELSE /\ refs' = [refs EXCEPT ![cur[w]] = @ - 1]
                 /\ UNCHANGED ready
    /\ pc' = [pc EXCEPT ![w] = "top"]
    /\ cur' = [cur EXCEPT ![w] = Idle]
    /\ UNCHANGED <<mpc, batch, fired, lost, subVars, pending, pendCap,
                   shutdown, ioVars>>

(***************************************************************************)
(* The main thread                                                         *)
(***************************************************************************)

\* The writes whose callback has run without error: what the program knows.
Settled ==
    {t \in Tasks : Kind[t] = "write" /\ fired[t] > 0 /\ t \notin err}

\* js_fs_readFile / js_fs_writeFile and mini_worker_submit. JavaScript runs
\* between frames and inside the callbacks the pump fires.
Submit(t) ==
    /\ mpc \in {"js", "pump"}
    /\ t \notin submitted
    /\ submitted' = submitted \cup {t}
    /\ before' = [before EXCEPT ![t] = Settled]
    /\ \/ /\ \E c \in Grown(Len(pending), pendCap) :
               /\ pendCap' = c
               /\ IF Len(pending) < c
                  THEN /\ pending' = Append(pending, t)
                       /\ refs' = [refs EXCEPT ![t] = 1]
                       /\ UNCHANGED refused
                  ELSE /\ refused' = refused \cup {t}
                       /\ UNCHANGED <<pending, refs>>
          /\ pc' \in Signal(pc)
          /\ UNCHANGED lost
       \/ /\ AllocMayFail            \* malloc(sizeof *t) fails: early return
          /\ refs' = [refs EXCEPT ![t] = 1]
          /\ lost' = lost \cup {t}
          /\ refused' = refused \cup {t}
          /\ UNCHANGED <<pc, pending, pendCap>>
    /\ UNCHANGED <<cur, mpc, batch, fired, ready, readyCap, shutdown, ioVars>>

\* Mutant: the pump copies the ready array but forgets ready_n = 0.
PumpCollectKeepsReady ==
    /\ mpc = "js"
    /\ ready # <<>>
    /\ batch' = ready
    /\ mpc' = "pump"
    /\ UNCHANGED <<pc, cur, refs, fired, lost, subVars, poolVars,
                   ioVars>>

\* mini_worker_pump, under the lock: the whole ready array becomes the batch.
\* (When the copy cannot be allocated nothing changes until the next frame.)
PumpCollect ==
    /\ mpc = "js"
    /\ ready # <<>>
    /\ batch' = ready
    /\ ready' = <<>>
    /\ mpc' = "pump"
    /\ UNCHANGED <<pc, cur, refs, fired, lost, subVars, pending,
                   pendCap, readyCap, shutdown, ioVars>>

\* mini_worker_pump, outside the lock: call and release one callback.
PumpFire ==
    /\ mpc = "pump"
    /\ fired' = [fired EXCEPT ![Head(batch)] = @ + 1]
    /\ refs' = [refs EXCEPT ![Head(batch)] = @ - 1]
    /\ batch' = Tail(batch)
    /\ mpc' = IF Tail(batch) = <<>> THEN "js" ELSE "pump"
    /\ UNCHANGED <<pc, cur, lost, subVars, poolVars, ioVars>>

\* mini_worker_destroy, first part: raise the flag and wake everyone.
DestroyBegin ==
    /\ mpc = "js"
    /\ shutdown' = TRUE
    /\ pc' = [w \in Workers |-> IF pc[w] = "waiting" THEN "top" ELSE pc[w]]
    /\ mpc' = "join"
    /\ UNCHANGED <<cur, batch, refs, fired, lost, subVars, pending,
                   pendCap, ready, readyCap, ioVars>>

\* Mutant: destroy frees the queue without joining the threads.
DestroyFreeWithoutJoin ==
    /\ mpc = "join"
    /\ pending' = <<>> /\ ready' = <<>>
    /\ mpc' = "freed"
    /\ UNCHANGED <<pc, cur, batch, refs, fired, lost, subVars, pendCap,
                   readyCap, shutdown, ioVars>>

\* mini_worker_destroy, after the joins: release what is still queued and
\* free the pool.
DestroyFree ==
    /\ mpc = "join"
    /\ \A w \in Started : pc[w] = "exited"
    /\ refs' = [t \in Tasks |->
                  refs[t] - (IF t \in ToSet(pending) THEN 1 ELSE 0)
                          - (IF t \in ToSet(ready) THEN 1 ELSE 0)]
    /\ pending' = <<>> /\ ready' = <<>>
    /\ mpc' = "freed"
    /\ UNCHANGED <<pc, cur, batch, fired, lost, subVars, pendCap, readyCap,
                   shutdown, ioVars>>

\* After mini_worker_destroy returned nothing is left to happen.
Stopped == mpc = "freed" /\ (\A w \in Started : pc[w] = "exited")
           /\ UNCHANGED vars

Worker(w) ==
    \/ Wait(w) \/ SpuriousWakeup(w) \/ Exit(w) \/ Take(w) \/ AllocResult(w)
    \/ DoFail(w) \/ DoRead(w) \/ DoOpenWrite(w) \/ DoWrite(w) \/ Publish(w)

MainThread ==
    \/ \E t \in Tasks : Submit(t)
    \/ PumpCollect \/ PumpFire \/ DestroyBegin \/ DestroyFree

Next == MainThread \/ (\E w \in Workers : Worker(w)) \/ Stopped

Spec == Init /\ [][Next]_vars

\* Workers keep running and their I/O returns; the frame loop keeps pumping.
\* Nothing obliges JavaScript to submit, the bridge to be destroyed, or the
\* condition variable to wake a thread nobody signalled.
WorkerProgress(w) ==
    \/ Wait(w) \/ Exit(w) \/ Take(w) \/ AllocResult(w)
    \/ DoFail(w) \/ DoRead(w) \/ DoOpenWrite(w) \/ DoWrite(w) \/ Publish(w)

Fairness ==
    /\ \A w \in Workers : WF_vars(WorkerProgress(w))
    /\ WF_vars(PumpCollect) /\ WF_vars(PumpFire) /\ WF_vars(DestroyFree)

FairSpec == Spec /\ Fairness

-----------------------------------------------------------------------------
(***************************************************************************)
(* Properties                                                              *)
(***************************************************************************)

WorkerStates == {"unstarted", "top", "waiting", "taken", "open", "write",
                 "publish", "exited"}
Contents == Tasks \cup {Init0, Empty}

\* The type of the pool's state (struct MiniWorkerQueue and the two threads'
\* program counters).
TypeOK ==
    /\ pc \in [Workers -> WorkerStates]
    /\ cur \in [Workers -> Tasks \cup {Idle}]
    /\ pending \in Seq(Tasks) /\ ready \in Seq(Tasks) /\ batch \in Seq(Tasks)
    /\ pendCap \in Nat /\ readyCap \in Nat
    /\ shutdown \in BOOLEAN
    /\ mpc \in {"js", "pump", "join", "freed"}
    /\ refs \in [Tasks -> 0..1] /\ fired \in [Tasks -> Nat]
    /\ file \in [Paths -> Contents] /\ seen \in [Tasks -> Contents]
    /\ submitted \subseteq Tasks /\ refused \subseteq Tasks
    /\ performed \subseteq Tasks
    /\ err \subseteq Tasks /\ lost \subseteq Tasks
    /\ before \in [Tasks -> SUBSET Tasks]

\* The tasks in the hands of some worker thread.
Running == {cur[w] : w \in {v \in Workers : cur[v] # Idle}}

\* A worker holds a task exactly between taking it and publishing its result.
Busy == {"taken", "open", "write", "publish"}

\* The tasks whose callback is in the pool's hands, forgotten ones included.
Held == ToSet(pending) \cup Running \cup ToSet(ready) \cup ToSet(batch)
            \cup lost

\* Each place of the pool names a task at most once, and no two places (the
\* pending array, a worker's local task, the ready array, the pump's batch,
\* the callbacks forgotten after a failed allocation) name the same one.
PlacesDisjoint ==
    /\ IsInjective(pending) /\ IsInjective(ready) /\ IsInjective(batch)
    /\ \A v, w \in Workers : cur[v] = cur[w] /\ cur[v] # Idle => v = w
    /\ \A t \in ToSet(pending) : t \notin Running \cup ToSet(ready)
                                            \cup ToSet(batch) \cup lost
    /\ \A t \in Running : t \notin ToSet(ready) \cup ToSet(batch) \cup lost
    /\ \A t \in ToSet(ready) : t \notin ToSet(batch) \cup lost
    /\ \A t \in ToSet(batch) : t \notin lost

\* Every callback the pool owes is in exactly one place, and a reference is
\* owed exactly while it is in one of them. A callback that two places name
\* would be called and released twice; one that no place names would leak
\* (mini_worker_submit, worker_main, mini_worker_pump, mini_worker_destroy).
CallbackOwnership ==
    /\ PlacesDisjoint
    /\ \A t \in Tasks : refs[t] = IF t \in Held THEN 1 ELSE 0

\* A callback runs at most once, only after a worker has completed its task's
\* I/O, and its reference is released with the call: whatever still waits to
\* be called has not been called (mini_worker_pump).
CalledOnceAfterIO ==
    \A t \in Tasks :
        /\ fired[t] <= 1
        /\ fired[t] = 1 => t \in performed /\ refs[t] = 0

\* free(q) at the end of mini_worker_destroy is safe: no worker thread can
\* still lock the mutex, read the queues or hold a task.
NoUseAfterFree ==
    mpc = "freed" => \A w \in Started : pc[w] = "exited" /\ cur[w] = Idle

\* Shutting down loses no I/O: when mini_worker_destroy returns, every task
\* that entered the pending array has been performed (a write is on disk),
\* provided one thread exists and the task's result could be allocated.
ShutdownDrains ==
    mpc = "freed" /\ Started # {} =>
        submitted \ refused \subseteq performed \cup lost

\* What the other facts rest on: which program points imply that a task is in
\* hand, performed or not yet called.
Progress ==
    /\ \A w \in Workers : cur[w] # Idle <=> pc[w] \in Busy
    /\ \A w \in Workers : pc[w] = "publish" => cur[w] \in performed
    /\ mpc = "pump" <=> batch # <<>>
    /\ shutdown <=> mpc \in {"join", "freed"}
    /\ Held \subseteq submitted
    /\ performed \subseteq submitted /\ refused \subseteq submitted
    /\ ToSet(ready) \subseteq performed /\ ToSet(batch) \subseteq performed
    /\ \A t \in Tasks : fired[t] > 0 => t \in performed /\ t \notin Held

\* An accepted task is still to be performed only while it is pending or in
\* the hands of a worker, and a worker that left did so on an empty array.
Unfinished ==
    /\ mpc # "freed" =>
          \A t \in submitted \ (refused \cup performed \cup lost) :
             t \in ToSet(pending) \cup Running
    /\ (\E w \in Workers : pc[w] = "exited") => shutdown /\ pending = <<>>

\* The inductive invariant of the pool: the conjunction the proofs carry
\* through every step.
PoolInv ==
    /\ TypeOK /\ CallbackOwnership /\ Progress /\ CalledOnceAfterIO
    /\ NoUseAfterFree /\ Unfinished /\ ShutdownDrains

\* The pool takes the newest task first and runs tasks in parallel, yet a
\* program that issues a write only after the callback of an earlier one gets
\* what it expects: the later write is never undone by the earlier one
\* (worker_main, worker_do, mini_worker_pump together).
ChainedWritesKeepOrder ==
    \A w \in performed \ err :
        Kind[w] = "write" => file[Path[w]] \notin before[w] \cup {Init0}

\* A read issued after the callback of a successful write never returns
\* contents older than that write.
ReadsSeeSettledWrites ==
    \A r \in performed \ err : Kind[r] = "read" =>
        \A w \in before[r] :
            Path[w] = Path[r] => seen[r] \notin before[w] \cup {Init0}

\* Reads and writes of one file that are chained through their callbacks take
\* effect in the order of the chain, although the workers pop the newest task.
ChainedIOKeepsOrder == ChainedWritesKeepOrder /\ ReadsSeeSettledWrites

\* Tasks that an allocation failed for: the task was not queued, it has no
\* result, or its result was released because ready could not grow.
Abandoned(t) == t \in lost \cup refused \/ (t \in performed /\ refs[t] = 0)

\* Under the fairness above every submitted task's callback is called, unless
\* an allocation failed for it, no thread could be started, or the pool is shut
\* down first: no wake-up is lost between mw_cnd_signal and mw_cnd_wait.
EveryCallbackFires ==
    \A t \in Tasks : t \in submitted ~>
        fired[t] = 1 \/ Abandoned(t) \/ Started = {} \/ shutdown

\* mini_worker_destroy returns: every thread it joins leaves its loop.
DestroyReturns == shutdown ~> mpc = "freed"

\* No thread waits for ever: neither the script for its callback nor
\* mini_worker_destroy for a worker (mw_cnd_signal, mw_cnd_broadcast).
PoolFinishes == EveryCallbackFires /\ DestroyReturns
=============================================================================
