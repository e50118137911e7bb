-------------------------- MODULE WorkerPoolProofs --------------------------
(***************************************************************************)
(* Proofs about the worker pool, for any number of threads and tasks and   *)
(* any initial capacity. PoolInv is shown inductive, one lemma for each    *)
(* group of actions; the safety properties of WorkerPool are its parts.    *)
(***************************************************************************)
EXTENDS WorkerPool, SeqFacts

\* The places a callback can be in.
Places == <<cur, pending, ready, batch, lost, refs>>

\* Releasing the one reference a task has keeps the counts in range.
LEMMA ReleaseOne ==
    ASSUME NEW f \in [Tasks -> 0..1], NEW t \in Tasks, f[t] = 1
    PROVE  /\ [f EXCEPT ![t] = @ - 1] \in [Tasks -> 0..1]
           /\ \A x \in Tasks :
                [f EXCEPT ![t] = @ - 1][x] = IF x = t THEN 0 ELSE f[x]
<1>1. f[t] - 1 = 0
  OBVIOUS
<1>2. [f EXCEPT ![t] = f[t] - 1] = [f EXCEPT ![t] = 0]
  BY <1>1, Zenon
<1>3. /\ [f EXCEPT ![t] = 0] \in [Tasks -> 0..1]
      /\ \A x \in Tasks : [f EXCEPT ![t] = 0][x] = IF x = t THEN 0 ELSE f[x]
  OBVIOUS
<1>. QED
  BY <1>2, <1>3

\* A step that moves no task between places preserves ownership.
LEMMA PlacesFrame ==
    ASSUME UNCHANGED Places
    PROVE  /\ Running' = Running
           /\ Held' = Held
           /\ ToSet(pending)' = ToSet(pending)
           /\ ToSet(ready)' = ToSet(ready)
           /\ ToSet(batch)' = ToSet(batch)
           /\ CallbackOwnership => CallbackOwnership'
BY DEF Places, Running, Held, CallbackOwnership, PlacesDisjoint

\* A worker that takes a task adds it to the running ones.
LEMMA RunningAdd ==
    ASSUME TypeOK, NEW w \in Workers, NEW t \in Tasks, cur[w] = Idle,
           cur' = [cur EXCEPT ![w] = t]
    PROVE  /\ Running' = Running \cup {t}
           /\ cur' \in [Workers -> Tasks \cup {Idle}]
<1>1. cur \in [Workers -> Tasks \cup {Idle}] /\ t # Idle
  BY IdleDistinct DEF TypeOK
<1>2. \A v \in Workers : cur'[v] = IF v = w THEN t ELSE cur[v]
  BY <1>1
<1>3. \A x : x \in Running' <=> \E v \in Workers : cur'[v] # Idle /\ x = cur'[v]
  BY DEF Running
<1>4. \A x : x \in Running <=> \E v \in Workers : cur[v] # Idle /\ x = cur[v]
  BY DEF Running
<1>5. \A x : x \in Running' <=> x \in Running \/ x = t
  BY <1>1, <1>2, <1>3, <1>4
<1>. QED
  BY <1>1, <1>5

\* A worker that gives its task up removes exactly that one.
LEMMA RunningRemove ==
    ASSUME TypeOK, PlacesDisjoint, NEW w \in Workers, cur[w] # Idle,
           cur' = [cur EXCEPT ![w] = Idle]
    PROVE  /\ Running' = Running \ {cur[w]}
           /\ cur[w] \in Running
           /\ cur' \in [Workers -> Tasks \cup {Idle}]
<1>1. cur \in [Workers -> Tasks \cup {Idle}]
  BY DEF TypeOK
<1>2. \A v \in Workers : cur'[v] = IF v = w THEN Idle ELSE cur[v]
  BY <1>1
<1>3. \A x : x \in Running' <=> \E v \in Workers : cur'[v] # Idle /\ x = cur'[v]
  BY DEF Running
<1>4. \A x : x \in Running <=> \E v \in Workers : cur[v] # Idle /\ x = cur[v]
  BY DEF Running
<1>5. \A v \in Workers : cur[v] = cur[w] => v = w
  BY DEF PlacesDisjoint
<1>6. \A x : x \in Running' <=> x \in Running /\ x # cur[w]
  BY <1>1, <1>2, <1>3, <1>4, <1>5
<1>. QED
  BY <1>1, <1>4, <1>6

\* mini_worker_init establishes the invariant.
LEMMA PoolInit == Init => PoolInv
<1>. SUFFICES ASSUME Init PROVE PoolInv
  OBVIOUS
<1>1. ToSet(pending) = {} /\ ToSet(ready) = {} /\ ToSet(batch) = {}
      /\ IsInjective(pending) /\ IsInjective(ready) /\ IsInjective(batch)
  BY EmptyFacts DEF Init
<1>2. Running = {}
  BY DEF Init, Running
<1>3. Held = {}
  BY <1>1, <1>2 DEF Init, Held
<1>4. TypeOK
  <2>1. pc \in [Workers -> WorkerStates]
    BY DEF Init, WorkerStates
  <2>2. file \in [Paths -> Contents] /\ seen \in [Tasks -> Contents]
    BY DEF Init, Contents
  <2>3. pending \in Seq(Tasks) /\ ready \in Seq(Tasks) /\ batch \in Seq(Tasks)
    BY EmptyFacts DEF Init
  <2>4. /\ cur \in [Workers -> Tasks \cup {Idle}]
        /\ refs \in [Tasks -> 0..1] /\ fired \in [Tasks -> Nat]
        /\ before \in [Tasks -> SUBSET Tasks]
    BY DEF Init
  <2>5. pendCap \in Nat /\ readyCap \in Nat /\ shutdown \in BOOLEAN
    BY DEF Init
  <2>6. mpc \in {"js", "pump", "join", "freed"}
    BY DEF Init
  <2>7. /\ submitted \subseteq Tasks /\ refused \subseteq Tasks
        /\ performed \subseteq Tasks /\ err \subseteq Tasks
        /\ lost \subseteq Tasks
    BY DEF Init
  <2>. QED
    BY <2>1, <2>2, <2>3, <2>4, <2>5, <2>6, <2>7 DEF TypeOK
<1>5. CallbackOwnership
  BY <1>1, <1>2, <1>3 DEF Init, CallbackOwnership, PlacesDisjoint
<1>6. Progress
  BY <1>1, <1>3 DEF Init, Progress, Busy
<1>7. CalledOnceAfterIO /\ NoUseAfterFree /\ Unfinished /\ ShutdownDrains
  BY DEF Init, CalledOnceAfterIO, NoUseAfterFree, Unfinished, ShutdownDrains
<1>. QED
  BY <1>4, <1>5, <1>6, <1>7 DEF PoolInv

\* Going to sleep and waking up move nothing.
LEMMA PoolWaitWake ==
    ASSUME PoolInv, NEW w \in Workers, Wait(w) \/ SpuriousWakeup(w)
    PROVE  PoolInv'
<1>. USE DEF PoolInv, Wait, SpuriousWakeup, poolVars, ioVars, subVars
<1>1. UNCHANGED Places
  BY DEF Places
<1>2. TypeOK'
  BY DEF TypeOK, WorkerStates
<1>3. Progress'
  <2>1. \A v \in Workers : /\ cur'[v] # Idle <=> pc'[v] \in Busy
                           /\ pc'[v] = "publish" => cur'[v] \in performed'
    BY DEF Progress, Busy, TypeOK
  <2>. QED
    BY <1>1, <2>1, PlacesFrame DEF Progress
<1>4. CalledOnceAfterIO' /\ NoUseAfterFree'
  BY DEF CalledOnceAfterIO, NoUseAfterFree, Started, TypeOK
<1>5. Unfinished' /\ ShutdownDrains'
  BY <1>1, PlacesFrame DEF Unfinished, ShutdownDrains, Started, TypeOK
<1>. QED
  BY <1>1, <1>2, <1>3, <1>4, <1>5, PlacesFrame

\* A worker that leaves its loop leaves an empty pending array behind.
LEMMA PoolExit ==
    ASSUME PoolInv, NEW w \in Workers, Exit(w)
    PROVE  PoolInv'
<1>. USE DEF PoolInv, Exit, poolVars, ioVars, subVars
<1>1. UNCHANGED Places
  BY DEF Places
<1>2. TypeOK'
  BY DEF TypeOK, WorkerStates
<1>3. Progress'
  <2>1. \A v \in Workers : /\ cur'[v] # Idle <=> pc'[v] \in Busy
                           /\ pc'[v] = "publish" => cur'[v] \in performed'
    BY DEF Progress, Busy, TypeOK
  <2>. QED
    BY <1>1, <2>1, PlacesFrame DEF Progress
<1>4. CalledOnceAfterIO' /\ NoUseAfterFree'
  BY DEF CalledOnceAfterIO, NoUseAfterFree, Started, TypeOK
<1>5. Unfinished' /\ ShutdownDrains'
  BY <1>1, PlacesFrame DEF Unfinished, ShutdownDrains, Started, TypeOK
<1>. QED
  BY <1>1, <1>2, <1>3, <1>4, <1>5, PlacesFrame

\* The steps of worker_do: the task stays in the worker's hands.
LEMMA PoolIO ==
    ASSUME PoolInv, NEW w \in Workers,
           DoFail(w) \/ DoRead(w) \/ DoOpenWrite(w) \/ DoWrite(w)
    PROVE  PoolInv'
<1>. USE DEF PoolInv, DoFail, DoRead, DoOpenWrite, DoWrite, poolVars, ioVars,
             subVars
<1>1. UNCHANGED Places
  BY DEF Places
<1>2. cur[w] \in Tasks /\ cur[w] \in Held /\ cur[w] \in submitted
  BY DEF Progress, TypeOK, Busy, Held, Running
<1>3. Path[cur[w]] \in Paths
  BY <1>2, PoolAssumption
<1>4. TypeOK'
  <2>1. pc' \in [Workers -> WorkerStates]
    BY DEF TypeOK, WorkerStates
  <2>2. err' \subseteq Tasks /\ performed' \subseteq Tasks
    BY <1>2 DEF TypeOK
  <2>3. file' \in [Paths -> Contents]
    BY <1>2, <1>3 DEF TypeOK, Contents
  <2>4. seen' \in [Tasks -> Contents]
    <3>1. file[Path[cur[w]]] \in Contents /\ seen \in [Tasks -> Contents]
      BY <1>3 DEF TypeOK
    <3>2. \/ seen' = seen
          \/ seen' = [seen EXCEPT ![cur[w]] = file[Path[cur[w]]]]
      OBVIOUS
    <3>. QED
      BY <3>1, <3>2, <1>2
  <2>. QED
    BY <2>1, <2>2, <2>3, <2>4 DEF TypeOK
<1>5. performed \subseteq performed' /\ performed' \subseteq performed \cup {cur[w]}
  OBVIOUS
<1>6. Progress'
  <2>1. \A v \in Workers : cur'[v] # Idle <=> pc'[v] \in Busy
    BY DEF Progress, Busy, TypeOK
  <2>2. \A v \in Workers : pc'[v] = "publish" => cur'[v] \in performed'
    BY <1>5 DEF Progress, TypeOK
  <2>. QED
    BY <1>1, <1>2, <1>5, <2>1, <2>2, PlacesFrame DEF Progress
<1>7. CalledOnceAfterIO' /\ NoUseAfterFree'
  BY <1>5 DEF CalledOnceAfterIO, NoUseAfterFree, Started, TypeOK
<1>8. Unfinished' /\ ShutdownDrains'
  BY <1>1, <1>5, PlacesFrame DEF Unfinished, ShutdownDrains, Started, TypeOK
<1>. QED
  BY <1>1, <1>4, <1>6, <1>7, <1>8, PlacesFrame
\* Taking a task moves it from the pending array into the worker's hands.
LEMMA PoolTake ==
    ASSUME PoolInv, NEW w \in Workers, Take(w)
    PROVE  PoolInv'
<1>. USE DEF PoolInv, Take, ioVars, subVars
<1>. DEFINE t == Last(pending)
<1>1. /\ pending' \in Seq(Tasks) /\ t \in Tasks
      /\ ToSet(pending) = ToSet(pending') \cup {t}
      /\ IsInjective(pending') /\ t \notin ToSet(pending')
  BY FrontFacts DEF TypeOK, CallbackOwnership, PlacesDisjoint
<1>2. cur[w] = Idle
  BY DEF Progress, Busy
<1>3. Running' = Running \cup {t} /\ cur' \in [Workers -> Tasks \cup {Idle}]
  BY <1>1, <1>2, RunningAdd
<1>4. Held' = Held
  BY <1>1, <1>3 DEF Held
<1>5. TypeOK'
  BY <1>1, <1>3 DEF TypeOK, WorkerStates
<1>6. t \notin Running /\ t \notin ToSet(ready) \cup ToSet(batch) \cup lost
  BY <1>1 DEF CallbackOwnership, PlacesDisjoint
<1>7. \A v, u \in Workers : cur'[v] = cur'[u] /\ cur'[v] # Idle => v = u
  <2>1. \A v \in Workers : cur[v] # t
    BY <1>1, <1>6, IdleDistinct DEF Running
  <2>2. \A v \in Workers : cur'[v] = IF v = w THEN t ELSE cur[v]
    BY DEF TypeOK
  <2>. QED
    BY <2>1, <2>2 DEF CallbackOwnership, PlacesDisjoint
<1>8. CallbackOwnership'
  BY <1>1, <1>3, <1>4, <1>6, <1>7 DEF CallbackOwnership, PlacesDisjoint
<1>9. Progress'
  <2>1. \A v \in Workers : /\ cur'[v] # Idle <=> pc'[v] \in Busy
                           /\ pc'[v] = "publish" => cur'[v] \in performed'
    BY <1>1, IdleDistinct DEF Progress, Busy, TypeOK
  <2>. QED
    BY <1>4, <2>1 DEF Progress
<1>10. CalledOnceAfterIO' /\ NoUseAfterFree'
  BY DEF CalledOnceAfterIO, NoUseAfterFree, Started, TypeOK
<1>11. Unfinished' /\ ShutdownDrains'
  BY <1>1, <1>3 DEF Unfinished, ShutdownDrains, Started, TypeOK
<1>. QED
  BY <1>5, <1>8, <1>9, <1>10, <1>11

\* A task whose result cannot be allocated is forgotten: it moves from the
\* worker's hands to the lost ones.
LEMMA PoolAllocResult ==
    ASSUME PoolInv, NEW w \in Workers, AllocResult(w)
    PROVE  PoolInv'
<1>. USE DEF PoolInv, AllocResult, poolVars, ioVars, subVars
<1>1. CASE UNCHANGED <<cur, lost>>
  <2>1. pc' = [pc EXCEPT ![w] = "open"] \/ pc' = [pc EXCEPT ![w] = "top"]
    OBVIOUS
  <2>2. cur[w] # Idle
    BY DEF Progress, Busy
  <2>3. pc' = [pc EXCEPT ![w] = "open"]
    BY <1>1, <2>2 DEF TypeOK
  <2>4. UNCHANGED Places
    BY <1>1 DEF Places
  <2>5. TypeOK'
    BY <1>1, <2>3 DEF TypeOK, WorkerStates
  <2>6. \A v \in Workers : /\ cur'[v] # Idle <=> pc'[v] \in Busy
                           /\ pc'[v] = "publish" => cur'[v] \in performed'
    BY <1>1, <2>3 DEF Progress, Busy, TypeOK
  <2>7. Progress'
    BY <2>4, <2>6, PlacesFrame DEF Progress
  <2>8. CalledOnceAfterIO' /\ NoUseAfterFree'
    BY <1>1, <2>3 DEF CalledOnceAfterIO, NoUseAfterFree, Started, TypeOK
  <2>9. Unfinished' /\ ShutdownDrains'
    BY <1>1, <2>3, <2>4, PlacesFrame
       DEF Unfinished, ShutdownDrains, Started, TypeOK
  <2>. QED
    BY <2>4, <2>5, <2>7, <2>8, <2>9, PlacesFrame
<1>2. CASE ~ UNCHANGED <<cur, lost>>
  <2>1. /\ pc' = [pc EXCEPT ![w] = "top"]
        /\ cur' = [cur EXCEPT ![w] = Idle]
        /\ lost' = lost \cup {cur[w]}
    BY <1>2
  <2>2. cur[w] # Idle /\ cur[w] \in Tasks
    BY DEF Progress, Busy, TypeOK
  <2>3. /\ Running' = Running \ {cur[w]} /\ cur[w] \in Running
        /\ cur' \in [Workers -> Tasks \cup {Idle}]
    BY <2>1, <2>2, RunningRemove DEF CallbackOwnership
  <2>4. Held' = Held
    BY <2>1, <2>3 DEF Held
  <2>5. TypeOK'
    BY <2>1, <2>2, <2>3 DEF TypeOK, WorkerStates
  <2>6. CallbackOwnership'
    <3>1. \A v, u \in Workers : cur'[v] = cur'[u] /\ cur'[v] # Idle => v = u
      BY <2>1 DEF CallbackOwnership, PlacesDisjoint, TypeOK
    <3>. QED
      BY <2>1, <2>3, <2>4, <3>1 DEF CallbackOwnership, PlacesDisjoint
  <2>7. \A v \in Workers : /\ cur'[v] # Idle <=> pc'[v] \in Busy
                           /\ pc'[v] = "publish" => cur'[v] \in performed'
    BY <2>1 DEF Progress, Busy, TypeOK
  <2>8. Progress'
    BY <2>4, <2>7 DEF Progress
  <2>9. CalledOnceAfterIO' /\ NoUseAfterFree'
    BY <2>1 DEF CalledOnceAfterIO, NoUseAfterFree, Started, TypeOK
  <2>10. Unfinished' /\ ShutdownDrains'
    BY <2>1, <2>3 DEF Unfinished, ShutdownDrains, Started, TypeOK
  <2>. QED
    BY <2>5, <2>6, <2>8, <2>9, <2>10
<1>. QED
  BY <1>1, <1>2

\* Publishing moves the task into the ready array, or drops it and releases
\* its callback.
LEMMA PoolPublish ==
    ASSUME PoolInv, NEW w \in Workers, Publish(w)
    PROVE  PoolInv'
<1>. USE DEF PoolInv, Publish, ioVars, subVars
<1>. DEFINE t == cur[w]
<1>1. t # Idle /\ t \in Tasks /\ t \in performed
  BY DEF Progress, Busy, TypeOK
<1>2. /\ Running' = Running \ {t} /\ t \in Running
      /\ cur' \in [Workers -> Tasks \cup {Idle}]
  BY <1>1, RunningRemove DEF CallbackOwnership
<1>3. readyCap' \in Nat
  BY PoolAssumption DEF Grown, TypeOK
<1>4. \A v, u \in Workers : cur'[v] = cur'[u] /\ cur'[v] # Idle => v = u
  BY DEF CallbackOwnership, PlacesDisjoint, TypeOK
<1>5. t \notin ToSet(pending) \cup ToSet(ready) \cup ToSet(batch) \cup lost
  BY <1>2 DEF CallbackOwnership, PlacesDisjoint
<1>6. pc' \in [Workers -> WorkerStates]
  BY DEF TypeOK, WorkerStates
<1>7. \A v \in Workers : /\ cur'[v] # Idle <=> pc'[v] \in Busy
                         /\ pc'[v] = "publish" => cur'[v] \in performed'
  BY DEF Progress, Busy, TypeOK
<1>8. CASE ready' = Append(ready, t) /\ UNCHANGED refs
  <2>1. /\ ready' \in Seq(Tasks) /\ ToSet(ready') = ToSet(ready) \cup {t}
        /\ IsInjective(ready')
    BY <1>1, <1>5, <1>8, AppendFacts DEF TypeOK, CallbackOwnership, PlacesDisjoint
  <2>2. Held' = Held
    BY <1>2, <2>1 DEF Held
  <2>3. TypeOK'
    BY <1>2, <1>3, <1>6, <1>8, <2>1 DEF TypeOK
  <2>4. CallbackOwnership'
    BY <1>2, <1>4, <1>5, <1>8, <2>1, <2>2 DEF CallbackOwnership, PlacesDisjoint
  <2>5. Progress'
    BY <1>1, <1>7, <2>1, <2>2 DEF Progress
  <2>6. CalledOnceAfterIO' /\ NoUseAfterFree'
    BY <1>8 DEF CalledOnceAfterIO, NoUseAfterFree, Started, TypeOK
  <2>7. Unfinished' /\ ShutdownDrains'
    BY <1>1, <1>2 DEF Unfinished, ShutdownDrains, Started, TypeOK
  <2>. QED
    BY <2>3, <2>4, <2>5, <2>6, <2>7
<1>9. CASE /\ refs' = [refs EXCEPT ![t] = @ - 1]
           /\ UNCHANGED ready
  <2>1. refs[t] = 1
    BY <1>1, <1>2 DEF CallbackOwnership, Held
  <2>2. Held' = Held \ {t}
    BY <1>2, <1>5, <1>9 DEF Held
  <2>3. \A x \in Tasks : refs'[x] = IF x = t THEN 0 ELSE refs[x]
    BY <1>9, <2>1 DEF TypeOK
  <2>4. refs' \in [Tasks -> 0..1]
    BY <1>1, <1>9, <2>1, ReleaseOne DEF TypeOK
  <2>5. TypeOK'
    BY <1>2, <1>3, <1>6, <1>9, <2>4 DEF TypeOK
  <2>6. CallbackOwnership'
    BY <1>2, <1>4, <1>5, <1>9, <2>2, <2>3 DEF CallbackOwnership, PlacesDisjoint
  <2>7. Progress'
    BY <1>1, <1>7, <1>9, <2>2 DEF Progress
  <2>8. CalledOnceAfterIO' /\ NoUseAfterFree'
    BY <2>3 DEF CalledOnceAfterIO, NoUseAfterFree, Started, TypeOK
  <2>9. Unfinished' /\ ShutdownDrains'
    BY <1>1, <1>2 DEF Unfinished, ShutdownDrains, Started, TypeOK
  <2>. QED
    BY <2>5, <2>6, <2>7, <2>8, <2>9
<1>. QED
  BY <1>8, <1>9
\* Submitting adds a fresh task to pending, forgets it, or refuses it.
LEMMA PoolSubmit ==
    ASSUME PoolInv, NEW t \in Tasks, Submit(t)
    PROVE  PoolInv'
<1>. USE DEF PoolInv, Submit, ioVars
<1>1. /\ t \notin Held /\ t \notin performed /\ t \notin refused
      /\ refs[t] = 0 /\ fired[t] = 0
  BY DEF Progress, CallbackOwnership, TypeOK
<1>2. Settled \subseteq Tasks
  BY DEF Settled
<1>3. before' \in [Tasks -> SUBSET Tasks]
  BY <1>2 DEF TypeOK
<1>4. \/ pc' = pc
      \/ \E w \in Workers : pc[w] = "waiting" /\ pc' = [pc EXCEPT ![w] = "top"]
  BY DEF Signal
<1>5. /\ pc' \in [Workers -> WorkerStates]
      /\ \A w \in Workers : /\ pc'[w] \in Busy <=> pc[w] \in Busy
                            /\ pc'[w] = "publish" <=> pc[w] = "publish"
                            /\ pc'[w] = "exited" <=> pc[w] = "exited"
  <2>1. CASE pc' = pc
    BY <2>1 DEF TypeOK
  <2>2. CASE \E w \in Workers : pc[w] = "waiting" /\ pc' = [pc EXCEPT ![w] = "top"]
    BY <2>2 DEF TypeOK, WorkerStates, Busy
  <2>. QED
    BY <1>4, <2>1, <2>2
<1>6. pendCap' \in Nat
  BY PoolAssumption DEF Grown, TypeOK
<1>7. Running' = Running
  BY DEF Running
<1>8. ~ shutdown /\ mpc' = mpc /\ mpc # "freed"
  BY DEF Progress
<1>9. \A w \in Workers : pc'[w] # "exited"
  BY <1>5, <1>8 DEF Unfinished
<1>10. CASE /\ pending' = Append(pending, t)
            /\ refs' = [refs EXCEPT ![t] = 1] /\ UNCHANGED <<refused, lost>>
  <2>1. /\ pending' \in Seq(Tasks) /\ ToSet(pending') = ToSet(pending) \cup {t}
        /\ IsInjective(pending')
    BY <1>1, <1>10, AppendFacts
       DEF TypeOK, CallbackOwnership, PlacesDisjoint, Held
  <2>2. Held' = Held \cup {t}
    BY <1>7, <1>10, <2>1 DEF Held
  <2>3. /\ refs' \in [Tasks -> 0..1]
        /\ \A x \in Tasks : refs'[x] = IF x = t THEN 1 ELSE refs[x]
    BY <1>10 DEF TypeOK
  <2>4. TypeOK'
    BY <1>3, <1>5, <1>6, <1>10, <2>1, <2>3 DEF TypeOK
  <2>5. CallbackOwnership'
    <3>1. PlacesDisjoint'
      BY <1>1, <1>7, <1>10, <2>1 DEF CallbackOwnership, PlacesDisjoint, Held
    <3>. QED
      BY <2>2, <2>3, <3>1 DEF CallbackOwnership
  <2>6. Progress'
    BY <1>1, <1>5, <1>8, <1>10, <2>2 DEF Progress
  <2>7. CalledOnceAfterIO' /\ NoUseAfterFree'
    BY <1>1, <1>8, <2>3 DEF CalledOnceAfterIO, NoUseAfterFree
  <2>8. Unfinished' /\ ShutdownDrains'
    BY <1>7, <1>8, <1>9, <1>10, <2>1 DEF Unfinished, ShutdownDrains
  <2>. QED
    BY <2>4, <2>5, <2>6, <2>7, <2>8
<1>11. CASE /\ refused' = refused \cup {t}
            /\ UNCHANGED <<pending, refs, lost>>
  <2>1. UNCHANGED Places
    BY <1>11 DEF Places
  <2>2. TypeOK'
    BY <1>3, <1>5, <1>6, <1>11 DEF TypeOK
  <2>3. Progress'
    BY <1>1, <1>5, <1>8, <1>11, <2>1, PlacesFrame DEF Progress
  <2>4. CalledOnceAfterIO' /\ NoUseAfterFree'
    BY <1>8, <1>11 DEF CalledOnceAfterIO, NoUseAfterFree
  <2>5. Unfinished' /\ ShutdownDrains'
    BY <1>8, <1>9, <1>11, <2>1, PlacesFrame DEF Unfinished, ShutdownDrains
  <2>. QED
    BY <2>1, <2>2, <2>3, <2>4, <2>5, PlacesFrame
<1>12. CASE /\ refs' = [refs EXCEPT ![t] = 1] /\ lost' = lost \cup {t}
            /\ refused' = refused \cup {t} /\ UNCHANGED <<pending>>
  <2>1. Held' = Held \cup {t}
    BY <1>7, <1>12 DEF Held
  <2>2. /\ refs' \in [Tasks -> 0..1]
        /\ \A x \in Tasks : refs'[x] = IF x = t THEN 1 ELSE refs[x]
    BY <1>12 DEF TypeOK
  <2>3. TypeOK'
    BY <1>3, <1>5, <1>6, <1>12, <2>2 DEF TypeOK
  <2>4. CallbackOwnership'
    <3>1. PlacesDisjoint'
      BY <1>1, <1>7, <1>12 DEF CallbackOwnership, PlacesDisjoint, Held
    <3>. QED
      BY <2>1, <2>2, <3>1 DEF CallbackOwnership
  <2>5. Progress'
    BY <1>1, <1>5, <1>8, <1>12, <2>1 DEF Progress
  <2>6. CalledOnceAfterIO' /\ NoUseAfterFree'
    BY <1>1, <1>8, <2>2 DEF CalledOnceAfterIO, NoUseAfterFree
  <2>7. Unfinished' /\ ShutdownDrains'
    BY <1>7, <1>8, <1>9, <1>12 DEF Unfinished, ShutdownDrains
  <2>. QED
    BY <2>3, <2>4, <2>5, <2>6, <2>7
<1>. QED
  BY <1>10, <1>11, <1>12

\* The pump moves the whole ready array into its batch.
LEMMA PoolPumpCollect ==
    ASSUME PoolInv, PumpCollect
    PROVE  PoolInv'
<1>. USE DEF PoolInv, PumpCollect, ioVars, subVars
<1>1. /\ ready' \in Seq(Tasks) /\ ToSet(ready') = {} /\ IsInjective(ready')
  BY EmptyFacts
<1>2. batch = <<>> /\ ToSet(batch) = {}
  BY EmptyFacts DEF Progress
<1>3. Running' = Running
  BY DEF Running
<1>4. Held' = Held
  BY <1>1, <1>2, <1>3 DEF Held
<1>5. TypeOK'
  BY <1>1 DEF TypeOK
<1>6. CallbackOwnership'
  BY <1>1, <1>2, <1>3, <1>4 DEF CallbackOwnership, PlacesDisjoint
<1>7. Progress'
  BY <1>1, <1>4 DEF Progress
<1>8. CalledOnceAfterIO' /\ NoUseAfterFree' /\ Unfinished' /\ ShutdownDrains'
  BY <1>3 DEF CalledOnceAfterIO, NoUseAfterFree, Unfinished, ShutdownDrains
<1>. QED
  BY <1>5, <1>6, <1>7, <1>8

\* Firing a callback takes it out of the batch, calls it for the first time
\* and releases it.
LEMMA PoolPumpFire ==
    ASSUME PoolInv, PumpFire
    PROVE  PoolInv'
<1>. USE DEF PoolInv, PumpFire, poolVars, ioVars, subVars
<1>. DEFINE t == Head(batch)
<1>1. batch # <<>>
  BY DEF Progress
<1>2. /\ batch' \in Seq(Tasks) /\ t \in Tasks
      /\ ToSet(batch) = ToSet(batch') \cup {t}
      /\ IsInjective(batch') /\ t \notin ToSet(batch')
  BY <1>1, TailFacts DEF TypeOK, CallbackOwnership, PlacesDisjoint
<1>3. t \notin ToSet(pending) \cup Running \cup ToSet(ready) \cup lost
  BY <1>2 DEF CallbackOwnership, PlacesDisjoint
<1>4. Running' = Running
  BY DEF Running
<1>5. Held' = Held \ {t} /\ t \in Held
  BY <1>2, <1>3, <1>4 DEF Held
<1>6. refs[t] = 1 /\ fired[t] = 0 /\ t \in performed
  BY <1>2, <1>5 DEF CallbackOwnership, Progress, TypeOK
<1>7. /\ refs' \in [Tasks -> 0..1]
      /\ \A x \in Tasks : refs'[x] = IF x = t THEN 0 ELSE refs[x]
  BY <1>2, <1>6, ReleaseOne DEF TypeOK
<1>8. /\ fired' \in [Tasks -> Nat]
      /\ \A x \in Tasks : fired'[x] = IF x = t THEN 1 ELSE fired[x]
  BY <1>2, <1>6 DEF TypeOK
<1>9. TypeOK'
  BY <1>2, <1>7, <1>8 DEF TypeOK
<1>10. CallbackOwnership'
  <2>1. PlacesDisjoint'
    BY <1>2, <1>4 DEF CallbackOwnership, PlacesDisjoint
  <2>. QED
    BY <1>5, <1>7, <2>1 DEF CallbackOwnership
<1>11. Progress'
  <2>1. \A x \in Tasks : fired'[x] > 0 => x \in performed /\ x \notin Held'
    BY <1>5, <1>6, <1>8 DEF Progress
  <2>2. shutdown' <=> mpc' \in {"join", "freed"}
    BY DEF Progress
  <2>3. mpc' = "pump" <=> batch' # <<>>
    OBVIOUS
  <2>. QED
    BY <1>2, <1>5, <2>1, <2>2, <2>3 DEF Progress
<1>12. CalledOnceAfterIO' /\ NoUseAfterFree'
  BY <1>6, <1>7, <1>8 DEF CalledOnceAfterIO, NoUseAfterFree
<1>13. Unfinished' /\ ShutdownDrains'
  BY <1>4 DEF Unfinished, ShutdownDrains
<1>. QED
  BY <1>9, <1>10, <1>11, <1>12, <1>13

\* Raising the shutdown flag moves nothing and wakes the sleepers.
LEMMA PoolDestroyBegin ==
    ASSUME PoolInv, DestroyBegin
    PROVE  PoolInv'
<1>. USE DEF PoolInv, DestroyBegin, ioVars, subVars
<1>1. UNCHANGED Places
  BY DEF Places
<1>2. TypeOK'
  BY DEF TypeOK, WorkerStates
<1>3. \A w \in Workers : /\ pc'[w] \in Busy <=> pc[w] \in Busy
                         /\ pc'[w] = "publish" <=> pc[w] = "publish"
                         /\ pc'[w] = "exited" <=> pc[w] = "exited"
  BY DEF Busy
<1>4. Progress'
  BY <1>1, <1>3, PlacesFrame DEF Progress
<1>5. CalledOnceAfterIO' /\ NoUseAfterFree'
  BY DEF CalledOnceAfterIO, NoUseAfterFree
<1>6. Unfinished' /\ ShutdownDrains'
  BY <1>1, <1>3, PlacesFrame DEF Unfinished, ShutdownDrains
<1>. QED
  BY <1>1, <1>2, <1>4, <1>5, <1>6, PlacesFrame

\* Once every thread is gone nothing is pending if one ever ran; what is
\* still ready is released without being called.
LEMMA PoolDestroyFree ==
    ASSUME PoolInv, DestroyFree
    PROVE  PoolInv'
<1>. USE DEF PoolInv, DestroyFree, ioVars, subVars
<1>1. /\ <<>> \in Seq(Tasks) /\ ToSet(pending') = {} /\ ToSet(ready') = {}
      /\ IsInjective(pending') /\ IsInjective(ready')
  BY EmptyFacts
<1>2. batch = <<>> /\ ToSet(batch) = {}
  BY EmptyFacts DEF Progress
<1>3. \A w \in Workers : cur[w] = Idle
  BY DEF Progress, Busy, Started
<1>4. Running = {} /\ Running' = {}
  BY <1>3 DEF Running
<1>5. Held' = lost
  BY <1>1, <1>2, <1>4 DEF Held
<1>6. \A t \in Tasks : refs'[t] = IF t \in lost THEN 1 ELSE 0
  <2>1. SUFFICES ASSUME NEW t \in Tasks
                 PROVE  refs'[t] = IF t \in lost THEN 1 ELSE 0
    OBVIOUS
  <2>2. refs'[t] = refs[t] - (IF t \in ToSet(pending) THEN 1 ELSE 0)
                           - (IF t \in ToSet(ready) THEN 1 ELSE 0)
    OBVIOUS
  <2>3. /\ refs[t] = IF t \in Held THEN 1 ELSE 0
        /\ t \in Held <=> t \in ToSet(pending) \/ t \in ToSet(ready) \/ t \in lost
        /\ ~(t \in ToSet(pending) /\ t \in ToSet(ready))
        /\ t \in lost => t \notin ToSet(pending) /\ t \notin ToSet(ready)
    BY <1>2, <1>4 DEF CallbackOwnership, PlacesDisjoint, Held
  <2>. QED
    BY <2>2, <2>3
<1>7. TypeOK'
  <2>1. refs' \in [Tasks -> 0..1]
    <3>1. refs' = [t \in Tasks |-> refs'[t]]
      OBVIOUS
    <3>. QED
      BY <1>6, <3>1
  <2>. QED
    BY <1>1, <2>1 DEF TypeOK
<1>8. CallbackOwnership'
  BY <1>1, <1>2, <1>4, <1>5, <1>6 DEF CallbackOwnership, PlacesDisjoint
<1>9. Progress'
  BY <1>1, <1>2, <1>5 DEF Progress, Held
<1>10. CalledOnceAfterIO' /\ NoUseAfterFree'
  <2>1. \A t \in Tasks : fired[t] > 0 => t \notin lost
    BY DEF Progress, Held
  <2>2. \A t \in Tasks : fired[t] = 1 => t \in performed /\ refs'[t] = 0
    BY <1>6, <2>1 DEF CalledOnceAfterIO
  <2>. QED
    BY <1>3, <2>2 DEF CalledOnceAfterIO, NoUseAfterFree, Started
<1>11. Unfinished'
  BY DEF Unfinished, Progress
<1>12. ShutdownDrains'
  <2>1. SUFFICES ASSUME Started # {}
                 PROVE  submitted \ refused \subseteq performed \cup lost
    BY DEF ShutdownDrains, Started
  <2>2. pending = <<>> /\ ToSet(pending) = {}
    BY <2>1, EmptyFacts DEF Unfinished, Started
  <2>. QED
    BY <1>4, <2>2 DEF Unfinished
<1>. QED
  BY <1>7, <1>8, <1>9, <1>10, <1>11, <1>12

\* PoolInv holds in every reachable state of the worker pool, whatever the
\* number of threads and tasks and whichever allocations fail.
THEOREM PoolInvariant == Spec => []PoolInv
<1>1. Init => PoolInv
  BY PoolInit
<1>2. PoolInv /\ [Next]_vars => PoolInv'
  <2>. SUFFICES ASSUME PoolInv, [Next]_vars PROVE PoolInv'
    OBVIOUS
  <2>1. ASSUME NEW t \in Tasks, Submit(t) PROVE PoolInv'
    BY <2>1, PoolSubmit
  <2>2. CASE PumpCollect
    BY <2>2, PoolPumpCollect
  <2>3. CASE PumpFire
    BY <2>3, PoolPumpFire
  <2>4. CASE DestroyBegin
    BY <2>4, PoolDestroyBegin
  <2>5. CASE DestroyFree
    BY <2>5, PoolDestroyFree
  <2>6. ASSUME NEW w \in Workers, Worker(w) PROVE PoolInv'
    BY <2>6, PoolWaitWake, PoolExit, PoolTake, PoolAllocResult, PoolIO,
       PoolPublish DEF Worker
  <2>7. CASE UNCHANGED vars
    <3>1. UNCHANGED Places
      BY <2>7 DEF vars, Places, poolVars
    <3>. QED
      BY <2>7, <3>1, PlacesFrame DEF vars, poolVars, ioVars, subVars, PoolInv,
         TypeOK, Progress, CalledOnceAfterIO, NoUseAfterFree, Unfinished,
         ShutdownDrains, Started
  <2>. QED
    BY <2>1, <2>2, <2>3, <2>4, <2>5, <2>6, <2>7 DEF Next, MainThread, Stopped
<1>. QED
  BY <1>1, <1>2, PTL DEF Spec

\* The pool's state keeps its types (struct MiniWorkerQueue).
THEOREM TypeCorrect == Spec => []TypeOK
BY PoolInvariant, PTL DEF PoolInv

\* Every callback owed is in exactly one place and owed exactly once.
THEOREM OwnershipCorrect == Spec => []CallbackOwnership
BY PoolInvariant, PTL DEF PoolInv

\* A callback runs at most once, after its I/O, and is released with the call.
THEOREM CallsCorrect == Spec => []CalledOnceAfterIO
BY PoolInvariant, PTL DEF PoolInv

\* mini_worker_destroy frees the queue only when no thread can touch it.
THEOREM FreeIsSafe == Spec => []NoUseAfterFree
BY PoolInvariant, PTL DEF PoolInv

\* mini_worker_destroy returns only after every accepted task was performed.
THEOREM ShutdownIsComplete == Spec => []ShutdownDrains
BY PoolInvariant, PTL DEF PoolInv

-----------------------------------------------------------------------------
(***************************************************************************)
(* The order of chained I/O.  The property speaks of writes that completed; *)
(* what carries it from fopen to fwrite is the same fact about a write that *)
(* has only truncated its file, and that nobody in a before set can still   *)
(* write: its callback has run, so its I/O is over.                         *)
(***************************************************************************)

\* The file of an opened write holds nothing the write was issued after.
NotOlder(t) == file[Path[t]] \notin before[t] \cup {Init0}

\* What was settled when a task was submitted stays settled, and a task that
\* waits or is being worked on has not performed its I/O.
Settles ==
    /\ \A t \in Tasks : before[t] \subseteq Settled
    /\ err \subseteq performed
    /\ \A t \in ToSet(pending) : t \notin performed
    /\ \A w \in Workers : pc[w] \in {"taken", "open", "write"} => cur[w] \notin performed

\* A write between fopen and fwrite already hides what came before it.
Opened == \A w \in Workers : pc[w] = "write" => Kind[cur[w]] = "write" /\ NotOlder(cur[w])

ChainInv == Settles /\ Opened /\ ChainedIOKeepsOrder

\* Steps that perform no I/O and submit nothing: a settled write stays so.
LEMMA ChainFrame ==
    ASSUME PoolInv, ChainInv, UNCHANGED <<ioVars, before>>,
           \A t \in Tasks : fired[t] > 0 => fired'[t] > 0,
           \A t \in ToSet(pending)' : t \notin performed,
           \A w \in Workers : pc'[w] \in {"taken", "open", "write"} =>
               /\ cur'[w] \notin performed
               /\ pc'[w] = "write" => pc[w] = "write" /\ cur'[w] = cur[w]
    PROVE  ChainInv'
<1>. USE DEF ioVars
<1>1. Settled \subseteq Settled'
  BY DEF Settled
<1>2. Settles'
  BY <1>1 DEF ChainInv, Settles
<1>3. Opened'
  BY DEF ChainInv, Opened, NotOlder
<1>4. ChainedIOKeepsOrder'
  BY DEF ChainInv, ChainedIOKeepsOrder, ChainedWritesKeepOrder, ReadsSeeSettledWrites
<1>. QED
  BY <1>2, <1>3, <1>4 DEF ChainInv

\* A worker performs the I/O of a task t that nobody has performed: t is in no
\* before set, and the contents of a file other than by truncation and by t
\* itself do not change.
LEMMA ChainPerform ==
    ASSUME PoolInv, ChainInv, NEW w \in Workers, pc[w] \in {"open", "write"},
           NEW S \in SUBSET {cur[w]}, performed' = performed \cup S,
           NEW E \in SUBSET S, err' = err \cup E,
           NEW p \in {"write", "publish"}, pc' = [pc EXCEPT ![w] = p],
           p = "write" => S = {} /\ Kind[cur[w]] = "write",
           UNCHANGED <<cur, pending, fired, before>>,
           \A q \in Paths : file'[q] \in {file[q], Empty, cur[w]},
           p = "write" \/ (Kind[cur[w]] = "write" /\ E = {}) =>
               file'[Path[cur[w]]] \in {Empty, cur[w]} \/
               (pc[w] = "write" /\ file'[Path[cur[w]]] = file[Path[cur[w]]]),
           \A t \in Tasks : t # cur[w] => seen'[t] = seen[t],
           Kind[cur[w]] = "read" /\ E = {} => seen'[cur[w]] = file[Path[cur[w]]]
    PROVE  ChainInv'
<1>. DEFINE t == cur[w]
<1>1. /\ t \in Tasks /\ t \notin performed /\ t \notin err
      /\ pc \in [Workers -> WorkerStates] /\ cur \in [Workers -> Tasks \cup {Idle}]
      /\ performed \subseteq Tasks /\ before \in [Tasks -> SUBSET Tasks]
  BY DEF PoolInv, TypeOK, Progress, Busy, ChainInv, Settles
<1>2. \A x \in Tasks : before[x] \subseteq performed \ err /\ t \notin before[x]
  <2>1. Settled \subseteq performed \ err
    BY DEF Settled, PoolInv, Progress
  <2>. QED
    BY <1>1, <2>1 DEF ChainInv, Settles
<1>3. \A x \in Tasks : NotOlder(x) => NotOlder(x)'
  <2>1. \A x \in Tasks : Path[x] \in Paths
    BY PoolAssumption
  <2>. QED
    BY <1>1, <1>2, <2>1, ContentsDistinct DEF NotOlder, Init0, Empty
<1>4. p = "write" \/ (Kind[t] = "write" /\ E = {}) => NotOlder(t)'
  <2>1. ASSUME file'[Path[t]] \in {Empty, t}
        PROVE  NotOlder(t)'
    BY <1>1, <1>2, <2>1, ContentsDistinct DEF NotOlder, Init0, Empty
  <2>2. pc[w] = "write" => NotOlder(t)'
    BY <1>1, <1>3 DEF ChainInv, Opened
  <2>. QED
    BY <2>1, <2>2
<1>5. \A v \in Workers : cur[v] = t => v = w
  BY <1>1, IdleDistinct DEF PoolInv, CallbackOwnership, PlacesDisjoint
<1>6. Settles'
  <2>1. Settled \subseteq Settled'
    BY <1>1, <1>2 DEF Settled, PoolInv, Progress
  <2>2. t \notin ToSet(pending)
    BY <1>1, IdleDistinct DEF PoolInv, CallbackOwnership, PlacesDisjoint, Running
  <2>3. \A v \in Workers : pc'[v] \in {"taken", "open", "write"} => cur[v] \notin performed'
    BY <1>1, <1>5 DEF ChainInv, Settles
  <2>. QED
    BY <2>1, <2>2, <2>3 DEF ChainInv, Settles
<1>7. Opened'
  <2>. SUFFICES ASSUME NEW v \in Workers, pc'[v] = "write"
                PROVE  Kind[cur[v]] = "write" /\ NotOlder(cur[v])'
    BY DEF Opened, NotOlder
  <2>1. CASE v = w
    BY <1>1, <1>4, <2>1
  <2>2. CASE v # w
    <3>1. pc[v] = "write"
      BY <1>1, <2>2
    <3>2. cur[v] \in Tasks
      BY <1>1, <3>1 DEF PoolInv, Progress, Busy
    <3>. QED
      BY <1>3, <3>1, <3>2 DEF ChainInv, Opened
  <2>. QED
    BY <2>1, <2>2
<1>8. ChainedWritesKeepOrder'
  <2>. SUFFICES ASSUME NEW x \in performed' \ err', Kind[x] = "write"
                PROVE  NotOlder(x)'
    BY DEF ChainedWritesKeepOrder, NotOlder
  <2>1. CASE x = t
    BY <1>1, <1>4, <2>1
  <2>2. CASE x # t
    <3>1. x \in performed \ err
      BY <2>2
    <3>. QED
      BY <1>1, <1>3, <3>1 DEF ChainInv, ChainedIOKeepsOrder, ChainedWritesKeepOrder, NotOlder
  <2>. QED
    BY <2>1, <2>2
<1>9. ReadsSeeSettledWrites'
  <2>. SUFFICES ASSUME NEW r \in performed' \ err', Kind[r] = "read",
                       NEW x \in before[r], Path[x] = Path[r]
                PROVE  seen'[r] \notin before[x] \cup {Init0}
    BY DEF ReadsSeeSettledWrites
  <2>1. CASE r = t
    <3>1. E = {}
      BY <2>1
    <3>2. x \in performed \ err /\ Kind[x] = "write"
      BY <1>1, <1>2, <2>1 DEF ChainInv, Settles, Settled
    <3>3. seen'[r] = file[Path[x]]
      BY <2>1, <3>1
    <3>. QED
      BY <3>2, <3>3 DEF ChainInv, ChainedIOKeepsOrder, ChainedWritesKeepOrder
  <2>2. CASE r # t
    <3>1. r \in performed \ err /\ r \in Tasks
      BY <1>1, <2>2
    <3>. QED
      BY <2>2, <3>1 DEF ChainInv, ChainedIOKeepsOrder, ReadsSeeSettledWrites
  <2>. QED
    BY <2>1, <2>2
<1>. QED
  BY <1>6, <1>7, <1>8, <1>9 DEF ChainInv, ChainedIOKeepsOrder

\* worker_do: each way the I/O of a task can go.
LEMMA ChainIO ==
    ASSUME PoolInv, ChainInv, NEW w \in Workers,
           DoFail(w) \/ DoRead(w) \/ DoOpenWrite(w) \/ DoWrite(w)
    PROVE  ChainInv'
<1>. USE DEF poolVars, subVars
<1>1. /\ cur[w] \in Tasks \cup {Idle} /\ file \in [Paths -> Contents]
      /\ seen \in [Tasks -> Contents]
      /\ pc[w] \in {"open", "write"} => cur[w] \in Tasks /\ Path[cur[w]] \in Paths
  BY PoolAssumption DEF PoolInv, TypeOK, Progress, Busy
<1>2. CASE DoFail(w)
  <2>. DEFINE S == {cur[w]}
  <2>1. performed' = performed \cup S /\ err' = err \cup S /\ S \in SUBSET {cur[w]} /\ S # {}
    BY <1>2 DEF DoFail
  <2>. HIDE DEF S
  <2>. QED
    BY <1>2, <2>1, ChainPerform DEF DoFail
<1>3. CASE DoRead(w)
  <2>1. performed' = performed \cup {cur[w]} /\ err' = err \cup {}
    BY <1>3 DEF DoRead
  <2>2. /\ \A t \in Tasks : t # cur[w] => seen'[t] = seen[t]
        /\ Kind[cur[w]] = "read" => seen'[cur[w]] = file[Path[cur[w]]]
    BY <1>1, <1>3 DEF DoRead
  <2>3. Kind[cur[w]] # "write" /\ \A q \in Paths : file'[q] \in {file[q], Empty, cur[w]}
    BY <1>3 DEF DoRead
  <2>4. /\ {cur[w]} \in SUBSET {cur[w]} /\ {} \in SUBSET {cur[w]}
        /\ pc[w] = "open" /\ pc' = [pc EXCEPT ![w] = "publish"]
        /\ UNCHANGED <<cur, pending, fired, before>>
    BY <1>3 DEF DoRead
  <2>. QED
    BY <2>1, <2>2, <2>3, <2>4, ChainPerform
<1>4. CASE DoOpenWrite(w)
  <2>1. performed' = performed \cup {} /\ err' = err \cup {}
    BY <1>4 DEF DoOpenWrite
  <2>2. /\ \A q \in Paths : file'[q] \in {file[q], Empty, cur[w]}
        /\ file'[Path[cur[w]]] = Empty
    BY <1>1, <1>4 DEF DoOpenWrite
  <2>3. /\ {} \in SUBSET {cur[w]} /\ {} \in SUBSET {} /\ Kind[cur[w]] = "write"
        /\ pc[w] = "open" /\ pc' = [pc EXCEPT ![w] = "write"]
        /\ UNCHANGED <<cur, pending, fired, before, seen>>
    BY <1>4 DEF DoOpenWrite
  <2>. QED
    BY <2>1, <2>2, <2>3, ChainPerform
<1>5. CASE DoWrite(w)
  <2>1. performed' = performed \cup {cur[w]} /\ err' = err \cup {}
    BY <1>5 DEF DoWrite
  <2>2. /\ \A q \in Paths : file'[q] \in {file[q], Empty, cur[w]}
        /\ file'[Path[cur[w]]] \in {cur[w], file[Path[cur[w]]]}
    BY <1>1, <1>5 DEF DoWrite
  <2>3. Kind[cur[w]] = "write"
    BY <1>5 DEF DoWrite, ChainInv, Opened
  <2>4. /\ {cur[w]} \in SUBSET {cur[w]} /\ {} \in SUBSET {cur[w]}
        /\ pc[w] = "write" /\ pc' = [pc EXCEPT ![w] = "publish"]
        /\ UNCHANGED <<cur, pending, fired, before, seen>>
    BY <1>5 DEF DoWrite
  <2>. QED
    BY <2>1, <2>2, <2>3, <2>4, ChainPerform
<1>. QED
  BY <1>2, <1>3, <1>4, <1>5

\* mini_worker_submit: a new task is in no before set and has done nothing.
LEMMA ChainSubmit ==
    ASSUME PoolInv, ChainInv, NEW t \in Tasks, Submit(t)
    PROVE  ChainInv'
<1>1. /\ t \notin performed /\ t \notin Running /\ UNCHANGED <<ioVars, fired, cur>>
      /\ before' = [before EXCEPT ![t] = Settled]
      /\ before \in [Tasks -> SUBSET Tasks] /\ performed \subseteq Tasks
      /\ cur \in [Workers -> Tasks \cup {Idle}]
      /\ pending \in Seq(Tasks)
  BY DEF Submit, PoolInv, TypeOK, Progress, Held
<1>2. Settled' = Settled /\ Settled \subseteq performed
  BY <1>1 DEF Settled, ioVars, PoolInv, Progress
<1>3. \A x \in Tasks : before'[x] = IF x = t THEN Settled ELSE before[x]
  BY <1>1
<1>4. \A w \in Workers : pc'[w] \in Busy => pc[w] = pc'[w]
  <2>1. CASE UNCHANGED pc
    BY <2>1
  <2>2. CASE pc' \in Signal(pc)
    BY <2>2 DEF Signal, Busy, PoolInv, TypeOK
  <2>. QED
    BY <2>1, <2>2 DEF Submit
<1>5. \A x \in ToSet(pending') : x \in ToSet(pending) \/ x = t
  <2>1. pending' = pending \/ pending' = Append(pending, t)
    BY DEF Submit
  <2>2. ToSet(Append(pending, t)) = ToSet(pending) \cup {t}
    BY <1>1, AppendFacts
  <2>. QED
    BY <2>1, <2>2, Zenon
<1>6. Settles'
  BY <1>1, <1>2, <1>3, <1>4, <1>5 DEF ChainInv, Settles, ioVars, Busy
<1>7. Opened'
  <2>. SUFFICES ASSUME NEW w \in Workers, pc'[w] = "write"
                PROVE  Kind[cur[w]] = "write" /\ NotOlder(cur[w])'
    BY <1>1 DEF Opened, NotOlder
  <2>1. pc[w] = "write"
    BY <1>4 DEF Busy
  <2>2. cur[w] # Idle /\ cur[w] \in Tasks /\ cur[w] # t
    BY <1>1, <2>1 DEF PoolInv, Progress, Busy, Running
  <2>. QED
    BY <1>1, <1>3, <2>1, <2>2 DEF ChainInv, Opened, NotOlder, ioVars
<1>8. ChainedIOKeepsOrder'
  <2>1. ChainedWritesKeepOrder'
    BY <1>1, <1>3 DEF ChainInv, ChainedIOKeepsOrder, ChainedWritesKeepOrder, ioVars
  <2>2. \A r \in performed : \A x \in before[r] : x \in Tasks /\ x # t
    BY <1>1, <1>2 DEF ChainInv, Settles
  <2>3. ReadsSeeSettledWrites'
    BY <1>1, <1>3, <2>2 DEF ChainInv, ChainedIOKeepsOrder, ReadsSeeSettledWrites, ioVars
  <2>. QED
    BY <2>1, <2>3 DEF ChainedIOKeepsOrder
<1>. QED
  BY <1>6, <1>7, <1>8 DEF ChainInv

\* worker_main around the I/O: what a worker takes has not been performed.
LEMMA ChainWorker ==
    ASSUME PoolInv, ChainInv, NEW w \in Workers,
           \/ Wait(w) \/ SpuriousWakeup(w) \/ Exit(w) \/ Take(w)
           \/ AllocResult(w) \/ Publish(w)
    PROVE  ChainInv'
<1>. USE DEF poolVars, subVars
<1>1. /\ pc \in [Workers -> WorkerStates] /\ cur \in [Workers -> Tasks \cup {Idle}]
      /\ UNCHANGED <<ioVars, before, fired>>
  BY DEF PoolInv, TypeOK, Wait, SpuriousWakeup, Exit, Take, AllocResult, Publish
<1>2. CASE Take(w)
  <2>1. /\ Last(pending) \in ToSet(pending) /\ ToSet(pending') \subseteq ToSet(pending)
    <3>1. pending \in Seq(Tasks) /\ pending # <<>> /\ pending' = Front(pending)
      BY <1>2 DEF Take, PoolInv, TypeOK
    <3>. QED
      BY <3>1, FrontFacts
  <2>2. \A v \in Workers :
          /\ v = w => pc'[v] = "taken" /\ cur'[v] = Last(pending)
          /\ v # w => pc'[v] = pc[v] /\ cur'[v] = cur[v]
    BY <1>1, <1>2 DEF Take
  <2>. QED
    BY <1>1, <2>1, <2>2, ChainFrame DEF ChainInv, Settles
<1>3. CASE ~Take(w)
  <2>1. pending' = pending
    BY <1>3 DEF Wait, SpuriousWakeup, Exit, AllocResult, Publish
  <2>2. \A v \in Workers :
          /\ v # w => pc'[v] = pc[v] /\ cur'[v] = cur[v]
          /\ v = w => pc'[v] \notin {"taken", "write"}
                      /\ (pc'[v] = "open" => pc[v] = "taken" /\ cur'[v] = cur[v])
    BY <1>1, <1>3 DEF Wait, SpuriousWakeup, Exit, AllocResult, Publish
  <2>. QED
    BY <1>1, <2>1, <2>2, ChainFrame DEF ChainInv, Settles
<1>. QED
  BY <1>2, <1>3

\* The pump and the shutdown: a callback that has run stays run.
LEMMA ChainMain ==
    ASSUME PoolInv, ChainInv,
           PumpCollect \/ PumpFire \/ DestroyBegin \/ DestroyFree \/ UNCHANGED vars
    PROVE  ChainInv'
<1>. USE DEF poolVars, subVars, vars
<1>1. /\ UNCHANGED <<ioVars, before, cur>>
      /\ pc \in [Workers -> WorkerStates] /\ fired \in [Tasks -> Nat]
  BY DEF PumpCollect, PumpFire, DestroyBegin, DestroyFree, PoolInv, TypeOK
<1>2. \A t \in Tasks : fired[t] > 0 => fired'[t] > 0
  <2>1. CASE PumpFire
    BY <1>1, <2>1 DEF PumpFire
  <2>. QED
    BY <2>1 DEF PumpCollect, DestroyBegin, DestroyFree
<1>3. \A t \in ToSet(pending') : t \in ToSet(pending)
  <2>1. CASE DestroyFree
    BY <2>1, EmptyFacts DEF DestroyFree
  <2>. QED
    BY <2>1 DEF PumpCollect, PumpFire, DestroyBegin
<1>4. \A w \in Workers : pc'[w] \in {"taken", "open", "write"} => pc'[w] = pc[w]
  <2>1. CASE DestroyBegin
    BY <2>1 DEF DestroyBegin
  <2>. QED
    BY <2>1 DEF PumpCollect, PumpFire, DestroyFree
<1>. QED
  BY <1>1, <1>2, <1>3, <1>4, ChainFrame DEF ChainInv, Settles

\* Chained I/O keeps its order whatever the number of threads, tasks and files:
\* a write or read issued after the callback of an earlier write is never
\* overtaken by it, although the workers pop the newest task first.
THEOREM ChainedIOCorrect == Spec => []ChainedIOKeepsOrder
<1>1. Init => ChainInv
  BY EmptyFacts DEF Init, ChainInv, Settles, Opened, ChainedIOKeepsOrder,
     ChainedWritesKeepOrder, ReadsSeeSettledWrites
<1>2. PoolInv /\ ChainInv /\ [Next]_vars => ChainInv'
  BY ChainIO, ChainSubmit, ChainWorker, ChainMain DEF Next, MainThread, Worker, Stopped
<1>. QED
  BY <1>1, <1>2, PoolInvariant, PTL DEF Spec, ChainInv
=============================================================================
