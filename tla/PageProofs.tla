----------------------------- MODULE PageProofs -----------------------------
(***************************************************************************)
(* Proofs about a page: the callbacks of its bridge (BridgeTimers) and its *)
(* native input (DomEvents).                                               *)
(*                                                                         *)
(* Callbacks, for any number of timers, animation frame callbacks and      *)
(* promise jobs and any delays.  BridgeInv is inductive.  Its parts: each  *)
(* timer is in the array at most once, and not after it is retired         *)
(* (TimerArray); what the walk has passed is not due, unless something was *)
(* cleared (TimerWalk); the callbacks of a frame have all left the array   *)
(* of the next one (FrameArrays).                                          *)
(*                                                                         *)
(* Input, for any tree of nodes, any controls in it and any number of      *)
(* inputs and script actions.  SoundInv is inductive: the list of what the *)
(* handler has still to do is in order (Shape: an event that a handler     *)
(* goes on after is followed by the piece that does, some items are only   *)
(* ever in front, at most one item is about the drag), and the nodes that  *)
(* are kept are live or were destroyed unheard.  ClickInv, DragInv and     *)
(* FocusInv are inductive with it: the item that is about the drag         *)
(* determines what the page was told of it, and the item in front what the *)
(* page was told of the focus.                                             *)
(***************************************************************************)
EXTENDS BridgeTimers, DomEvents, SeqFacts, FiniteSetTheorems

-----------------------------------------------------------------------------
(* The callbacks of the bridge. *)

IdsOf(ts) == {ts[k].id : k \in DOMAIN ts}
Distinct(ts) == \A a, b \in DOMAIN ts : ts[a].id = ts[b].id => a = b
Called(t) == IF cur = t THEN 1 ELSE 0

TimerArray ==
    /\ Distinct(timers)
    /\ IdsOf(timers) \cup retired \cup inPass \subseteq 1 .. nextTimer - 1
    /\ IdsOf(timers) \cap retired = {}
    /\ cur \in (1 .. nextTimer - 1) \cup {None}
    /\ cur # None <=> pc = "scan" /\ inCb
    /\ \A t \in TimerIds :
         timerRefs[t] = (IF t \in IdsOf(timers) THEN 1 ELSE 0) + Called(t)

TimerWalk ==
    pc = "scan" =>
        /\ \A k \in DOMAIN timers : timers[k].id \in inPass => timers[k].left > 0
        /\ ~clearedInPass =>
             /\ i <= Len(timers) + 1 /\ (inCb /\ curRec => i <= Len(timers))
             /\ \A k \in DOMAIN timers :
                  k < i \/ (k = i /\ inCb /\ curRec) => timers[k].left > 0

FrameArrays ==
    /\ jobs <= made
    /\ IsInjective(raf) /\ IsInjective(detached)
    /\ \A r \in ToSet(raf) \cup ToSet(detached) : r < nextRaf
    /\ ToSet(raf) \cap ToSet(detached) = {}
    /\ pc # "raf" => detached = <<>>
    /\ pc = "raf" =>
         /\ ri <= Len(detached) + 1 /\ (inCb => ri <= Len(detached))
         /\ frameDue = ToSet(detached)
         /\ frameRan = {detached[k] : k \in {j \in DOMAIN detached :
                                               j < ri \/ (j = ri /\ inCb)}}
    /\ \A r \in RafIds : rafRefs[r] = IF r \in WaitingRafs THEN 1 ELSE 0

BridgeInv == TypeOK /\ TimerArray /\ TimerWalk /\ FrameArrays

-----------------------------------------------------------------------------
(* The arrays                                                              *)

\* timers[k] = timers[--tm_n] takes exactly the entry at k out.
LEMMA CompactedFacts ==
    ASSUME NEW ts \in Seq(Timers), NEW k \in 1 .. Len(ts), Distinct(ts)
    PROVE  /\ Compacted(ts, k) \in Seq(Timers)
           /\ Len(Compacted(ts, k)) = Len(ts) - 1
           /\ \A a \in 1 .. Len(ts) - 1 :
                Compacted(ts, k)[a] = IF a = k THEN ts[Len(ts)] ELSE ts[a]
           /\ Distinct(Compacted(ts, k))
           /\ IdsOf(Compacted(ts, k)) = IdsOf(ts) \ {ts[k].id}
<1>. DEFINE c == Compacted(ts, k)
            e == [ts EXCEPT ![k] = Last(ts)]
<1>0. Len(ts) \in Nat \ {0} /\ k \in Nat \ {0} /\ Len(ts) \in 1 .. Len(ts)
      /\ DOMAIN ts = 1 .. Len(ts)
  OBVIOUS
<1>1. /\ e \in Seq(Timers) /\ Len(e) = Len(ts)
      /\ \A a \in 1 .. Len(ts) : e[a] = IF a = k THEN ts[Len(ts)] ELSE ts[a]
  BY <1>0 DEF Last
<1>2. c = SubSeq(e, 1, Len(e) - 1)
  BY DEF Compacted, Front
<1>. HIDE DEF c, e
<1>3. /\ c \in Seq(Timers) /\ Len(c) = Len(ts) - 1
      /\ \A a \in 1 .. Len(ts) - 1 : c[a] = e[a]
  <2>1. Len(ts) - 1 \in Nat /\ Len(ts) - 1 <= Len(e)
    BY <1>0, <1>1
  <2>. QED
    BY <1>1, <1>2, <2>1, PrefixFacts
<1>4. DOMAIN c = 1 .. Len(ts) - 1
  BY <1>3
<1>5. Len(ts) \in Nat \ {0}
  BY <1>0
<1>6. \A a : a \in 1 .. Len(ts) - 1 <=> a \in 1 .. Len(ts) /\ a # Len(ts)
  BY <1>5
<1>7. \A a \in 1 .. Len(ts) - 1 : c[a] = IF a = k THEN ts[Len(ts)] ELSE ts[a]
  BY <1>1, <1>3, <1>6
<1>8. \A a, b \in 1 .. Len(ts) : ts[a].id = ts[b].id => a = b
  BY <1>0 DEF Distinct
<1>9. Distinct(c)
  <2>1. SUFFICES ASSUME NEW a \in 1 .. Len(ts) - 1, NEW b \in 1 .. Len(ts) - 1,
                        c[a].id = c[b].id
                 PROVE  a = b
    BY <1>4 DEF Distinct
  <2>2. CASE a = k
    BY <1>0, <1>7, <1>8, <1>6, <2>1, <2>2
  <2>3. CASE a # k
    BY <1>0, <1>7, <1>8, <1>6, <2>1, <2>3
  <2>. QED
    BY <2>2, <2>3
<1>10. IdsOf(c) = IdsOf(ts) \ {ts[k].id}
  <2>1. \A x \in IdsOf(c) : x \in IdsOf(ts) /\ x # ts[k].id
    <3>1. SUFFICES ASSUME NEW a \in 1 .. Len(ts) - 1
                   PROVE  c[a].id \in IdsOf(ts) /\ c[a].id # ts[k].id
      BY <1>4 DEF IdsOf
    <3>2. PICK b \in 1 .. Len(ts) : c[a] = ts[b] /\ b # k
      BY <1>0, <1>7, <1>6
    <3>3. ts[b].id # ts[k].id
      BY <1>8, <3>2
    <3>. QED
      BY <1>0, <3>2, <3>3 DEF IdsOf
  <2>2. \A x \in IdsOf(ts) : x # ts[k].id => x \in IdsOf(c)
    <3>1. SUFFICES ASSUME NEW a \in 1 .. Len(ts), a # k
                   PROVE  \E b \in 1 .. Len(ts) - 1 : c[b].id = ts[a].id
      BY <1>0, <1>4 DEF IdsOf
    <3>2. CASE a = Len(ts)
      <4>1. k \in 1 .. Len(ts) - 1
        BY <1>6, <3>1, <3>2
      <4>. QED
        BY <1>7, <3>2, <4>1
    <3>3. CASE a # Len(ts)
      <4>1. a \in 1 .. Len(ts) - 1
        BY <1>6, <3>3
      <4>. QED
        BY <1>7, <3>1, <4>1
    <3>. QED
      BY <3>2, <3>3
  <2>. QED
    BY <2>1, <2>2
<1>. QED
  BY <1>3, <1>7, <1>9, <1>10 DEF c

\* Appending a timer with a new number.
LEMMA AppendTimer ==
    ASSUME NEW ts \in Seq(Timers), NEW e \in Timers, Distinct(ts),
           e.id \notin IdsOf(ts)
    PROVE  /\ Append(ts, e) \in Seq(Timers) /\ Len(Append(ts, e)) = Len(ts) + 1
           /\ \A a \in 1 .. Len(ts) : Append(ts, e)[a] = ts[a]
           /\ Append(ts, e)[Len(ts) + 1] = e
           /\ Distinct(Append(ts, e))
           /\ IdsOf(Append(ts, e)) = IdsOf(ts) \cup {e.id}
<1>. DEFINE c == Append(ts, e)
<1>1. /\ c \in Seq(Timers) /\ Len(c) = Len(ts) + 1 /\ Len(ts) \in Nat
      /\ \A a \in 1 .. Len(ts) : c[a] = ts[a]
      /\ c[Len(ts) + 1] = e
      /\ DOMAIN c = 1 .. Len(ts) + 1 /\ DOMAIN ts = 1 .. Len(ts)
  OBVIOUS
<1>. HIDE DEF c
<1>2. \A a \in 1 .. Len(ts) + 1 : a = Len(ts) + 1 \/ a \in 1 .. Len(ts)
  BY <1>1
<1>3. \A a \in 1 .. Len(ts) : ts[a].id # e.id /\ a \in 1 .. Len(ts) + 1
  BY <1>1 DEF IdsOf
<1>4. Distinct(c)
  BY <1>1, <1>2, <1>3 DEF Distinct
<1>5. IdsOf(c) = IdsOf(ts) \cup {e.id}
  <2>1. \A x \in IdsOf(c) : x \in IdsOf(ts) \cup {e.id}
    BY <1>1, <1>2 DEF IdsOf
  <2>2. \A x \in IdsOf(ts) : x \in IdsOf(c)
    BY <1>1, <1>3 DEF IdsOf
  <2>3. Len(ts) + 1 \in DOMAIN c
    BY <1>1
  <2>4. e.id \in IdsOf(c)
    BY <1>1, <2>3 DEF IdsOf
  <2>. QED
    BY <2>1, <2>2, <2>4
<1>. QED
  BY <1>1, <1>4, <1>5 DEF c

\* New times for the timers of the array leave the array as it is.
LEMMA RetimedFacts ==
    ASSUME NEW ts \in Seq(Timers), NEW us \in Seq(Timers), Len(us) = Len(ts),
           \A a \in 1 .. Len(ts) : us[a].id = ts[a].id, Distinct(ts)
    PROVE  Distinct(us) /\ IdsOf(us) = IdsOf(ts) /\ DOMAIN us = DOMAIN ts
<1>1. DOMAIN us = 1 .. Len(ts) /\ DOMAIN ts = 1 .. Len(ts)
  OBVIOUS
<1>. QED
  BY <1>1 DEF Distinct, IdsOf

\* A timer that is in the array is there once.
LEMMA EntriesFacts ==
    ASSUME Distinct(timers)
    PROVE  \A t : Entries(t) = IF t \in IdsOf(timers) THEN 1 ELSE 0
<1>. SUFFICES ASSUME NEW t
              PROVE  Entries(t) = IF t \in IdsOf(timers) THEN 1 ELSE 0
  OBVIOUS
<1>. DEFINE E == {k \in DOMAIN timers : timers[k].id = t}
<1>1. CASE t \in IdsOf(timers)
  <2>1. PICK k \in DOMAIN timers : timers[k].id = t
    BY <1>1 DEF IdsOf
  <2>2. E = {k}
    BY <2>1 DEF Distinct
  <2>. QED
    BY <1>1, <2>2, FS_Singleton DEF Entries
<1>2. CASE t \notin IdsOf(timers)
  <2>1. E = {}
    BY <1>2 DEF IdsOf
  <2>. QED
    BY <1>2, <2>1, FS_EmptySet DEF Entries
<1>. QED
  BY <1>1, <1>2

\* And so is an animation frame callback.
LEMMA RafEntriesFacts ==
    ASSUME NEW S, NEW s \in Seq(S), IsInjective(s)
    PROVE  \A r : Cardinality({k \in DOMAIN s : s[k] = r})
                    = IF r \in ToSet(s) THEN 1 ELSE 0
<1>. SUFFICES ASSUME NEW r
              PROVE  Cardinality({k \in DOMAIN s : s[k] = r})
                       = IF r \in ToSet(s) THEN 1 ELSE 0
  OBVIOUS
<1>. DEFINE E == {k \in DOMAIN s : s[k] = r}
<1>1. CASE r \in ToSet(s)
  <2>1. PICK k \in DOMAIN s : s[k] = r
    BY <1>1 DEF ToSet
  <2>2. E = {k}
    BY <2>1 DEF IsInjective
  <2>. QED
    BY <1>1, <2>2, FS_Singleton
<1>2. CASE r \notin ToSet(s)
  <2>1. E = {}
    BY <1>2 DEF ToSet
  <2>. QED
    BY <1>2, <2>1, FS_EmptySet
<1>. QED
  BY <1>1, <1>2

-----------------------------------------------------------------------------
(* Steps that leave a part of the state alone                              *)

\* No timer comes, goes or is called.
LEMMA TimerArrayKept ==
    ASSUME TimerArray,
           UNCHANGED <<timers, nextTimer, timerRefs, inPass, retired, cur>>,
           (pc' = "scan" /\ inCb') <=> (pc = "scan" /\ inCb)
    PROVE  TimerArray'
BY DEF TimerArray, IdsOf, Distinct, Called

\* There is no walk, or it stays where it is.
LEMMA TimerWalkKept ==
    ASSUME TimerWalk,
           \/ pc' # "scan"
           \/ UNCHANGED <<pc, inCb, timers, inPass, clearedInPass, i, curRec>>
    PROVE  TimerWalk'
BY DEF TimerWalk

\* No animation frame callback comes, goes or is called.
LEMMA FrameArraysKept ==
    ASSUME FrameArrays, jobs' <= made',
           UNCHANGED <<raf, nextRaf, rafRefs, detached, ri, frameDue, frameRan>>,
           \/ UNCHANGED <<pc, inCb>>
           \/ pc # "raf" /\ pc' # "raf"
    PROVE  FrameArrays'
<1>1. WaitingRafs' = WaitingRafs
  BY DEF WaitingRafs
<1>2. CASE UNCHANGED <<pc, inCb>>
  BY <1>1, <1>2 DEF FrameArrays
<1>3. CASE pc # "raf" /\ pc' # "raf"
  BY <1>1, <1>3 DEF FrameArrays
<1>. QED
  BY <1>2, <1>3

\* The numbers of the timers and of the frames.
LEMMA IdFacts ==
    /\ \A t \in TimerIds : t \in Nat \ {0} /\ t <= MaxTimers
    /\ \A r \in RafIds : r \in Nat \ {0} /\ r <= MaxRafs
    /\ None \notin TimerIds /\ None = 0
BY TimersAssumption DEF TimerIds, RafIds, None

\* What a timer of the array is.
LEMMA TimerFacts ==
    ASSUME TypeOK
    PROVE  /\ timers \in Seq(Timers) /\ DOMAIN timers = 1 .. Len(timers)
           /\ Len(timers) \in Nat
           /\ \A k \in DOMAIN timers :
                /\ timers[k] \in Timers /\ timers[k].id \in TimerIds
                /\ timers[k].left \in Nat /\ timers[k].every \in 0 .. MaxDelay
                /\ timers[k].id \in IdsOf(timers)
<1>1. timers \in Seq(Timers)
  BY DEF TypeOK
<1>2. DOMAIN timers = 1 .. Len(timers) /\ Len(timers) \in Nat
  BY <1>1
<1>3. \A k \in DOMAIN timers : timers[k] \in Timers
  BY <1>1, <1>2
<1>4. \A x \in Timers : x.id \in TimerIds /\ x.left \in Nat /\ x.every \in 0 .. MaxDelay
  BY DEF Timers
<1>. QED
  BY <1>1, <1>2, <1>3, <1>4 DEF IdsOf

-----------------------------------------------------------------------------
(* The script                                                              *)

\* A new bridge has no callbacks.
LEMMA BridgeInit == Init => BridgeInv
<1>. SUFFICES ASSUME Init PROVE BridgeInv
  OBVIOUS
<1>. USE DEF Init
<1>1. /\ <<>> \in Seq(Timers) /\ <<>> \in Seq(RafIds) /\ ToSet(<<>>) = {}
      /\ IsInjective(<<>>) /\ DOMAIN <<>> = {} /\ Len(<<>>) = 0
  BY EmptyFacts
<1>2. TypeOK
  <2>1. timerRefs \in [TimerIds -> 0 .. 2] /\ rafRefs \in [RafIds -> 0 .. 1]
    OBVIOUS
  <2>2. /\ nextTimer \in 1 .. MaxTimers + 1 /\ nextRaf \in 1 .. MaxRafs + 1
        /\ jobs \in 0 .. MaxJobs /\ made \in 0 .. MaxJobs
        /\ i \in Nat \ {0} /\ ri \in Nat \ {0} /\ cur \in TimerIds \cup {None}
    BY TimersAssumption
  <2>3. /\ inPass = {} /\ retired = {} /\ frameDue = {} /\ frameRan = {}
        /\ timers \in Seq(Timers) /\ raf \in Seq(RafIds) /\ detached \in Seq(RafIds)
    BY <1>1
  <2>4. inCb \in BOOLEAN /\ curRec \in BOOLEAN /\ clearedInPass \in BOOLEAN
    OBVIOUS
  <2>. HIDE DEF Init
  <2>5. pc = "host"
    BY DEF Init
  <2>. QED
    BY <2>1, <2>2, <2>3, <2>4, <2>5 DEF TypeOK
<1>3. TimerArray
  BY <1>1 DEF TimerArray, IdsOf, Distinct, Called, TimerIds, None
<1>4. TimerWalk
  BY DEF TimerWalk
<1>5. FrameArrays
  BY <1>1 DEF FrameArrays, WaitingRafs
<1>. QED
  BY <1>2, <1>3, <1>4, <1>5 DEF BridgeInv

\* setTimeout and setInterval put a timer with a new number at the end.
LEMMA BridgeAddTimer ==
    ASSUME BridgeInv, NEW ms \in 0 .. MaxDelay, NEW rec \in BOOLEAN,
           AddTimer(ms, rec)
    PROVE  BridgeInv'
<1>. USE DEF BridgeInv
<1>1. PICK late \in 0 .. 1 :
        timers' = Append(timers, [id |-> nextTimer, left |-> ms + late, rec |-> rec,
                                  every |-> IF rec THEN ms ELSE 0])
  BY DEF AddTimer
<1>. DEFINE e == [id |-> nextTimer, left |-> ms + late, rec |-> rec,
                  every |-> IF rec THEN ms ELSE 0]
<1>2. /\ UNCHANGED <<pc, inCb, raf, nextRaf, jobs, made, rafRefs, i, cur, curRec,
                     inPass, detached, ri, frameDue, frameRan, retired,
                     clearedInPass>>
      /\ nextTimer' = nextTimer + 1 /\ nextTimer \in TimerIds
      /\ timerRefs' = [timerRefs EXCEPT ![nextTimer] = 1]
  BY DEF AddTimer, walk, frame
<1>3. nextTimer \in Nat \ {0} /\ nextTimer' \in 1 .. MaxTimers + 1
  BY <1>2, IdFacts, TimersAssumption
<1>4. e \in Timers
  <2>1. ms + late \in 0 .. MaxDelay + 1 /\ (IF rec THEN ms ELSE 0) \in 0 .. MaxDelay
    BY TimersAssumption
  <2>. QED
    BY <1>2, <2>1 DEF Timers
<1>5. e.id = nextTimer
  OBVIOUS
<1>6. timers' = Append(timers, e)
  BY <1>1
<1>. HIDE DEF e
<1>7. /\ IdsOf(timers) \subseteq 1 .. nextTimer - 1
      /\ nextTimer \notin IdsOf(timers) \cup retired \cup inPass /\ cur # nextTimer
  BY <1>3 DEF TimerArray, None
<1>8. /\ timers' \in Seq(Timers) /\ Len(timers') = Len(timers) + 1
      /\ \A a \in 1 .. Len(timers) : timers'[a] = timers[a]
      /\ timers'[Len(timers) + 1] = e
      /\ Distinct(timers') /\ IdsOf(timers') = IdsOf(timers) \cup {nextTimer}
  BY <1>4, <1>5, <1>6, <1>7, AppendTimer DEF TypeOK, TimerArray
<1>9. /\ timerRefs' \in [TimerIds -> 0 .. 2]
      /\ \A t \in TimerIds : timerRefs'[t] = IF t = nextTimer THEN 1 ELSE timerRefs[t]
  BY <1>2 DEF TypeOK
<1>10. TypeOK'
  BY <1>2, <1>3, <1>8, <1>9 DEF TypeOK
<1>11. TimerArray'
  <2>1. \A t \in TimerIds :
          timerRefs'[t] = (IF t \in IdsOf(timers') THEN 1 ELSE 0) + Called(t)'
    BY <1>2, <1>7, <1>8, <1>9 DEF TimerArray, Called
  <2>2. \A x \in 1 .. nextTimer - 1 : x \in 1 .. nextTimer' - 1
    BY <1>2, <1>3
  <2>3. nextTimer \in 1 .. nextTimer' - 1
    BY <1>2, <1>3
  <2>. QED
    BY <1>2, <1>7, <1>8, <2>1, <2>2, <2>3 DEF TimerArray
<1>12. TimerWalk'
  <2>1. SUFFICES ASSUME pc = "scan" PROVE TimerWalk'
    BY <1>2 DEF TimerWalk
  <2>2. \A k \in DOMAIN timers' : \/ k \in DOMAIN timers /\ timers'[k] = timers[k]
                                  \/ k = Len(timers) + 1 /\ timers'[k] = e
    <3>1. DOMAIN timers' = 1 .. Len(timers) + 1
      BY <1>8
    <3>. QED
      BY <1>8, <3>1, TimerFacts
  <2>3. \A k \in DOMAIN timers' : timers'[k].id \in inPass' => timers'[k].left > 0
    BY <1>2, <1>5, <1>7, <2>1, <2>2 DEF TimerWalk
  <2>4. ASSUME ~clearedInPass'
        PROVE  /\ i' <= Len(timers') + 1 /\ (inCb' /\ curRec' => i' <= Len(timers'))
               /\ \A k \in DOMAIN timers' :
                    k < i' \/ (k = i' /\ inCb' /\ curRec') => timers'[k].left > 0
    <3>1. /\ i <= Len(timers) + 1 /\ (inCb /\ curRec => i <= Len(timers))
          /\ \A k \in DOMAIN timers :
               k < i \/ (k = i /\ inCb /\ curRec) => timers[k].left > 0
      BY <1>2, <2>1, <2>4 DEF TimerWalk
    <3>2. i \in Nat /\ Len(timers) \in Nat
      BY TimerFacts DEF TypeOK
    <3>3. \A k \in DOMAIN timers' : k < i \/ (k = i /\ inCb /\ curRec) =>
             k \in DOMAIN timers /\ timers'[k] = timers[k]
      BY <2>2, <3>1, <3>2
    <3>. QED
      BY <1>2, <1>8, <3>1, <3>2, <3>3
  <2>. QED
    BY <2>3, <2>4 DEF TimerWalk
<1>13. FrameArrays'
  BY <1>2, FrameArraysKept DEF FrameArrays
<1>. QED
  BY <1>10, <1>11, <1>12, <1>13

\* clearTimeout and clearInterval release the entry's reference; that of a call in
\* progress stays.
LEMMA BridgeClearTimer ==
    ASSUME BridgeInv, NEW k \in DOMAIN timers, ClearTimer(k)
    PROVE  BridgeInv'
<1>. USE DEF BridgeInv
<1>. DEFINE t == timers[k].id
<1>1. /\ UNCHANGED <<pc, inCb, nextTimer, raf, nextRaf, jobs, made, rafRefs, i, cur,
                     curRec, inPass, detached, ri, frameDue, frameRan>>
      /\ timers' = Compacted(timers, k)
      /\ timerRefs' = [timerRefs EXCEPT ![t] = @ - 1]
      /\ retired' = retired \cup {t} /\ clearedInPass' = (pc = "scan")
  BY DEF ClearTimer, walk, frame
<1>2. k \in 1 .. Len(timers) /\ t \in TimerIds /\ t \in IdsOf(timers)
  BY TimerFacts
<1>. HIDE DEF t
<1>3. /\ timers' \in Seq(Timers) /\ Len(timers') = Len(timers) - 1
      /\ \A a \in 1 .. Len(timers) - 1 :
           timers'[a] = IF a = k THEN timers[Len(timers)] ELSE timers[a]
      /\ Distinct(timers') /\ IdsOf(timers') = IdsOf(timers) \ {t}
  <2>1. timers \in Seq(Timers) /\ Distinct(timers)
    BY DEF TypeOK, TimerArray
  <2>. QED
    BY <1>1, <1>2, <2>1, CompactedFacts DEF t
<1>4. \A x \in TimerIds : timerRefs[x] \in 0 .. 2 /\ Called(x) \in 0 .. 1
  BY DEF TypeOK, Called
<1>5. timerRefs[t] = 1 + Called(t)
  BY <1>2 DEF TimerArray
<1>6. \A x \in TimerIds : timerRefs'[x] = IF x = t THEN Called(t) ELSE timerRefs[x]
  <2>1. timerRefs \in [TimerIds -> 0 .. 2]
    BY DEF TypeOK
  <2>2. timerRefs[t] - 1 = Called(t)
    BY <1>2, <1>4, <1>5
  <2>. QED
    BY <1>1, <1>2, <2>1, <2>2
<1>7. timerRefs' \in [TimerIds -> 0 .. 2]
  <2>1. timerRefs' = [x \in TimerIds |-> timerRefs'[x]]
    BY <1>1 DEF TypeOK
  <2>2. \A x \in TimerIds : timerRefs'[x] \in 0 .. 2
    BY <1>2, <1>4, <1>6
  <2>. QED
    BY <2>1, <2>2
<1>8. TypeOK'
  <2>1. clearedInPass' \in BOOLEAN /\ retired' \subseteq TimerIds
    BY <1>1, <1>2 DEF TypeOK
  <2>. QED
    BY <1>1, <1>3, <1>7, <2>1 DEF TypeOK
<1>9. TimerArray'
  <2>1. \A x \in TimerIds :
          timerRefs'[x] = (IF x \in IdsOf(timers') THEN 1 ELSE 0) + Called(x)'
    <3>1. \A x : Called(x)' = Called(x)
      BY <1>1 DEF Called
    <3>. QED
      BY <1>2, <1>3, <1>4, <1>6, <3>1 DEF TimerArray
  <2>. QED
    BY <1>1, <1>2, <1>3, <2>1 DEF TimerArray
<1>10. TimerWalk'
  <2>1. SUFFICES ASSUME pc = "scan" PROVE TimerWalk'
    BY <1>1 DEF TimerWalk
  <2>2. \A a \in DOMAIN timers' : \E b \in DOMAIN timers : timers'[a] = timers[b]
    BY <1>2, <1>3, TimerFacts
  <2>. QED
    BY <1>1, <2>1, <2>2 DEF TimerWalk
<1>11. FrameArrays'
  BY <1>1, FrameArraysKept DEF FrameArrays
<1>. QED
  BY <1>8, <1>9, <1>10, <1>11

\* requestAnimationFrame
LEMMA BridgeRequestFrame ==
    ASSUME BridgeInv, RequestFrame
    PROVE  BridgeInv'
<1>. USE DEF BridgeInv
<1>1. /\ UNCHANGED <<pc, inCb, timers, nextTimer, jobs, made, timerRefs, i, cur,
                     curRec, inPass, detached, ri, frameDue, frameRan, retired,
                     clearedInPass>>
      /\ nextRaf \in RafIds /\ nextRaf' = nextRaf + 1 /\ raf' = Append(raf, nextRaf)
      /\ rafRefs' = [rafRefs EXCEPT ![nextRaf] = 1]
  BY DEF RequestFrame, walk, frame
<1>2. nextRaf \in Nat \ {0} /\ nextRaf' \in 1 .. MaxRafs + 1
  BY <1>1, IdFacts, TimersAssumption
<1>3. raf \in Seq(RafIds) /\ rafRefs \in [RafIds -> 0 .. 1]
  BY DEF TypeOK
<1>4. nextRaf \notin ToSet(raf) \cup ToSet(detached)
  BY <1>2 DEF FrameArrays
<1>5. /\ raf' \in Seq(RafIds) /\ ToSet(raf') = ToSet(raf) \cup {nextRaf}
      /\ IsInjective(raf')
  BY <1>1, <1>3, <1>4, AppendFacts DEF FrameArrays
<1>6. /\ rafRefs' \in [RafIds -> 0 .. 1]
      /\ \A r \in RafIds : rafRefs'[r] = IF r = nextRaf THEN 1 ELSE rafRefs[r]
  BY <1>1, <1>3
<1>7. TypeOK'
  BY <1>1, <1>2, <1>5, <1>6 DEF TypeOK
<1>8. TimerArray' /\ TimerWalk'
  BY <1>1, TimerArrayKept, TimerWalkKept
<1>9. FrameArrays'
  <2>1. WaitingRafs' = WaitingRafs \cup {nextRaf}
    BY <1>1, <1>5 DEF WaitingRafs
  <2>2. \A r \in ToSet(raf') \cup ToSet(detached') : r < nextRaf'
    <3>1. \A r \in ToSet(raf) \cup ToSet(detached) : r \in Nat
      BY <1>3, IdFacts DEF TypeOK, ToSet
    <3>. QED
      BY <1>1, <1>2, <1>5, <3>1 DEF FrameArrays
  <2>. QED
    BY <1>1, <1>4, <1>5, <1>6, <2>1, <2>2 DEF FrameArrays
<1>. QED
  BY <1>7, <1>8, <1>9

\* cancelAnimationFrame
LEMMA BridgeCancelFrame ==
    ASSUME BridgeInv, NEW k \in DOMAIN raf, CancelFrame(k)
    PROVE  BridgeInv'
<1>. USE DEF BridgeInv
<1>. DEFINE r == raf[k]
<1>1. /\ UNCHANGED <<pc, inCb, timers, nextTimer, nextRaf, jobs, made, timerRefs, i,
                     cur, curRec, inPass, detached, ri, frameDue, frameRan, retired,
                     clearedInPass>>
      /\ raf' = RemoveAt(raf, k) /\ rafRefs' = [rafRefs EXCEPT ![r] = @ - 1]
  BY DEF CancelFrame, walk, frame
<1>2. /\ raf \in Seq(RafIds) /\ rafRefs \in [RafIds -> 0 .. 1]
      /\ k \in 1 .. Len(raf) /\ r \in RafIds /\ r \in ToSet(raf)
  BY DEF TypeOK, ToSet
<1>3. /\ raf' \in Seq(RafIds) /\ ToSet(raf') = ToSet(raf) \ {r} /\ IsInjective(raf')
  BY <1>1, <1>2, RemoveAtFacts DEF FrameArrays
<1>. HIDE DEF r
<1>4. WaitingRafs' = WaitingRafs \ {r} /\ r \in WaitingRafs
  <2>1. \A j \in DOMAIN detached : detached[j] # r
    BY <1>2 DEF FrameArrays, ToSet
  <2>. QED
    BY <1>1, <1>2, <1>3, <2>1 DEF WaitingRafs
<1>5. /\ rafRefs' \in [RafIds -> 0 .. 1]
      /\ \A x \in RafIds : rafRefs'[x] = IF x = r THEN 0 ELSE rafRefs[x]
  <2>1. rafRefs[r] - 1 = 0
    BY <1>2, <1>4 DEF FrameArrays
  <2>2. rafRefs' = [rafRefs EXCEPT ![r] = 0]
    BY <1>1, <2>1, Zenon
  <2>. QED
    BY <1>2, <2>2
<1>6. TypeOK'
  BY <1>1, <1>3, <1>5 DEF TypeOK
<1>7. TimerArray' /\ TimerWalk'
  BY <1>1, TimerArrayKept, TimerWalkKept
<1>8. FrameArrays'
  BY <1>1, <1>3, <1>4, <1>5 DEF FrameArrays
<1>. QED
  BY <1>6, <1>7, <1>8

\* Promise jobs, and the steps between two loops, move no timer and no frame.
LEMMA BridgeJobs ==
    ASSUME BridgeInv,
           \/ QueueJob \/ PumpBegin \/ RunJob \/ JobReturns \/ DestroyEnd
           \/ UNCHANGED vars
    PROVE  BridgeInv'
<1>. USE DEF BridgeInv
<1>1. /\ UNCHANGED <<timers, nextTimer, raf, nextRaf, timerRefs, rafRefs, i, cur,
                     curRec, inPass, detached, ri, frameDue, frameRan, retired,
                     clearedInPass>>
      /\ jobs' \in 0 .. MaxJobs /\ made' \in 0 .. MaxJobs /\ jobs' <= made'
  <2>1. jobs \in 0 .. MaxJobs /\ made \in 0 .. MaxJobs /\ jobs <= made
    BY DEF TypeOK, FrameArrays
  <2>. QED
    BY <2>1, TimersAssumption DEF QueueJob, PumpBegin, RunJob, JobReturns,
       DestroyEnd, vars, arrays, walk, frame
<1>2. \/ UNCHANGED <<pc, inCb>>
      \/ pc \notin {"scan", "raf"} /\ pc' \in {"jobs", "freeJobs", "freed"}
         /\ inCb' \in BOOLEAN
  BY DEF QueueJob, PumpBegin, RunJob, JobReturns, DestroyEnd, vars, TypeOK
<1>3. TypeOK'
  BY <1>1, <1>2 DEF TypeOK
<1>4. TimerArray' /\ TimerWalk'
  BY <1>1, <1>2, TimerArrayKept, TimerWalkKept
<1>5. FrameArrays'
  BY <1>1, <1>2, FrameArraysKept
<1>. QED
  BY <1>3, <1>4, <1>5

-----------------------------------------------------------------------------
(* mini_bridge_pump                                                        *)

\* The walk begins: nothing is called yet, and the times are new.
LEMMA BridgeScanBegin ==
    ASSUME BridgeInv, JobsDone \/ JobThrows
    PROVE  BridgeInv'
<1>. USE DEF BridgeInv
<1>1. PICK e \in 1 .. MaxDelay + 1 : timers' = Elapsed(e)
  BY DEF JobsDone, JobThrows, ScanBegin
<1>2. /\ UNCHANGED <<nextTimer, raf, nextRaf, jobs, made, timerRefs, rafRefs, cur,
                     curRec, detached, ri, frameDue, frameRan, retired>>
      /\ pc = "jobs" /\ pc' = "scan" /\ inCb' = FALSE /\ i' = 1 /\ inPass' = {}
      /\ clearedInPass' = FALSE
  BY DEF JobsDone, JobThrows, ScanBegin, frame, TypeOK
<1>3. timers' = [k \in 1 .. Len(timers) |->
                  [timers[k] EXCEPT !.left = IF timers[k].left > e
                                             THEN timers[k].left - e ELSE 0]]
  BY <1>1, TimerFacts DEF Elapsed
<1>4. \A k \in 1 .. Len(timers) :
         timers'[k] \in Timers /\ timers'[k].id = timers[k].id
  <2>1. SUFFICES ASSUME NEW k \in 1 .. Len(timers)
                 PROVE  timers'[k] \in Timers /\ timers'[k].id = timers[k].id
    OBVIOUS
  <2>2. timers[k] \in Timers /\ timers[k].left \in 0 .. MaxDelay + 1
    BY TimerFacts DEF Timers
  <2>. DEFINE l == IF timers[k].left > e THEN timers[k].left - e ELSE 0
  <2>3. l \in 0 .. MaxDelay + 1
    BY <2>2, TimersAssumption
  <2>4. timers'[k] = [timers[k] EXCEPT !.left = l]
    BY <1>3
  <2>. HIDE DEF l
  <2>. QED
    BY <2>2, <2>3, <2>4 DEF Timers
<1>5. timers' \in Seq(Timers) /\ Len(timers') = Len(timers)
  <2>1. Len(timers) \in Nat
    BY TimerFacts
  <2>2. timers' \in [1 .. Len(timers) -> Timers]
    BY <1>3, <1>4
  <2>. QED
    BY <2>1, <2>2
<1>6. Distinct(timers') /\ IdsOf(timers') = IdsOf(timers) /\ DOMAIN timers' = DOMAIN timers
  BY <1>4, <1>5, TimerFacts, RetimedFacts DEF TimerArray
<1>7. TypeOK'
  <2>1. i' \in Nat \ {0} /\ inPass' \subseteq TimerIds
    BY <1>2
  <2>2. inCb' \in BOOLEAN /\ clearedInPass' \in BOOLEAN
    BY <1>2
  <2>. QED
    BY <1>2, <1>5, <2>1, <2>2 DEF TypeOK
<1>8. TimerArray'
  BY <1>2, <1>6 DEF TimerArray, Called
<1>9. TimerWalk'
  BY <1>2, <1>5 DEF TimerWalk
<1>10. FrameArrays'
  BY <1>2, FrameArraysKept DEF FrameArrays
<1>. QED
  BY <1>7, <1>8, <1>9, <1>10

\* On to the next index: the timer here is not due.
LEMMA BridgeNotDue ==
    ASSUME BridgeInv, NotDue
    PROVE  BridgeInv'
<1>. USE DEF BridgeInv
<1>1. /\ UNCHANGED <<pc, inCb, timers, nextTimer, raf, nextRaf, jobs, made, timerRefs,
                     rafRefs, cur, curRec, inPass, detached, ri, frameDue, frameRan,
                     retired, clearedInPass>>
      /\ pc = "scan" /\ ~inCb /\ i <= Len(timers) /\ timers[i].left # 0 /\ i' = i + 1
  BY DEF NotDue, Scanning, Due, arrays, frame
<1>2. i \in Nat \ {0} /\ i \in DOMAIN timers /\ timers[i].left > 0
  BY <1>1, TimerFacts DEF TypeOK
<1>3. TypeOK'
  BY <1>1, <1>2 DEF TypeOK
<1>4. TimerArray'
  BY <1>1, TimerArrayKept
<1>5. TimerWalk'
  <2>1. \A k \in DOMAIN timers : k < i + 1 => k < i \/ k = i
    BY <1>2, TimerFacts
  <2>2. i + 1 <= Len(timers) + 1
    BY <1>1, <1>2, TimerFacts
  <2>. QED
    BY <1>1, <1>2, <2>1, <2>2 DEF TimerWalk
<1>6. FrameArrays'
  BY <1>1, FrameArraysKept DEF FrameArrays
<1>. QED
  BY <1>3, <1>4, <1>5, <1>6

\* A one-shot timer leaves the array: its reference is now that of the call.
LEMMA BridgeFireTimeout ==
    ASSUME BridgeInv, FireTimeout
    PROVE  BridgeInv'
<1>. USE DEF BridgeInv
<1>. DEFINE t == timers[i].id
<1>1. /\ UNCHANGED <<pc, i, nextTimer, raf, nextRaf, jobs, made, timerRefs, rafRefs,
                     detached, ri, frameDue, frameRan, clearedInPass>>
      /\ pc = "scan" /\ ~inCb /\ i <= Len(timers)
      /\ inCb' = TRUE /\ cur' = t /\ inPass' = inPass \cup {t} /\ curRec' = FALSE
      /\ timers' = Compacted(timers, i) /\ retired' = retired \cup {t}
  BY DEF FireTimeout, Scanning, Due, Calling, frame
<1>2. /\ i \in Nat \ {0} /\ i \in 1 .. Len(timers) /\ t \in TimerIds
      /\ t \in IdsOf(timers)
  BY <1>1, TimerFacts DEF TypeOK
<1>3. timers \in Seq(Timers) /\ Distinct(timers)
  BY DEF TypeOK, TimerArray
<1>4. /\ timers' \in Seq(Timers) /\ Len(timers') = Len(timers) - 1
      /\ \A a \in 1 .. Len(timers) - 1 :
           timers'[a] = IF a = i THEN timers[Len(timers)] ELSE timers[a]
      /\ Distinct(timers') /\ IdsOf(timers') = IdsOf(timers) \ {t}
  BY <1>1, <1>2, <1>3, CompactedFacts
<1>5. \A b \in DOMAIN timers' : timers'[b].id # t
  BY <1>4 DEF IdsOf
<1>6. cur = None /\ t # None /\ t \in 1 .. nextTimer - 1
  BY <1>1, <1>2, IdFacts DEF TimerArray
<1>. HIDE DEF t
<1>7. TypeOK'
  <2>1. retired' \subseteq TimerIds /\ inPass' \subseteq TimerIds
        /\ cur' \in TimerIds \cup {None}
    BY <1>1, <1>2 DEF TypeOK
  <2>2. inCb' \in BOOLEAN /\ curRec' \in BOOLEAN
    BY <1>1
  <2>. QED
    BY <1>1, <1>4, <2>1, <2>2 DEF TypeOK
<1>8. TimerArray'
  <2>1. \A x \in TimerIds :
          timerRefs'[x] = (IF x \in IdsOf(timers') THEN 1 ELSE 0) + Called(x)'
    <3>1. \A x \in TimerIds :
             Called(x) = 0 /\ Called(x)' = IF x = t THEN 1 ELSE 0
      BY <1>1, <1>6, IdFacts DEF Called
    <3>. QED
      BY <1>1, <1>2, <1>4, <3>1 DEF TimerArray
  <2>. QED
    BY <1>1, <1>2, <1>4, <1>6, <2>1 DEF TimerArray
<1>9. TimerWalk'
  <2>1. DOMAIN timers' = 1 .. Len(timers) - 1 /\ Len(timers) \in Nat
    BY <1>4, TimerFacts
  <2>2. \A a \in 1 .. Len(timers) - 1 : a \in DOMAIN timers
    BY <2>1, TimerFacts
  <2>3. Len(timers) \in DOMAIN timers
    BY <1>2, TimerFacts
  <2>4. \A a \in DOMAIN timers' : \E b \in DOMAIN timers : timers'[a] = timers[b]
    BY <1>4, <2>1, <2>2, <2>3
  <2>5. \A k \in DOMAIN timers' : timers'[k].id \in inPass' => timers'[k].left > 0
    BY <1>1, <1>5, <2>4 DEF TimerWalk
  <2>6. i <= Len(timers') + 1
    BY <1>1, <1>2, <1>4, <2>1
  <2>7. \A k \in DOMAIN timers' : k < i => k \in DOMAIN timers /\ timers'[k] = timers[k]
    BY <1>2, <1>4, <2>1, <2>2
  <2>. QED
    BY <1>1, <2>5, <2>6, <2>7 DEF TimerWalk
<1>10. FrameArrays'
  <2>1. WaitingRafs' = WaitingRafs
    BY <1>1 DEF WaitingRafs
  <2>. QED
    BY <1>1, <2>1 DEF FrameArrays
<1>. QED
  BY <1>7, <1>8, <1>9, <1>10

\* An interval stays, armed again, with a second reference for the call.
LEMMA BridgeFireInterval ==
    ASSUME BridgeInv, FireInterval
    PROVE  BridgeInv'
<1>. USE DEF BridgeInv
<1>. DEFINE t == timers[i].id
            l == IF timers[i].every > 1 THEN timers[i].every ELSE 1
<1>1. /\ UNCHANGED <<pc, i, nextTimer, raf, nextRaf, jobs, made, rafRefs,
                     detached, ri, frameDue, frameRan, retired, clearedInPass>>
      /\ pc = "scan" /\ ~inCb /\ i <= Len(timers)
      /\ inCb' = TRUE /\ cur' = t /\ inPass' = inPass \cup {t} /\ curRec' = TRUE
      /\ timers' = [timers EXCEPT ![i].left = l]
      /\ timerRefs' = [timerRefs EXCEPT ![t] = @ + 1]
  BY DEF FireInterval, Scanning, Due, Calling, frame
<1>2. /\ i \in Nat \ {0} /\ i \in 1 .. Len(timers) /\ t \in TimerIds
      /\ t \in IdsOf(timers) /\ timers[i] \in Timers /\ i \in DOMAIN timers
      /\ timers \in Seq(Timers) /\ Distinct(timers)
  BY <1>1, TimerFacts DEF TypeOK, TimerArray
<1>3. l \in 0 .. MaxDelay + 1 /\ l > 0
  BY <1>2, TimerFacts, TimersAssumption
<1>4. cur = None /\ t # None /\ t \in 1 .. nextTimer - 1
  BY <1>1, <1>2, IdFacts DEF TimerArray
<1>. HIDE DEF l, t
<1>5. [timers[i] EXCEPT !.left = l] \in Timers
  BY <1>2, <1>3 DEF Timers
<1>6. /\ timers' \in Seq(Timers) /\ Len(timers') = Len(timers)
      /\ \A a \in 1 .. Len(timers) :
           timers'[a] = IF a = i THEN [timers[i] EXCEPT !.left = l] ELSE timers[a]
  <2>1. timers' = [timers EXCEPT ![i] = [timers[i] EXCEPT !.left = l]]
    BY <1>1
  <2>. QED
    BY <1>2, <1>5, <2>1
<1>7. \A a \in 1 .. Len(timers) : timers'[a].id = timers[a].id
  BY <1>2, <1>6 DEF Timers
<1>8. timers'[i].left = l /\ timers'[i].id = t
  BY <1>2, <1>6, <1>7 DEF Timers, t
<1>9. Distinct(timers') /\ IdsOf(timers') = IdsOf(timers) /\ DOMAIN timers' = DOMAIN timers
  BY <1>2, <1>6, <1>7, RetimedFacts
<1>10. \A x \in TimerIds : Called(x) = 0 /\ Called(x)' = IF x = t THEN 1 ELSE 0
  BY <1>1, <1>4, IdFacts DEF Called
<1>11. /\ timerRefs' \in [TimerIds -> 0 .. 2]
       /\ \A x \in TimerIds : timerRefs'[x] = IF x = t THEN 2 ELSE timerRefs[x]
  <2>1. timerRefs[t] + 1 = 2
    BY <1>2, <1>10 DEF TimerArray
  <2>2. timerRefs' = [timerRefs EXCEPT ![t] = 2]
    BY <1>1, <2>1, Zenon
  <2>. QED
    BY <1>2, <2>2 DEF TypeOK
<1>12. TypeOK'
  <2>1. inPass' \subseteq TimerIds /\ cur' \in TimerIds \cup {None}
    BY <1>1, <1>2 DEF TypeOK
  <2>2. inCb' \in BOOLEAN /\ curRec' \in BOOLEAN
    BY <1>1
  <2>. QED
    BY <1>1, <1>6, <1>11, <2>1, <2>2 DEF TypeOK
<1>13. TimerArray'
  <2>1. \A x \in TimerIds :
          timerRefs'[x] = (IF x \in IdsOf(timers') THEN 1 ELSE 0) + Called(x)'
    BY <1>2, <1>9, <1>10, <1>11 DEF TimerArray
  <2>. QED
    BY <1>1, <1>4, <1>9, <2>1 DEF TimerArray
<1>14. TimerWalk'
  <2>1. \A a \in DOMAIN timers : a # i =>
           timers'[a] = timers[a] /\ timers'[a].id # t
    BY <1>2, <1>6, TimerFacts DEF Distinct, t
  <2>2. \A a \in DOMAIN timers' : timers'[a].id \in inPass' => timers'[a].left > 0
    BY <1>1, <1>3, <1>8, <1>9, <2>1 DEF TimerWalk
  <2>3. i <= Len(timers') /\ i <= Len(timers') + 1
    BY <1>1, <1>2, <1>6, TimerFacts
  <2>4. \A a \in DOMAIN timers' : a < i => a # i
    BY <1>2
  <2>. QED
    BY <1>1, <1>3, <1>8, <1>9, <2>1, <2>2, <2>3, <2>4 DEF TimerWalk
<1>15. FrameArrays'
  <2>1. WaitingRafs' = WaitingRafs
    BY <1>1 DEF WaitingRafs
  <2>. QED
    BY <1>1, <2>1 DEF FrameArrays
<1>. QED
  BY <1>12, <1>13, <1>14, <1>15

\* The call returns and its reference is released.
LEMMA BridgeTimerReturns ==
    ASSUME BridgeInv, TimerReturns
    PROVE  BridgeInv'
<1>. USE DEF BridgeInv
<1>1. /\ UNCHANGED <<pc, timers, nextTimer, raf, nextRaf, jobs, made, rafRefs,
                     inPass, detached, ri, frameDue, frameRan, retired, clearedInPass>>
      /\ pc = "scan" /\ inCb /\ inCb' = FALSE /\ cur' = None /\ curRec' = FALSE
      /\ i' = (IF curRec THEN i + 1 ELSE i)
      /\ timerRefs' = [timerRefs EXCEPT ![cur] = @ - 1]
  BY DEF TimerReturns, frame
<1>2. cur # None /\ cur \in TimerIds
  BY <1>1 DEF TimerArray, TypeOK
<1>3. \A x \in TimerIds : Called(x) = (IF x = cur THEN 1 ELSE 0) /\ Called(x)' = 0
  BY <1>1, IdFacts DEF Called
<1>4. \A x \in TimerIds : timerRefs'[x] = IF x \in IdsOf(timers) THEN 1 ELSE 0
  <2>1. timerRefs \in [TimerIds -> 0 .. 2]
    BY DEF TypeOK
  <2>2. \A x \in TimerIds : timerRefs'[x] = IF x = cur THEN timerRefs[x] - 1 ELSE timerRefs[x]
    BY <1>1, <1>2, <2>1
  <2>3. \A x \in TimerIds :
          timerRefs[x] = (IF x \in IdsOf(timers) THEN 1 ELSE 0) + Called(x)
    BY DEF TimerArray
  <2>. QED
    BY <1>3, <2>2, <2>3
<1>5. timerRefs' \in [TimerIds -> 0 .. 2]
  <2>1. timerRefs' = [x \in TimerIds |-> timerRefs'[x]]
    BY <1>1 DEF TypeOK
  <2>. QED
    BY <1>4, <2>1
<1>6. TypeOK'
  <2>1. i' \in Nat \ {0} /\ cur' \in TimerIds \cup {None}
    BY <1>1 DEF TypeOK
  <2>2. inCb' \in BOOLEAN /\ curRec' \in BOOLEAN
    BY <1>1
  <2>. QED
    BY <1>1, <1>5, <2>1, <2>2 DEF TypeOK
<1>7. TimerArray'
  BY <1>1, <1>3, <1>4 DEF TimerArray, IdsOf, Distinct
<1>8. TimerWalk'
  <2>1. i \in Nat \ {0} /\ Len(timers) \in Nat /\ DOMAIN timers = 1 .. Len(timers)
    BY TimerFacts DEF TypeOK
  <2>2. CASE curRec
    <3>1. \A k \in DOMAIN timers : k < i + 1 => k < i \/ k = i
      BY <2>1
    <3>2. i <= Len(timers) => i + 1 <= Len(timers) + 1
      BY <2>1
    <3>. QED
      BY <1>1, <2>2, <3>1, <3>2 DEF TimerWalk
  <2>3. CASE ~curRec
    BY <1>1, <2>3 DEF TimerWalk
  <2>. QED
    BY <2>2, <2>3
<1>9. FrameArrays'
  <2>1. WaitingRafs' = WaitingRafs
    BY <1>1 DEF WaitingRafs
  <2>. QED
    BY <1>1, <2>1 DEF FrameArrays
<1>. QED
  BY <1>6, <1>7, <1>8, <1>9

\* The walk is over.
LEMMA BridgeScanDone ==
    ASSUME BridgeInv, ScanDone
    PROVE  BridgeInv'
<1>. USE DEF BridgeInv
<1>1. /\ UNCHANGED <<inCb, timers, nextTimer, raf, nextRaf, jobs, made, timerRefs,
                     rafRefs, cur, curRec, detached, ri, frameDue, frameRan, retired>>
      /\ pc = "scan" /\ ~inCb /\ pc' = "host" /\ i' = 1 /\ inPass' = {}
      /\ clearedInPass' = FALSE
  BY DEF ScanDone, Scanning, arrays, frame
<1>2. TypeOK'
  <2>1. i' \in Nat \ {0} /\ inPass' \subseteq TimerIds
    BY <1>1
  <2>2. clearedInPass' \in BOOLEAN
    BY <1>1
  <2>. QED
    BY <1>1, <2>1, <2>2 DEF TypeOK
<1>3. TimerArray'
  BY <1>1 DEF TimerArray, IdsOf, Distinct, Called
<1>4. TimerWalk'
  BY <1>1, TimerWalkKept
<1>5. FrameArrays'
  BY <1>1, FrameArraysKept DEF FrameArrays
<1>. QED
  BY <1>2, <1>3, <1>4, <1>5

-----------------------------------------------------------------------------
(* mini_bridge_fire_raf and mini_bridge_destroy                            *)

\* The array of callbacks is taken away; the frame owes a call to each.
LEMMA BridgeFrameBegin ==
    ASSUME BridgeInv, FrameBegin
    PROVE  BridgeInv'
<1>. USE DEF BridgeInv
<1>1. /\ UNCHANGED <<inCb, timers, nextTimer, nextRaf, jobs, made, timerRefs, rafRefs,
                     i, cur, curRec, inPass, retired, clearedInPass>>
      /\ pc = "host" /\ ~inCb /\ pc' = "raf" /\ detached' = raf /\ raf' = <<>>
      /\ ri' = 1 /\ frameDue' = ToSet(raf) /\ frameRan' = {}
  BY DEF FrameBegin, walk
<1>2. /\ <<>> \in Seq(RafIds) /\ ToSet(<<>>) = {} /\ IsInjective(<<>>)
  BY EmptyFacts
<1>3. raf \in Seq(RafIds) /\ DOMAIN raf = 1 .. Len(raf) /\ Len(raf) \in Nat
  BY DEF TypeOK
<1>4. TypeOK'
  <2>1. ri' \in Nat \ {0} /\ frameDue' \subseteq RafIds /\ frameRan' \subseteq RafIds
    BY <1>1, <1>3 DEF ToSet
  <2>. QED
    BY <1>1, <1>2, <1>3, <2>1 DEF TypeOK
<1>5. TimerArray' /\ TimerWalk'
  BY <1>1, TimerArrayKept, TimerWalkKept
<1>6. WaitingRafs' = WaitingRafs
  <2>1. WaitingRafs = ToSet(raf)
    BY <1>1 DEF WaitingRafs
  <2>2. WaitingRafs' = {detached'[k] : k \in {j \in DOMAIN detached' : j >= ri'}}
    BY <1>1, <1>2 DEF WaitingRafs
  <2>3. \A j \in DOMAIN raf : j >= 1
    BY <1>3
  <2>4. WaitingRafs' = {raf[k] : k \in DOMAIN raf}
    BY <1>1, <2>2, <2>3
  <2>. QED
    BY <2>1, <2>4 DEF ToSet
<1>7. FrameArrays'
  <2>1. frameRan' = {detached'[k] : k \in {j \in DOMAIN detached' :
                                            j < ri' \/ (j = ri' /\ inCb')}}
    <3>1. \A j \in DOMAIN raf : ~(j < 1 \/ (j = 1 /\ inCb))
      BY <1>1, <1>3
    <3>. QED
      BY <1>1, <3>1
  <2>2. ri' <= Len(detached') + 1
    BY <1>1, <1>3
  <2>. QED
    BY <1>1, <1>2, <1>6, <2>1, <2>2 DEF FrameArrays
<1>. QED
  BY <1>4, <1>5, <1>7

\* The callback at the index is called.
LEMMA BridgeRunRaf ==
    ASSUME BridgeInv, RunRaf
    PROVE  BridgeInv'
<1>. USE DEF BridgeInv
<1>1. /\ UNCHANGED <<pc, timers, nextTimer, raf, nextRaf, jobs, made, timerRefs,
                     rafRefs, i, cur, curRec, inPass, detached, ri, frameDue, retired,
                     clearedInPass>>
      /\ pc = "raf" /\ ~inCb /\ ri <= Len(detached) /\ inCb' = TRUE
      /\ frameRan' = frameRan \cup {detached[ri]}
  BY DEF RunRaf, arrays, walk
<1>2. /\ detached \in Seq(RafIds) /\ ri \in Nat \ {0} /\ ri \in DOMAIN detached
      /\ detached[ri] \in RafIds
  BY <1>1 DEF TypeOK
<1>3. TypeOK'
  <2>1. frameRan' \subseteq RafIds
    BY <1>1, <1>2 DEF TypeOK
  <2>2. inCb' \in BOOLEAN
    BY <1>1
  <2>. QED
    BY <1>1, <2>1, <2>2 DEF TypeOK
<1>4. TimerArray' /\ TimerWalk'
  BY <1>1, TimerArrayKept, TimerWalkKept
<1>5. FrameArrays'
  <2>1. WaitingRafs' = WaitingRafs
    BY <1>1 DEF WaitingRafs
  <2>2. frameRan = {detached[k] : k \in {j \in DOMAIN detached : j < ri}}
    BY <1>1 DEF FrameArrays
  <2>3. frameRan' = {detached[k] : k \in {j \in DOMAIN detached : j < ri \/ j = ri}}
    BY <1>1, <1>2, <2>2
  <2>. QED
    BY <1>1, <2>1, <2>3 DEF FrameArrays
<1>. QED
  BY <1>3, <1>4, <1>5

\* It returns and is released: no other place names it.
LEMMA BridgeRafReturns ==
    ASSUME BridgeInv, RafReturns
    PROVE  BridgeInv'
<1>. USE DEF BridgeInv
<1>. DEFINE r == detached[ri]
<1>1. /\ UNCHANGED <<pc, timers, nextTimer, raf, nextRaf, jobs, made, timerRefs,
                     i, cur, curRec, inPass, detached, frameDue, frameRan, retired,
                     clearedInPass>>
      /\ pc = "raf" /\ inCb /\ inCb' = FALSE /\ ri' = ri + 1
      /\ rafRefs' = [rafRefs EXCEPT ![r] = @ - 1]
  BY DEF RafReturns, walk
<1>2. /\ detached \in Seq(RafIds) /\ ri \in Nat \ {0} /\ ri <= Len(detached)
      /\ Len(detached) \in Nat /\ DOMAIN detached = 1 .. Len(detached)
      /\ rafRefs \in [RafIds -> 0 .. 1]
  BY <1>1 DEF TypeOK, FrameArrays
<1>3. ri \in DOMAIN detached /\ r \in RafIds /\ r \in ToSet(detached) /\ r \notin ToSet(raf)
  <2>1. ri \in DOMAIN detached
    BY <1>2
  <2>2. r \in RafIds
    BY <1>2, <2>1
  <2>3. r \in ToSet(detached)
    BY <2>1 DEF ToSet
  <2>. QED
    BY <2>1, <2>2, <2>3 DEF FrameArrays
<1>4. WaitingRafs' = WaitingRafs \ {r} /\ r \in WaitingRafs
  <2>1. /\ WaitingRafs = ToSet(raf) \cup
                           {detached[k] : k \in {j \in DOMAIN detached : j >= ri}}
        /\ WaitingRafs' = ToSet(raf) \cup
                           {detached[k] : k \in {j \in DOMAIN detached : j >= ri + 1}}
    BY <1>1 DEF WaitingRafs
  <2>2. \A j \in DOMAIN detached : /\ j >= ri <=> j >= ri + 1 \/ j = ri
                                   /\ j >= ri + 1 => j # ri
    BY <1>2
  <2>3. \A j \in DOMAIN detached : j # ri => detached[j] # r
    BY <1>3 DEF FrameArrays, IsInjective
  <2>. QED
    BY <1>3, <2>1, <2>2, <2>3
<1>. HIDE DEF r
<1>5. /\ rafRefs' \in [RafIds -> 0 .. 1]
      /\ \A x \in RafIds : rafRefs'[x] = IF x = r THEN 0 ELSE rafRefs[x]
  <2>1. rafRefs[r] - 1 = 0
    BY <1>3, <1>4 DEF FrameArrays
  <2>2. rafRefs' = [rafRefs EXCEPT ![r] = 0]
    BY <1>1, <2>1, Zenon
  <2>. QED
    BY <1>2, <1>3, <2>2
<1>6. TypeOK'
  <2>1. ri' \in Nat \ {0}
    BY <1>1, <1>2
  <2>2. inCb' \in BOOLEAN
    BY <1>1
  <2>. QED
    BY <1>1, <1>5, <2>1, <2>2 DEF TypeOK
<1>7. TimerArray' /\ TimerWalk'
  BY <1>1, TimerArrayKept, TimerWalkKept
<1>8. FrameArrays'
  <2>1. ri' <= Len(detached) + 1
    BY <1>1, <1>2
  <2>2. \A j \in DOMAIN detached : j < ri + 1 <=> j < ri \/ j = ri
    BY <1>2
  <2>3. frameRan' = {detached[k] : k \in {j \in DOMAIN detached : j < ri'}}
    BY <1>1, <2>2 DEF FrameArrays
  <2>. QED
    BY <1>1, <1>4, <1>5, <2>1, <2>3 DEF FrameArrays
<1>. QED
  BY <1>6, <1>7, <1>8

\* The frame is over, with nothing left to call.
LEMMA BridgeFrameEnd ==
    ASSUME BridgeInv, FrameEnd
    PROVE  BridgeInv'
<1>. USE DEF BridgeInv
<1>1. /\ UNCHANGED <<inCb, timers, nextTimer, raf, nextRaf, jobs, made, timerRefs,
                     rafRefs, i, cur, curRec, inPass, retired, clearedInPass>>
      /\ pc = "raf" /\ ~inCb /\ ri > Len(detached) /\ pc' = "host"
      /\ detached' = <<>> /\ ri' = 1 /\ frameDue' = {} /\ frameRan' = {}
  BY DEF FrameEnd, arrays, walk
<1>2. /\ <<>> \in Seq(RafIds) /\ ToSet(<<>>) = {} /\ IsInjective(<<>>)
  BY EmptyFacts
<1>3. TypeOK'
  <2>1. ri' \in Nat \ {0} /\ frameDue' \subseteq RafIds /\ frameRan' \subseteq RafIds
    BY <1>1
  <2>. QED
    BY <1>1, <1>2, <2>1 DEF TypeOK
<1>4. TimerArray' /\ TimerWalk'
  BY <1>1, TimerArrayKept, TimerWalkKept
<1>5. WaitingRafs' = WaitingRafs
  <2>1. \A j \in DOMAIN detached : ~(j >= ri)
    BY <1>1 DEF TypeOK
  <2>2. WaitingRafs = ToSet(raf)
    BY <1>1, <2>1 DEF WaitingRafs
  <2>3. WaitingRafs' = ToSet(raf)
    BY <1>1 DEF WaitingRafs
  <2>. QED
    BY <2>2, <2>3
<1>6. FrameArrays'
  BY <1>1, <1>2, <1>5 DEF FrameArrays
<1>. QED
  BY <1>3, <1>4, <1>6

\* mini_bridge_destroy releases what the arrays name, each callback once.
LEMMA BridgeDestroyBegin ==
    ASSUME BridgeInv, DestroyBegin
    PROVE  BridgeInv'
<1>. USE DEF BridgeInv
<1>1. /\ UNCHANGED <<inCb, nextTimer, nextRaf, jobs, made, i, cur, curRec, inPass,
                     detached, ri, frameDue, frameRan, clearedInPass>>
      /\ pc = "host" /\ ~inCb /\ pc' = "freeJobs" /\ timers' = <<>> /\ raf' = <<>>
      /\ timerRefs' = [t \in TimerIds |-> timerRefs[t] - Entries(t)]
      /\ rafRefs' = [r \in RafIds |->
            rafRefs[r] - Cardinality({k \in DOMAIN raf : raf[k] = r})]
      /\ retired' = retired \cup IdsOf(timers)
  BY DEF DestroyBegin, walk, frame, Entries, IdsOf
<1>2. /\ <<>> \in Seq(RafIds) /\ <<>> \in Seq(Timers) /\ ToSet(<<>>) = {}
      /\ IsInjective(<<>>) /\ DOMAIN <<>> = {}
  BY EmptyFacts
<1>3. \A t \in TimerIds : timerRefs'[t] = 0
  <2>1. \A t \in TimerIds : Entries(t) = IF t \in IdsOf(timers) THEN 1 ELSE 0
    BY EntriesFacts DEF TimerArray
  <2>2. \A t \in TimerIds : Called(t) = 0
    BY <1>1, IdFacts DEF TimerArray, Called
  <2>3. \A t \in TimerIds : timerRefs[t] = Entries(t)
    BY <2>1, <2>2 DEF TimerArray
  <2>4. \A t \in TimerIds : timerRefs[t] \in 0 .. 2
    BY DEF TypeOK
  <2>. QED
    BY <1>1, <2>3, <2>4
<1>4. \A r \in RafIds : rafRefs'[r] = 0
  <2>1. raf \in Seq(RafIds) /\ IsInjective(raf)
    BY DEF TypeOK, FrameArrays
  <2>2. \A r \in RafIds : Cardinality({k \in DOMAIN raf : raf[k] = r})
                            = IF r \in ToSet(raf) THEN 1 ELSE 0
    BY <2>1, RafEntriesFacts
  <2>3. \A r \in RafIds : rafRefs[r] = IF r \in ToSet(raf) THEN 1 ELSE 0
    BY <1>1 DEF FrameArrays, WaitingRafs
  <2>. QED
    BY <1>1, <2>2, <2>3
<1>5. TypeOK'
  <2>1. timerRefs' \in [TimerIds -> 0 .. 2]
    <3>1. timerRefs' = [t \in TimerIds |-> timerRefs'[t]]
      BY <1>1
    <3>. QED
      BY <1>3, <3>1
  <2>2. rafRefs' \in [RafIds -> 0 .. 1]
    <3>1. rafRefs' = [r \in RafIds |-> rafRefs'[r]]
      BY <1>1
    <3>. QED
      BY <1>4, <3>1
  <2>3. retired' \subseteq TimerIds
    BY <1>1, TimerFacts DEF TypeOK, IdsOf
  <2>. QED
    BY <1>1, <1>2, <2>1, <2>2, <2>3 DEF TypeOK
<1>6. TimerArray'
  <2>1. IdsOf(timers') = {} /\ Distinct(timers')
    BY <1>1, <1>2 DEF IdsOf, Distinct
  <2>2. \A t \in TimerIds : Called(t)' = 0
    BY <1>1, IdFacts DEF TimerArray, Called
  <2>. QED
    BY <1>1, <1>3, <2>1, <2>2 DEF TimerArray
<1>7. TimerWalk'
  BY <1>1, TimerWalkKept
<1>8. FrameArrays'
  <2>1. WaitingRafs' = {}
    BY <1>1, <1>2 DEF WaitingRafs
  <2>. QED
    BY <1>1, <1>2, <1>4, <2>1 DEF FrameArrays
<1>. QED
  BY <1>5, <1>6, <1>7, <1>8

-----------------------------------------------------------------------------

\* A step preserves the invariant.
LEMMA BridgeStep ==
    ASSUME BridgeInv, [Next]_vars
    PROVE  BridgeInv'
<1>1. CASE Script
  BY <1>1, BridgeAddTimer, BridgeClearTimer, BridgeRequestFrame, BridgeCancelFrame,
     BridgeJobs DEF Script
<1>2. CASE Pump \/ JobThrows
  BY <1>2, BridgeJobs, BridgeScanBegin, BridgeNotDue, BridgeFireTimeout,
     BridgeFireInterval, BridgeTimerReturns, BridgeScanDone DEF Pump
<1>3. CASE Frame
  BY <1>3, BridgeFrameBegin, BridgeRunRaf, BridgeRafReturns, BridgeFrameEnd DEF Frame
<1>4. CASE DestroyBegin \/ DestroyEnd \/ Freed \/ UNCHANGED vars
  BY <1>4, BridgeDestroyBegin, BridgeJobs DEF Freed
<1>. QED
  BY <1>1, <1>2, <1>3, <1>4 DEF Next

\* BridgeInv holds in every reachable state, whatever the callbacks do to the
\* arrays they are called from.
THEOREM BridgeInvariant == Spec => []BridgeInv
<1>1. BridgeInv /\ [Next]_vars => BridgeInv'
  BY BridgeStep
<1>. QED
  BY <1>1, BridgeInit, PTL DEF Spec

\* The bridge holds one reference to a callback for each place that names it
\* (add_timer, js_clearTimer, mini_bridge_pump, mini_bridge_fire_raf,
\* mini_bridge_destroy).
THEOREM CallbackRefsCorrect == Spec => []CallbackRefs
<1>1. BridgeInv => CallbackRefs
  <2>. SUFFICES ASSUME BridgeInv PROVE CallbackRefs
    OBVIOUS
  <2>1. \A t \in TimerIds : timerRefs[t] = Entries(t) + (IF cur = t THEN 1 ELSE 0)
    BY EntriesFacts DEF BridgeInv, TimerArray, Called
  <2>. QED
    BY <2>1 DEF BridgeInv, FrameArrays, CallbackRefs
<1>. QED
  BY <1>1, BridgeInvariant, PTL

\* The walk over the timers calls every one that is due, and a frame runs exactly
\* the callbacks registered before it began (mini_bridge_pump,
\* mini_bridge_fire_raf).
THEOREM WalksCorrect == Spec => []WalksAreComplete
<1>1. BridgeInv => WalksAreComplete
  <2>. SUFFICES ASSUME BridgeInv PROVE WalksAreComplete
    OBVIOUS
  <2>. USE DEF BridgeInv
  <2>1. WalkIsComplete
    <3>1. \A k \in DOMAIN timers : i > Len(timers) => k < i
      BY TimerFacts DEF TypeOK
    <3>. QED
      BY <3>1 DEF WalkIsComplete, TimerWalk, Scanning
  <2>2. FrameRunsItsOwn
    <3>1. SUFFICES ASSUME pc = "raf"
                   PROVE  /\ frameRan \subseteq frameDue
                          /\ ~inCb /\ ri > Len(detached) => frameRan = frameDue
      BY DEF FrameRunsItsOwn
    <3>2. \A j \in DOMAIN detached : ri > Len(detached) => j < ri
      BY DEF TypeOK
    <3>. QED
      BY <3>1, <3>2 DEF FrameArrays, ToSet
  <2>. QED
    BY <2>1, <2>2 DEF WalksAreComplete
<1>. QED
  BY <1>1, BridgeInvariant, PTL

\* No timer is called after it was cleared, or was called as a one-shot, and none
\* twice in a walk (mini_bridge_pump).
THEOREM CalledWhenOwedCorrect == Spec => CalledWhenOwed
<1>1. BridgeInv /\ [Next]_vars =>
        [\A t \in TimerIds : cur = None /\ cur' = t =>
            t \notin retired /\ t \notin inPass]_vars
  <2>. SUFFICES ASSUME BridgeInv, Next, NEW t \in TimerIds, cur = None, cur' = t
                PROVE  t \notin retired /\ t \notin inPass
    BY DEF vars
  <2>1. t # None
    BY IdFacts
  <2>2. FireTimeout \/ FireInterval
    <3>1. CASE Script
      BY <2>1, <3>1 DEF Script, AddTimer, ClearTimer, RequestFrame, CancelFrame,
         QueueJob, walk
    <3>2. CASE Pump \/ JobThrows
      BY <2>1, <3>2 DEF Pump, PumpBegin, RunJob, JobsDone, JobThrows, ScanBegin,
         JobReturns, NotDue, TimerReturns, ScanDone, walk
    <3>3. CASE Frame
      BY <2>1, <3>3 DEF Frame, FrameBegin, RunRaf, RafReturns, FrameEnd, walk
    <3>4. CASE DestroyBegin \/ DestroyEnd \/ Freed
      BY <2>1, <3>4 DEF DestroyBegin, DestroyEnd, Freed, vars, walk
    <3>. QED
      BY <3>1, <3>2, <3>3, <3>4 DEF Next
  <2>3. /\ pc = "scan" /\ i <= Len(timers) /\ timers[i].left = 0
        /\ t = timers[i].id
    BY <2>2 DEF FireTimeout, FireInterval, Scanning, Due, Calling
  <2>4. i \in DOMAIN timers
    BY <2>3, TimerFacts DEF BridgeInv, TypeOK
  <2>5. t \in IdsOf(timers)
    BY <2>3, <2>4 DEF IdsOf
  <2>6. ~(timers[i].left > 0)
    BY <2>3
  <2>. QED
    BY <2>3, <2>4, <2>5, <2>6 DEF BridgeInv, TimerArray, TimerWalk
<1>. QED
  BY <1>1, BridgeInvariant, PTL DEF Spec, CalledWhenOwed

-----------------------------------------------------------------------------
(* The tree and the tab order. *)

\* A node is one of its own ancestors, the others are those of its parent, and any
\* rooted set that has the node has them all.
LEMMA UpFacts ==
    ASSUME NEW n \in Nodes
    PROVE  /\ Up[n] \subseteq Nodes /\ n \in Up[n]
           /\ n = Body => Up[n] = {Body}
           /\ n # Body => Parent[n] \in Nodes /\ Up[n] \subseteq {n} \cup Up[Parent[n]]
           /\ \A R \in SUBSET Nodes : n \in R /\ Rooted(R) => Up[n] \subseteq R
<1>1. Up[n] \subseteq Nodes /\ n \in Up[n]
  BY DEF Up
<1>2. \A R \in SUBSET Nodes : n \in R /\ Rooted(R) => Up[n] \subseteq R
  BY DEF Up
<1>3. ASSUME n = Body PROVE Up[n] = {Body}
  <2>1. {Body} \in SUBSET Nodes /\ Rooted({Body})
    BY Tree DEF Rooted
  <2>. QED
    BY <2>1, <1>1, <1>2, <1>3
<1>4. ASSUME n # Body PROVE Parent[n] \in Nodes /\ Up[n] \subseteq {n} \cup Up[Parent[n]]
  <2>1. Parent[n] \in Nodes
    BY <1>4, Tree
  <2>2. PICK q \in Nodes : q = Parent[n]
    BY <2>1
  <2>3. q \in Up[q] /\ Up[q] \subseteq Nodes /\ Rooted(Up[q])
    <3>1. \A m \in Up[q] \ {Body} : Parent[m] \in Nodes
      BY Tree DEF Up
    <3>2. ASSUME NEW m \in Up[q] \ {Body}, NEW R \in SUBSET Nodes, q \in R, Rooted(R)
          PROVE  Parent[m] \in R
      <4>1. m \in R
        BY <3>2 DEF Up
      <4>. QED
        BY <4>1, <3>2 DEF Rooted
    <3>. QED
      BY <3>1, <3>2 DEF Up, Rooted
  <2>4. Rooted({n} \cup Up[q]) /\ {n} \cup Up[q] \in SUBSET Nodes
    BY <2>2, <2>3 DEF Rooted
  <2>. QED
    BY <2>1, <2>2, <2>4, <1>2
<1>. QED
  BY <1>1, <1>2, <1>3, <1>4

\* The closest ancestor in a set is there when there is one.
LEMMA ClosestFacts ==
    ASSUME NEW n \in Nodes, NEW L
    PROVE  Closest(n, L) = NoNode \/ (Closest(n, L) \in L /\ Closest(n, L) \in Nodes)
<1>. DEFINE T == {m \in Up[n] : Up[n] \cap L \subseteq Up[m]}
<1>1. SUFFICES ASSUME Up[n] \cap L # {}
               PROVE  \E a \in Up[n] \cap L : \A b \in Up[n] \cap L : b \in Up[a]
  <2>1. ASSUME NEW a \in Up[n] \cap L, \A b \in Up[n] \cap L : b \in Up[a]
        PROVE  (CHOOSE c \in Up[n] \cap L : \A b \in Up[n] \cap L : b \in Up[c]) \in Up[n] \cap L
    BY <2>1
  <2>. QED
    BY <1>1, <2>1, UpFacts DEF Closest
<1>2. SUFFICES ASSUME ~ \E a \in Up[n] \cap L : \A b \in Up[n] \cap L : b \in Up[a] PROVE FALSE
  OBVIOUS
<1>3. n \in T /\ T \in SUBSET Nodes
  BY UpFacts
<1>4. Rooted(T)
  <2>1. ASSUME NEW m \in T \ {Body} PROVE Parent[m] \in T
    <3>1. m \in Nodes /\ m \notin L /\ m \in Up[n]
      BY <1>2, UpFacts
    <3>2. Up[n] \cap L \subseteq Up[Parent[m]] /\ Parent[m] \in Nodes
      BY <3>1, UpFacts
    <3>3. Parent[m] \in Up[n]
      <4>1. ASSUME NEW R \in SUBSET Nodes, n \in R, Rooted(R) PROVE Parent[m] \in R
        BY <4>1, <3>1, UpFacts DEF Rooted
      <4>. QED
        BY <4>1, <3>2 DEF Up
    <3>. QED
      BY <3>2, <3>3
  <2>. QED
    BY <2>1 DEF Rooted
<1>5. Up[n] \subseteq T
  BY <1>3, <1>4, UpFacts
<1>. QED
  BY <1>1, <1>2, <1>5

\* The node under the pointer is a node of the page.
LEMMA HitFacts ==
    ASSUME DomTypes
    PROVE  /\ Hit \in live \cup {NoNode} /\ Hit \in MaybeNode
           /\ Under \in live /\ Under \in Nodes
<1>1. /\ live \subseteq Nodes /\ Body \in live /\ pointer \in Nodes \cup {NoNode}
  BY DEF DomTypes, MaybeNode
<1>2. Hit \in live \cup {NoNode}
  BY <1>1, ClosestFacts DEF Hit
<1>. QED
  BY <1>1, <1>2 DEF Under, MaybeNode

\* The body is never destroyed.
LEMMA EmptiedFacts ==
    ASSUME live \subseteq Nodes, NEW dead \in Emptied
    PROVE  Body \notin dead /\ dead \subseteq live
<1>1. PICK el \in live : dead = {n \in live : el \in Up[n]} \ {el}
  BY DEF Emptied, Below
<1>. QED
  BY <1>1, UpFacts, Tree

\* Tab moves to a node of the page.
LEMMA NextFacts ==
    ASSUME live \subseteq Nodes
    PROVE  NextFocusable \in live \cup {NoNode}
<1>1. TabOrder \in Seq(Nodes)
  BY Controls
<1>2. LiveOrder \in Seq(Nodes) /\ ToSet(LiveOrder) = ToSet(TabOrder) \cap live
  BY <1>1, FilterKeeps DEF LiveOrder
<1>3. \A p \in DOMAIN LiveOrder : LiveOrder[p] \in live
  BY <1>2 DEF ToSet
<1>4. LiveOrder # <<>> => 1 \in DOMAIN LiveOrder
  BY <1>2
<1>. QED
  BY <1>3, <1>4 DEF NextFocusable

-----------------------------------------------------------------------------
(* The list of what the handler in progress has still to do. *)

\* Items that are only ever at the front of the list.
Fronts == {e \in Items : e.k \in {"click", "dragstart", "dragend", "change", "call", "blur", "focus"}
                         \/ (e.k = "drop" /\ e.b # "file")}

\* Items about a drag: there is at most one of them, and none after a hit test.
ActKinds == {"dndBegin", "mousedown", "pressed", "default", "dragstart", "dndStarted", "dndReset",
             "dndDrop", "dragEnd", "dndOver", "dragover", "dndAllow", "dndDeny"}
Acts == {e \in Items : e.k \in ActKinds}
HitOrAct(e) == e \in Acts \/ e.k = "dndHit"

\* Items that no invariant speaks of.
PlainKinds == {"mouseup", "dblclick", "contextmenu", "mouseout", "mouseover", "mousemove", "input",
               "keydown", "drag", "dragenter", "dragleave", "mouseleave", "mouseenter", "touch",
               "hover", "hoverSet", "rangeEnd", "rangeDone", "released", "clicked", "unclick",
               "unpress", "tab", "suppress"}
Plain == {e \in Items : e.k \in PlainKinds \/ (e.k = "drop" /\ e.b = "file")}

\* Items that are followed by the piece that goes on with their handler.
Needs(e) == \/ e.k \in {"click", "edit", "dndMove", "blur", "focus", "dragend", "unsnap"}
            \/ e.k = "drop" /\ e.b # "file"
            \/ e.k = "change" /\ e.n \notin Ranges
Mate(e, f) ==
  /\ e.k = "click" => f.k = "clicked"
  /\ e.k = "edit" => f.k = "suppress"
  /\ e.k = "dndMove" => f.k = "dndHit"
  /\ e.k = "blur" => f.k = "blurred"
  /\ e.k = "focus" => f.k = "focused" /\ f.n = e.n
  /\ e.k = "dragend" => f.k = "dndReset"
  /\ e.k = "unsnap" => f.k = "focusSet"
  /\ e.k = "drop" /\ e.b # "file" => f.k = "dragEnd"
  /\ e.k = "change" /\ e.n \notin Ranges => f.k = "unsnap"

\* The node of an item is one that its piece can work on.
NodeFits(e) == /\ e.k = "range" => e.n \in Ranges
               /\ e.k \in {"mousedown", "pressed", "default", "focused"} => e.n # NoNode

Inner(t) == \A p \in 1..Len(t) : t[p] \notin Fronts
Calm(t) == \A p \in 1..Len(t) : t[p] \notin Acts
Only(t, f) == \A p \in 1..Len(t) : t[p] \in Acts => t[p] = f
NoPiece(t) == \A p \in 1..Len(t) : t[p].k \notin FocusPieces
Shape(t) ==
  /\ t \in Seq(Items)
  /\ \A p \in 1..Len(t) : Needs(t[p]) => p + 1 \in 1..Len(t) /\ Mate(t[p], t[p + 1])
  /\ \A p, q \in 1..Len(t) : p < q /\ HitOrAct(t[p]) => t[q] \notin Acts
  /\ \A p \in 1..Len(t) : p > 1 => t[p] \notin Fronts
  /\ \A p \in 1..Len(t) : NodeFits(t[p])

\* What is left when the first item is done.
LEMMA TailShape ==
    ASSUME NEW t, Shape(t), t # <<>>
    PROVE  /\ Shape(Tail(t)) /\ Inner(Tail(t))
           /\ Head(t) \in Items /\ NodeFits(Head(t))
           /\ HitOrAct(Head(t)) => Calm(Tail(t))
           /\ Needs(Head(t)) => Tail(t) # <<>> /\ Mate(Head(t), Head(Tail(t)))
<1>1. t \in Seq(Items) /\ Len(t) \in Nat \ {0} /\ 1 \in 1..Len(t) /\ Head(t) = t[1]
  BY DEF Shape
<1>2. PICK r \in Seq(Items) : r = Tail(t)
  BY <1>1, HeadTailProperties
<1>3. /\ Len(r) \in Nat /\ Len(r) = Len(t) - 1
      /\ \A p \in 1..Len(r) : p + 1 \in 1..Len(t) /\ r[p] = t[p + 1]
  BY <1>1, <1>2, HeadTailProperties
<1>4. \A p \in 1..Len(r) : Needs(r[p]) => p + 1 \in 1..Len(r) /\ Mate(r[p], r[p + 1])
  <2>1. ASSUME NEW p \in 1..Len(r), Needs(r[p]) PROVE p + 1 \in 1..Len(r) /\ Mate(r[p], r[p + 1])
    <3>1. PICK q \in 1..Len(t) : q = p + 1 /\ r[p] = t[q]
      BY <1>3
    <3>2. q + 1 \in 1..Len(t) /\ Mate(t[q], t[q + 1])
      BY <3>1, <2>1 DEF Shape
    <3>3. p + 1 \in 1..Len(r) /\ r[p + 1] = t[q + 1]
      BY <3>1, <3>2, <1>3
    <3>. QED
      BY <3>1, <3>2, <3>3
  <2>. QED
    BY <2>1
<1>5. \A p, q \in 1..Len(r) : p < q /\ HitOrAct(r[p]) => r[q] \notin Acts
  <2>1. ASSUME NEW p \in 1..Len(r), NEW q \in 1..Len(r), p < q, HitOrAct(r[p]) PROVE r[q] \notin Acts
    <3>1. p + 1 \in 1..Len(t) /\ q + 1 \in 1..Len(t) /\ p + 1 < q + 1 /\ r[p] = t[p + 1] /\ r[q] = t[q + 1]
      BY <1>3, <2>1
    <3>. QED
      BY <3>1, <2>1 DEF Shape
  <2>. QED
    BY <2>1
<1>6. \A p \in 1..Len(r) : r[p] \notin Fronts /\ NodeFits(r[p])
  <2>1. ASSUME NEW p \in 1..Len(r) PROVE r[p] \notin Fronts /\ NodeFits(r[p])
    <3>1. p + 1 \in 1..Len(t) /\ p + 1 > 1 /\ r[p] = t[p + 1]
      BY <1>3
    <3>. QED
      BY <3>1 DEF Shape
  <2>. QED
    BY <2>1
<1>7. ASSUME HitOrAct(t[1]) PROVE Calm(r)
  <2>1. ASSUME NEW p \in 1..Len(r) PROVE r[p] \notin Acts
    <3>1. p + 1 \in 1..Len(t) /\ 1 < p + 1 /\ r[p] = t[p + 1]
      BY <1>3
    <3>. QED
      BY <3>1, <1>1, <1>7 DEF Shape
  <2>. QED
    BY <2>1 DEF Calm
<1>8. ASSUME Needs(t[1]) PROVE r # <<>> /\ Mate(t[1], Head(r))
  <2>1. 1 + 1 \in 1..Len(t) /\ Mate(t[1], t[1 + 1])
    BY <1>1, <1>8 DEF Shape
  <2>2. 1 \in 1..Len(r) /\ r[1] = t[1 + 1]
    BY <2>1, <1>3
  <2>. QED
    BY <2>1, <2>2
<1>9. t[1] \in Items /\ NodeFits(t[1])
  BY <1>1 DEF Shape
<1>. QED
  BY <1>1, <1>2, <1>4, <1>5, <1>6, <1>7, <1>8, <1>9 DEF Shape, Inner

\* The elements of a list with x in front of it.
LEMMA PushAt ==
    ASSUME NEW S, NEW x \in Seq(S), NEW r \in Seq(S), NEW u, u = x \o r
    PROVE  /\ u \in Seq(S) /\ Len(u) = Len(x) + Len(r) /\ Len(x) \in Nat /\ Len(r) \in Nat
           /\ \A p \in 1..Len(x) : p \in 1..Len(u) /\ u[p] = x[p]
           /\ \A p \in 1..Len(r) : p + Len(x) \in 1..Len(u) /\ u[p + Len(x)] = r[p]
           /\ \A p \in 1..Len(u) : \/ p \in 1..Len(x) /\ u[p] = x[p]
                                   \/ p > Len(x) /\ p - Len(x) \in 1..Len(r) /\ u[p] = r[p - Len(x)]
<1>1. Len(x) \in Nat /\ Len(r) \in Nat /\ u \in Seq(S) /\ Len(u) = Len(x) + Len(r)
  BY ConcatProperties
<1>2. \A p \in 1..Len(x) + Len(r) : u[p] = IF p <= Len(x) THEN x[p] ELSE r[p - Len(x)]
  BY ConcatProperties
<1>3. \A p \in 1..Len(r) : p + Len(x) \in 1..Len(u) /\ u[p + Len(x)] = r[p]
  <2>1. ASSUME NEW p \in 1..Len(r) PROVE p + Len(x) \in 1..Len(u) /\ u[p + Len(x)] = r[p]
    <3>1. p + Len(x) \in 1..Len(x) + Len(r) /\ ~(p + Len(x) <= Len(x)) /\ (p + Len(x)) - Len(x) = p
      BY <1>1
    <3>. QED
      BY <3>1, <1>1, <1>2
  <2>. QED
    BY <2>1
<1>4. \A p \in 1..Len(u) : \/ p \in 1..Len(x) /\ u[p] = x[p]
                           \/ p > Len(x) /\ p - Len(x) \in 1..Len(r) /\ u[p] = r[p - Len(x)]
  BY <1>1, <1>2
<1>. QED
  BY <1>1, <1>2, <1>3, <1>4

\* A list with one more item in front.
LEMMA ConsShape ==
    ASSUME NEW r, Shape(r), Inner(r), NEW e \in Items, NodeFits(e),
           Needs(e) => r # <<>> /\ Mate(e, Head(r)), HitOrAct(e) => Calm(r)
    PROVE  /\ Shape(<<e>> \o r)
           /\ <<e>> \o r # <<>> /\ Head(<<e>> \o r) = e
           /\ e \notin Fronts => Inner(<<e>> \o r)
           /\ e \notin Acts /\ Calm(r) => Calm(<<e>> \o r)
           /\ e \in Acts => ~Calm(<<e>> \o r)
           /\ ~Calm(r) => ~Calm(<<e>> \o r)
           /\ Calm(r) => Only(<<e>> \o r, e)
           /\ \A f : e \notin Acts /\ Only(r, f) => Only(<<e>> \o r, f)
           /\ e.k \notin FocusPieces /\ NoPiece(r) => NoPiece(<<e>> \o r)
<1>1. r \in Seq(Items) /\ <<e>> \in Seq(Items) /\ Len(<<e>>) = 1 /\ <<e>>[1] = e /\ Len(r) \in Nat
  BY DEF Shape
<1>2. PICK u : u = <<e>> \o r
  OBVIOUS
<1>3. /\ u \in Seq(Items) /\ Len(u) = Len(r) + 1 /\ Len(u) \in Nat /\ 1 \in 1..Len(u) /\ u[1] = e
      /\ \A p \in 1..Len(r) : p + 1 \in 1..Len(u) /\ u[p + 1] = r[p]
      /\ \A p \in 1..Len(u) : p = 1 \/ (p > 1 /\ p - 1 \in 1..Len(r) /\ u[p] = r[p - 1])
  <2>1. /\ u \in Seq(Items) /\ Len(u) = 1 + Len(r)
        /\ \A p \in 1..1 : u[p] = <<e>>[p]
        /\ \A p \in 1..Len(r) : p + 1 \in 1..Len(u) /\ u[p + 1] = r[p]
        /\ \A p \in 1..Len(u) : \/ p \in 1..1
                                \/ p > 1 /\ p - 1 \in 1..Len(r) /\ u[p] = r[p - 1]
    BY <1>1, <1>2, PushAt
  <2>. QED
    BY <2>1, <1>1
<1>4. u # <<>> /\ Head(u) = e
  BY <1>3
<1>5. \A p \in 1..Len(u) : Needs(u[p]) => p + 1 \in 1..Len(u) /\ Mate(u[p], u[p + 1])
  <2>1. ASSUME NEW p \in 1..Len(u), Needs(u[p]), p = 1 PROVE p + 1 \in 1..Len(u) /\ Mate(u[p], u[p + 1])
    <3>1. r # <<>> /\ Mate(e, Head(r)) /\ 1 \in 1..Len(r) /\ Head(r) = r[1]
      BY <2>1, <1>1, <1>3
    <3>2. u[1 + 1] = r[1] /\ 1 + 1 \in 1..Len(u)
      BY <3>1, <1>3
    <3>. QED
      BY <2>1, <3>1, <3>2, <1>3
  <2>2. ASSUME NEW p \in 1..Len(u), Needs(u[p]), p # 1 PROVE p + 1 \in 1..Len(u) /\ Mate(u[p], u[p + 1])
    <3>1. PICK q \in 1..Len(r) : q = p - 1 /\ u[p] = r[q]
      BY <2>2, <1>3
    <3>2. q + 1 \in 1..Len(r) /\ Mate(r[q], r[q + 1])
      BY <3>1, <2>2 DEF Shape
    <3>3. PICK z \in 1..Len(r) : z = q + 1
      BY <3>2
    <3>4. z + 1 \in 1..Len(u) /\ u[z + 1] = r[z] /\ z = p
      BY <3>1, <3>3, <1>3
    <3>. QED
      BY <3>1, <3>2, <3>3, <3>4
  <2>. QED
    BY <2>1, <2>2
<1>6. \A p, q \in 1..Len(u) : p < q /\ HitOrAct(u[p]) => u[q] \notin Acts
  <2>1. ASSUME NEW p \in 1..Len(u), NEW q \in 1..Len(u), p < q, HitOrAct(u[p]) PROVE u[q] \notin Acts
    <3>1. q - 1 \in 1..Len(r) /\ u[q] = r[q - 1]
      BY <2>1, <1>3
    <3>2. CASE p = 1
      BY <3>1, <3>2, <2>1, <1>3 DEF Calm
    <3>3. CASE p # 1
      <4>1. p - 1 \in 1..Len(r) /\ u[p] = r[p - 1] /\ p - 1 < q - 1
        BY <3>3, <1>3, <2>1
      <4>. QED
        BY <4>1, <3>1, <2>1 DEF Shape
    <3>. QED
      BY <3>2, <3>3
  <2>. QED
    BY <2>1
<1>7. \A p \in 1..Len(u) : (p > 1 => u[p] \notin Fronts) /\ NodeFits(u[p])
  <2>1. ASSUME NEW p \in 1..Len(u), p # 1 PROVE u[p] \notin Fronts /\ NodeFits(u[p])
    <3>1. p - 1 \in 1..Len(r) /\ u[p] = r[p - 1]
      BY <2>1, <1>3
    <3>. QED
      BY <3>1 DEF Shape, Inner
  <2>. QED
    BY <2>1, <1>3
<1>8. Shape(u)
  BY <1>3, <1>5, <1>6, <1>7 DEF Shape
<1>9. /\ e \notin Fronts => Inner(u)
      /\ e \notin Acts /\ Calm(r) => Calm(u)
      /\ e.k \notin FocusPieces /\ NoPiece(r) => NoPiece(u)
  BY <1>3 DEF Inner, Calm, NoPiece
<1>10. /\ e \in Acts => ~Calm(u)
       /\ ~Calm(r) => ~Calm(u)
  BY <1>3 DEF Calm
<1>11. Calm(r) => Only(u, e)
  BY <1>3 DEF Calm, Only
<1>12. ASSUME NEW f, e \notin Acts, Only(r, f) PROVE Only(u, f)
  BY <1>3, <1>12 DEF Only
<1>. QED
  BY <1>2, <1>4, <1>8, <1>9, <1>10, <1>11, <1>12

\* An empty list.
LEMMA EmptyShape == Shape(<<>>) /\ Inner(<<>>) /\ Calm(<<>>) /\ NoPiece(<<>>) /\ (\A f : Only(<<>>, f))
BY DEF Shape, Inner, Calm, NoPiece, Only

\* An item about which nothing is said.
LEMMA PlainFacts ==
    ASSUME NEW e \in Plain
    PROVE  /\ e \in Items /\ e \notin Fronts /\ e \notin Acts /\ ~HitOrAct(e) /\ ~Needs(e) /\ NodeFits(e)
           /\ e.k \notin FocusPieces
<1>1. e \in Items /\ (e.k \in PlainKinds \/ (e.k = "drop" /\ e.b = "file"))
  BY DEF Plain
<1>2. e \notin Fronts
  BY <1>1 DEF PlainKinds, Fronts
<1>3. e \notin Acts /\ ~HitOrAct(e)
  BY <1>1 DEF PlainKinds, Acts, ActKinds, HitOrAct
<1>4. ~Needs(e) /\ NodeFits(e)
  BY <1>1 DEF PlainKinds, Needs, NodeFits
<1>5. e.k \notin FocusPieces
  BY <1>1 DEF PlainKinds, FocusPieces
<1>. QED
  BY <1>1, <1>2, <1>3, <1>4, <1>5

\* A list with plain items in front.
LEMMA PlainShape ==
    ASSUME NEW r, Shape(r), Inner(r), NEW x \in Seq(Plain)
    PROVE  /\ Shape(x \o r) /\ Inner(x \o r)
           /\ Calm(x \o r) <=> Calm(r)
           /\ \A f : Only(r, f) => Only(x \o r, f)
           /\ NoPiece(r) => NoPiece(x \o r)
           /\ \A p \in 1..Len(x \o r) : (x \o r)[p] \in Plain \/ \E q \in 1..Len(r) : (x \o r)[p] = r[q]
<1>1. r \in Seq(Items) /\ x \in Seq(Items) /\ Len(x) \in Nat /\ \A p \in 1..Len(x) : x[p] \in Plain
  <2>1. Plain \subseteq Items
    BY DEF Plain
  <2>. QED
    BY <2>1, SeqMonotonic, ElementOfSeq DEF Shape
<1>2. PICK u : u = x \o r
  OBVIOUS
<1>3. PICK n \in Nat : n = Len(x)
  BY <1>1
<1>4. /\ u \in Seq(Items) /\ Len(u) \in Nat /\ Len(r) \in Nat
      /\ \A p \in 1..n : u[p] = x[p]
      /\ \A p \in 1..Len(r) : p + n \in 1..Len(u) /\ u[p + n] = r[p]
      /\ \A p \in 1..Len(u) : p \in 1..n \/ (p > n /\ p - n \in 1..Len(r) /\ u[p] = r[p - n])
  <2>1. /\ u \in Seq(Items) /\ Len(u) = Len(x) + Len(r) /\ Len(x) \in Nat /\ Len(r) \in Nat
        /\ \A p \in 1..Len(x) : p \in 1..Len(u) /\ u[p] = x[p]
        /\ \A p \in 1..Len(r) : p + Len(x) \in 1..Len(u) /\ u[p + Len(x)] = r[p]
        /\ \A p \in 1..Len(u) : \/ p \in 1..Len(x) /\ u[p] = x[p]
                                \/ p > Len(x) /\ p - Len(x) \in 1..Len(r) /\ u[p] = r[p - Len(x)]
    BY <1>1, <1>2, PushAt
  <2>. QED
    BY <2>1, <1>3
<1>5. \A p \in 1..n : u[p] \in Plain
  BY <1>1, <1>3, <1>4
<1>6. \A p \in 1..Len(u) : Needs(u[p]) => p + 1 \in 1..Len(u) /\ Mate(u[p], u[p + 1])
  <2>1. ASSUME NEW p \in 1..Len(u), Needs(u[p]) PROVE p + 1 \in 1..Len(u) /\ Mate(u[p], u[p + 1])
    <3>1. PICK q \in 1..Len(r) : q = p - n /\ u[p] = r[q]
      BY <2>1, <1>4, <1>5, PlainFacts
    <3>2. q + 1 \in 1..Len(r) /\ Mate(r[q], r[q + 1])
      BY <3>1, <2>1 DEF Shape
    <3>3. PICK z \in 1..Len(r) : z = q + 1
      BY <3>2
    <3>4. z + n \in 1..Len(u) /\ u[z + n] = r[z] /\ z + n = p + 1
      BY <3>1, <3>3, <1>4
    <3>. QED
      BY <3>1, <3>2, <3>3, <3>4
  <2>. QED
    BY <2>1
<1>7. \A p, q \in 1..Len(u) : p < q /\ HitOrAct(u[p]) => u[q] \notin Acts
  <2>1. ASSUME NEW p \in 1..Len(u), NEW q \in 1..Len(u), p < q, HitOrAct(u[p]) PROVE u[q] \notin Acts
    <3>1. p > n /\ p - n \in 1..Len(r) /\ u[p] = r[p - n]
      BY <2>1, <1>4, <1>5, PlainFacts
    <3>2. q > n /\ p - n < q - n
      BY <3>1, <2>1, <1>4
    <3>3. q - n \in 1..Len(r) /\ u[q] = r[q - n]
      BY <3>2, <2>1, <1>4
    <3>. QED
      BY <3>1, <3>2, <3>3, <2>1 DEF Shape
  <2>. QED
    BY <2>1
<1>8. \A p \in 1..Len(u) : u[p] \notin Fronts /\ NodeFits(u[p])
  <2>1. ASSUME NEW p \in 1..Len(u) PROVE u[p] \notin Fronts /\ NodeFits(u[p])
    <3>1. CASE p \in 1..n
      BY <3>1, <1>5, PlainFacts
    <3>2. CASE p - n \in 1..Len(r) /\ u[p] = r[p - n]
      BY <3>2 DEF Shape, Inner
    <3>. QED
      BY <3>1, <3>2, <1>4
  <2>. QED
    BY <2>1
<1>9. Shape(u) /\ Inner(u)
  BY <1>4, <1>6, <1>7, <1>8 DEF Shape, Inner
<1>10. Calm(r) => Calm(u)
  BY <1>4, <1>5, PlainFacts DEF Calm
<1>11. Calm(u) => Calm(r)
  BY <1>4 DEF Calm
<1>12. ASSUME NEW f, Only(r, f) PROVE Only(u, f)
  BY <1>4, <1>5, <1>12, PlainFacts DEF Only
<1>13. NoPiece(r) => NoPiece(u)
  BY <1>4, <1>5, PlainFacts DEF NoPiece
<1>14. \A p \in 1..Len(u) : u[p] \in Plain \/ \E q \in 1..Len(r) : u[p] = r[q]
  BY <1>4, <1>5
<1>. QED
  BY <1>2, <1>9, <1>10, <1>11, <1>12, <1>13, <1>14

\* Items are put together from a kind, a node and a detail.
Details == {"-", "left", "right", "file", "Tab", "no"}
\* The parts of an item.
LEMMA ItemFacts ==
    ASSUME NEW k \in Events \cup Pieces, NEW n \in MaybeNode, NEW b \in Details
    PROVE  /\ Item(k, n, b) \in Items /\ Item(k, n, b).k = k /\ Item(k, n, b).n = n /\ Item(k, n, b).b = b
           /\ Do(k, n) \in Items /\ Do(k, n).k = k /\ Do(k, n).n = n /\ Do(k, n).b = "-"
BY DEF Item, Do, Items, Details

\* An item has a kind, a node and a detail.
LEMMA ItemParts ==
    ASSUME NEW e \in Items
    PROVE  e.k \in Events \cup Pieces /\ e.n \in MaybeNode /\ e.b \in Details
BY DEF Items, Details

\* The kinds of items.
LEMMA KindFacts ==
    /\ PlainKinds \subseteq Events \cup Pieces
    /\ ActKinds \subseteq Events \cup Pieces
    /\ FocusPieces \subseteq Pieces
    /\ {"click", "dragend", "change", "call", "blur", "focus", "drop", "edit", "dndMove", "dndHit", "range"}
         \subseteq Events \cup Pieces
<1>1. PlainKinds \subseteq Events \cup Pieces
  BY DEF PlainKinds, Events, Pieces
<1>2. ActKinds \subseteq Events \cup Pieces
  BY DEF ActKinds, Events, Pieces
<1>3. FocusPieces \subseteq Pieces
  BY DEF Pieces
<1>4. {"click", "dragend", "change", "call", "blur", "focus", "drop", "edit", "dndMove", "dndHit", "range"}
         \subseteq Events \cup Pieces
  BY DEF Events, Pieces
<1>. QED
  BY <1>1, <1>2, <1>3, <1>4

\* Plain items.
LEMMA PlainIs ==
    ASSUME NEW k \in PlainKinds, NEW n \in MaybeNode, NEW b \in Details
    PROVE  Do(k, n) \in Plain /\ Item(k, n, b) \in Plain
BY ItemFacts, KindFacts DEF Plain

\* The parts of an item.
LEMMA DoParts ==
    /\ \A k, n : Do(k, n).k = k /\ Do(k, n).n = n /\ Do(k, n).b = "-"
    /\ \A k, n, b : Item(k, n, b).k = k /\ Item(k, n, b).n = n /\ Item(k, n, b).b = b
BY DEF Do, Item

-----------------------------------------------------------------------------
(* What the steps do to the list. *)

SoundInv == Shape(todo) /\ DomTypes /\ KeptNodesLive /\ dragRange \in Ranges \cup {NoNode}

\* Items that are done without touching the drag or the focus.
Passive(e) == e \in Items /\ e \notin Acts /\ e \notin Fronts /\ e.k \notin FocusPieces

\* The list u comes from t by a step that is not about the drag; what is in front of u and
\* is only ever in front is one of the kinds K.
Passes(t, u, K) ==
  /\ Shape(u)
  /\ Calm(u) => Calm(t)
  /\ \A p \in 1..Len(u) : u[p] \in Acts => \E q \in 1..Len(t) : t[q] = u[p]
  /\ u # <<>> /\ Head(u) \in Fronts => Head(u).k \in K

\* The elements of a list are its head and those of its tail.
LEMMA TailAt ==
    ASSUME NEW S, NEW t \in Seq(S), t # <<>>
    PROVE  /\ \A q \in 1..Len(Tail(t)) : \E p \in 1..Len(t) : t[p] = Tail(t)[q]
           /\ \A p \in 1..Len(t) : t[p] = Head(t) \/ \E q \in 1..Len(Tail(t)) : t[p] = Tail(t)[q]
           /\ 1 \in 1..Len(t) /\ t[1] = Head(t)
<1>1. PICK r \in Seq(S) : r = Tail(t)
  BY HeadTailProperties
<1>2. /\ Len(t) \in Nat /\ Len(r) \in Nat /\ Len(r) = Len(t) - 1 /\ Head(t) = t[1] /\ 1 \in 1..Len(t)
      /\ \A q \in 1..Len(r) : r[q] = t[q + 1]
  BY <1>1, HeadTailProperties
<1>3. ASSUME NEW q \in 1..Len(r) PROVE \E p \in 1..Len(t) : t[p] = r[q]
  <2>1. q + 1 \in 1..Len(t) /\ t[q + 1] = r[q]
    BY <1>2
  <2>. QED
    BY <2>1
<1>4. ASSUME NEW p \in 1..Len(t), p # 1 PROVE \E q \in 1..Len(r) : t[p] = r[q]
  <2>1. PICK q \in 1..Len(r) : q = p - 1
    BY <1>2, <1>4
  <2>2. r[q] = t[q + 1] /\ q + 1 = p
    BY <1>2, <2>1
  <2>. QED
    BY <2>1, <2>2
<1>. QED
  BY <1>1, <1>2, <1>3, <1>4

\* The first item is done.
LEMMA PassesTail ==
    ASSUME NEW t, Shape(t), t # <<>>, Head(t) \notin Acts
    PROVE  Passes(t, Tail(t), {})
<1>1. t \in Seq(Items)
  BY DEF Shape
<1>2. Shape(Tail(t)) /\ Inner(Tail(t)) /\ Tail(t) \in Seq(Items)
  BY <1>1, TailShape DEF Shape
<1>3. Calm(Tail(t)) => Calm(t)
  BY <1>1, TailAt DEF Calm
<1>4. Tail(t) # <<>> => Head(Tail(t)) \notin Fronts
  <2>1. PICK r \in Seq(Items) : r = Tail(t)
    BY <1>2
  <2>2. r # <<>> => 1 \in 1..Len(r) /\ Head(r) = r[1]
    OBVIOUS
  <2>. QED
    BY <2>1, <2>2, <1>2 DEF Inner
<1>. QED
  BY <1>1, <1>2, <1>3, <1>4, TailAt DEF Passes

\* Passing from one list to another and on.
LEMMA PassesOn ==
    ASSUME NEW t, NEW u, NEW w, NEW K, NEW M, Passes(t, u, K), Passes(u, w, M)
    PROVE  Passes(t, w, M)
<1>1. \A p \in 1..Len(w) : w[p] \in Acts => \E q \in 1..Len(t) : t[q] = w[p]
  <2>1. ASSUME NEW p \in 1..Len(w), w[p] \in Acts PROVE \E q \in 1..Len(t) : t[q] = w[p]
    <3>1. PICK z \in 1..Len(u) : u[z] = w[p]
      BY <2>1 DEF Passes
    <3>. QED
      BY <3>1, <2>1 DEF Passes
  <2>. QED
    BY <2>1
<1>. QED
  BY <1>1 DEF Passes

\* A list with nothing in front that must be in front.
LEMMA InnerPasses ==
    ASSUME NEW t, NEW u, Passes(t, u, {})
    PROVE  Shape(u) /\ Inner(u)
<1>1. u \in Seq(Items) /\ Len(u) \in Nat /\ Shape(u)
  BY DEF Passes, Shape
<1>2. \A p \in 1..Len(u) : p > 1 => u[p] \notin Fronts
  BY <1>1 DEF Shape
<1>3. \A p \in 1..Len(u) : p = 1 => u[p] \notin Fronts
  <2>1. 1 \in 1..Len(u) => u # <<>> /\ Head(u) = u[1]
    BY <1>1
  <2>. QED
    BY <2>1 DEF Passes
<1>. QED
  BY <1>1, <1>2, <1>3 DEF Inner

\* Plain items in front.
LEMMA PassesPlain ==
    ASSUME NEW t, NEW u, Passes(t, u, {}), NEW x \in Seq(Plain)
    PROVE  Passes(t, x \o u, {})
<1>1. Shape(u) /\ Inner(u)
  BY InnerPasses
<1>2. PICK w : w = x \o u
  OBVIOUS
<1>3. /\ Shape(w) /\ Inner(w) /\ (Calm(w) <=> Calm(u))
      /\ \A p \in 1..Len(w) : w[p] \in Plain \/ \E q \in 1..Len(u) : w[p] = u[q]
  BY <1>1, <1>2, PlainShape
<1>4. \A p \in 1..Len(w) : w[p] \in Acts => \E q \in 1..Len(t) : t[q] = w[p]
  <2>1. ASSUME NEW p \in 1..Len(w), w[p] \in Acts PROVE \E q \in 1..Len(t) : t[q] = w[p]
    <3>1. PICK z \in 1..Len(u) : u[z] = w[p]
      BY <2>1, <1>3, PlainFacts
    <3>. QED
      BY <3>1, <2>1 DEF Passes
  <2>. QED
    BY <2>1
<1>5. w # <<>> => Head(w) \notin Fronts
  <2>1. w \in Seq(Items)
    BY <1>3 DEF Shape
  <2>2. w # <<>> => 1 \in 1..Len(w) /\ Head(w) = w[1]
    BY <2>1
  <2>. QED
    BY <2>2, <1>3 DEF Inner
<1>. QED
  BY <1>2, <1>3, <1>4, <1>5 DEF Passes

\* Another item in front.
LEMMA PassesCons ==
    ASSUME NEW t, NEW u, Passes(t, u, {}), NEW e \in Items, NodeFits(e), ~HitOrAct(e),
           Needs(e) => u # <<>> /\ Mate(e, Head(u)), NEW K, e \in Fronts => e.k \in K
    PROVE  /\ Passes(t, <<e>> \o u, K)
           /\ <<e>> \o u # <<>> /\ Head(<<e>> \o u) = e
<1>1. Shape(u) /\ Inner(u)
  BY InnerPasses
<1>2. PICK w : w = <<e>> \o u
  OBVIOUS
<1>3. e \notin Acts
  BY DEF HitOrAct
<1>4. /\ Shape(w) /\ w # <<>> /\ Head(w) = e /\ (~Calm(u) => ~Calm(w))
  BY <1>1, <1>2, ConsShape
<1>5. \A p \in 1..Len(w) : w[p] \in Acts => \E q \in 1..Len(t) : t[q] = w[p]
  <2>1. ASSUME NEW p \in 1..Len(w), w[p] \in Acts PROVE \E q \in 1..Len(t) : t[q] = w[p]
    <3>0. u \in Seq(Items) /\ <<e>> \in Seq(Items) /\ Len(<<e>>) = 1 /\ <<e>>[1] = e
      BY <1>1 DEF Shape
    <3>1. \E z \in 1..Len(u) : u[z] = w[p]
      <4>1. \/ p \in 1..Len(<<e>>) /\ w[p] = <<e>>[p]
            \/ p > Len(<<e>>) /\ p - Len(<<e>>) \in 1..Len(u) /\ w[p] = u[p - Len(<<e>>)]
        BY <3>0, <1>2, PushAt
      <4>. QED
        BY <4>1, <3>0, <2>1, <1>3
    <3>2. PICK z \in 1..Len(u) : u[z] = w[p]
      BY <3>1
    <3>. QED
      BY <3>2, <2>1 DEF Passes
  <2>. QED
    BY <2>1
<1>. QED
  BY <1>2, <1>4, <1>5 DEF Passes

\* Kinds of passive items.
LEMMA PassiveIs ==
    ASSUME NEW e \in Items, e.k \in PlainKinds \cup {"range", "edit", "dndMove"}
    PROVE  Passive(e)
<1>1. e \notin Acts
  BY DEF Acts, ActKinds, PlainKinds
<1>2. e \notin Fronts /\ e.k \notin FocusPieces
  BY DEF Fronts, PlainKinds, FocusPieces
<1>. QED
  BY <1>1, <1>2 DEF Passive

\* The list u comes from the rest of t, with plain items in front of it.
LEMMA QuietPush ==
    ASSUME NEW t, Shape(t), t # <<>>, Head(t) \notin Acts, NEW x \in Seq(Plain)
    PROVE  Passes(t, x \o Tail(t), {}) /\ (NoPiece(Tail(t)) => NoPiece(x \o Tail(t)))
<1>1. Passes(t, Tail(t), {}) /\ Shape(Tail(t)) /\ Inner(Tail(t))
  BY PassesTail, TailShape
<1>. QED
  BY <1>1, PassesPlain, PlainShape

\* The second item is left out too.
LEMMA QuietSkip ==
    ASSUME NEW t, Shape(t), t # <<>>, Head(t) \notin Acts, Tail(t) # <<>>, Head(Tail(t)) \notin Acts,
           NEW x \in Seq(Plain)
    PROVE  Passes(t, x \o Tail(Tail(t)), {}) /\ (NoPiece(Tail(t)) => NoPiece(x \o Tail(Tail(t))))
<1>1. PICK r : r = Tail(t)
  OBVIOUS
<1>2. Passes(t, r, {}) /\ Shape(r) /\ Inner(r) /\ r # <<>> /\ Head(r) \notin Acts
  BY <1>1, PassesTail, TailShape
<1>3. Passes(r, Tail(r), {}) /\ Shape(Tail(r)) /\ Inner(Tail(r))
  BY <1>2, PassesTail, TailShape
<1>4. Passes(t, Tail(r), {})
  BY <1>2, <1>3, PassesOn
<1>5. NoPiece(r) => NoPiece(Tail(r))
  <2>1. r \in Seq(Items)
    BY <1>2 DEF Shape
  <2>. QED
    BY <2>1, <1>2, TailAt DEF NoPiece
<1>. QED
  BY <1>1, <1>3, <1>4, <1>5, PassesPlain, PlainShape

\* Steps between two dispatches that touch neither the drag nor the focus.
QuietStep == RangeFollows \/ Hover \/ HoverSet \/ Touch \/ RangeDone \/ Clicked \/ Unclick \/ Unpress
             \/ Suppress \/ Edit \/ DndMove

\* The node of the first item.
LEMMA TopFacts ==
    ASSUME SoundInv, todo # <<>>
    PROVE  /\ Top \in Items /\ Top.n \in MaybeNode /\ Top.b \in Details
           /\ Shape(Tail(todo)) /\ Inner(Tail(todo)) /\ Tail(todo) \in Seq(Items)
           /\ todo \in Seq(Items) /\ 1 \in 1..Len(todo) /\ todo[1] = Top
<1>1. Shape(todo) /\ todo \in Seq(Items)
  BY DEF SoundInv, Shape
<1>2. Top \in Items /\ Shape(Tail(todo)) /\ Inner(Tail(todo))
  BY <1>1, TailShape DEF Top
<1>. QED
  BY <1>1, <1>2, ItemParts, TailAt DEF Top, Shape

\* They leave a list in order, with the same items about the drag, and add no piece of the focus.
LEMMA QuietSteps ==
    ASSUME SoundInv, QuietStep
    PROVE  /\ todo # <<>> /\ Passive(Top) /\ Passes(todo, todo', {})
           /\ NoPiece(Tail(todo)) => NoPiece(todo')
<1>1. todo # <<>> /\ Top.k \in PlainKinds \cup {"range", "edit", "dndMove"}
  BY DEF QuietStep, RangeFollows, Hover, HoverSet, Touch, RangeDone, Clicked, Unclick, Unpress,
         Suppress, Edit, DndMove, Step, At, Busy, PlainKinds
<1>2. Top \in Items /\ Top.n \in MaybeNode /\ Shape(todo)
  BY <1>1, TopFacts DEF SoundInv
<1>3. Passive(Top)
  BY <1>1, <1>2, PassiveIs
<1>4. Head(todo) \notin Acts /\ DomTypes /\ Head(todo) = Top
  BY <1>3 DEF Passive, Top, SoundInv
<1>5. NoNode \in MaybeNode
  BY DEF MaybeNode
<1>6. SUFFICES \/ \E x \in Seq(Plain) : todo' = x \o Tail(todo)
               \/ /\ Tail(todo) # <<>> /\ Head(Tail(todo)) \notin Acts
                  /\ \E x \in Seq(Plain) : todo' = x \o Tail(Tail(todo))
  BY <1>1, <1>2, <1>3, <1>4, QuietPush, QuietSkip
<1>7. CASE HoverSet \/ Touch \/ RangeDone \/ Unclick \/ Unpress \/ Suppress
  <2>1. todo' = <<>> \o Tail(todo)
    BY <1>7 DEF HoverSet, Touch, RangeDone, Unclick, Unpress, Suppress, Then
  <2>2. <<>> \in Seq(Plain)
    OBVIOUS
  <2>. QED
    BY <2>1, <2>2
<1>8. CASE RangeFollows
  <2>1. PICK e : e = Do("input", Top.n)
    OBVIOUS
  <2>2. e \in Plain
    BY <2>1, <1>2, PlainIs DEF PlainKinds, Details
  <2>3. <<>> \in Seq(Plain) /\ <<e>> \o <<>> \in Seq(Plain)
    BY <2>2
  <2>4. todo' = <<>> \o Tail(todo) \/ todo' = (<<e>> \o <<>>) \o Tail(todo)
    BY <1>8, <2>1 DEF RangeFollows, RangeMoves, Then
  <2>. QED
    BY <2>3, <2>4
<1>9. CASE Clicked
  <2>1. PICK e, f : e = Do("dblclick", Top.n) /\ f = Do("unclick", NoNode)
    OBVIOUS
  <2>2. e \in Plain /\ f \in Plain
    BY <2>1, <1>2, <1>5, PlainIs DEF PlainKinds, Details
  <2>3. <<>> \in Seq(Plain) /\ <<e, f>> \in Seq(Plain)
    BY <2>2
  <2>4. todo' = <<>> \o Tail(todo) \/ todo' = <<e, f>> \o Tail(todo)
    BY <1>9, <2>1 DEF Clicked, Then
  <2>. QED
    BY <2>3, <2>4
<1>10. CASE Hover
  <2>0. PICK t \in MaybeNode : t = Hit
    BY <1>4, HitFacts
  <2>1. PICK a, b, c, d, e, f, g :
           /\ a = Do("mouseout", hover) /\ b = Do("mouseleave", hover) /\ c = Do("touch", hover)
           /\ d = Do("mouseover", t) /\ e = Do("mouseenter", t) /\ f = Do("hoverSet", t)
           /\ g = Do("mousemove", Under)
    OBVIOUS
  <2>2. hover \in MaybeNode /\ Under \in MaybeNode
    BY <1>4, HitFacts DEF DomTypes, MaybeNode
  <2>3. a \in Plain /\ b \in Plain /\ c \in Plain /\ d \in Plain /\ e \in Plain /\ f \in Plain /\ g \in Plain
    BY <2>0, <2>1, <2>2, PlainIs DEF PlainKinds, Details
  <2>4. PICK x : x = (IF t = hover THEN <<>>
                      ELSE (IF hover = NoNode THEN <<>> ELSE <<a, b, c>>)
                           \o (IF t = NoNode THEN <<>> ELSE <<d, e>>) \o <<f>>) \o <<g>>
    OBVIOUS
  <2>5. x \in Seq(Plain)
    <3>1. <<>> \in Seq(Plain) /\ <<a, b, c>> \in Seq(Plain) /\ <<d, e>> \in Seq(Plain)
          /\ <<f>> \in Seq(Plain) /\ <<g>> \in Seq(Plain)
      BY <2>3
    <3>. QED
      BY <3>1, <2>4, ConcatProperties
  <2>6. todo' = x \o Tail(todo)
    BY <1>10, <2>0, <2>1, <2>4 DEF Hover, Then
  <2>. QED
    BY <2>5, <2>6
<1>11. CASE DndMove
  <2>1. Top.k = "dndMove"
    BY <1>11 DEF DndMove, Step, At
  <2>2. Tail(todo) # <<>> /\ Head(Tail(todo)).k = "dndHit"
    BY <2>1, <1>1, <1>2, <1>4, TailShape DEF Needs, Mate
  <2>3. Head(Tail(todo)) \notin Acts
    BY <2>2 DEF Acts, ActKinds
  <2>4. Tail(Tail(todo)) \in Seq(Items)
    BY <2>2, <1>1, TopFacts, HeadTailProperties
  <2>5. PICK e : e = Do("drag", dnd.source)
    OBVIOUS
  <2>6. e \in Plain
    <3>1. dnd.source \in MaybeNode
      BY <1>4 DEF DomTypes
    <3>. QED
      BY <3>1, <2>5, PlainIs DEF PlainKinds, Details
  <2>7. <<>> \in Seq(Plain) /\ <<e>> \in Seq(Plain)
    BY <2>6
  <2>8. todo' = <<e>> \o Tail(todo) \/ todo' = Tail(Tail(todo))
    BY <1>11, <2>5 DEF DndMove, Then
  <2>9. Tail(Tail(todo)) = <<>> \o Tail(Tail(todo))
    BY <2>4, ConcatEmptySeq
  <2>. QED
    BY <2>2, <2>3, <2>7, <2>8, <2>9
<1>12. CASE Edit
  <2>1. Top.k = "edit"
    BY <1>12 DEF Edit, Step, At
  <2>2. Tail(todo) # <<>> /\ Head(Tail(todo)).k = "suppress"
    BY <2>1, <1>1, <1>2, <1>4, TailShape DEF Needs, Mate
  <2>3. Head(Tail(todo)) \notin Acts
    BY <2>2 DEF Acts, ActKinds
  <2>4. PICK r \in Seq(Items) : r = Tail(todo)
    BY <1>1, TopFacts
  <2>5. todo[2] = Head(r) /\ Head(r) \in Items
    BY <1>1, <2>2, <2>4, TopFacts, HeadTailProperties
  <2>6. PICK a, b, c : a = Do("input", focus) /\ b = Do("touch", focus) /\ c = [Head(r) EXCEPT !.b = "no"]
    OBVIOUS
  <2>7. a \in Plain /\ b \in Plain
    <3>1. focus \in MaybeNode
      BY <1>4 DEF DomTypes
    <3>. QED
      BY <3>1, <2>6, PlainIs DEF PlainKinds, Details
  <2>8. c \in Plain
    <3>1. c \in Items /\ c.k = Head(r).k
      BY <2>5, <2>6 DEF Items
    <3>. QED
      BY <3>1, <2>2, <2>4 DEF Plain, PlainKinds
  <2>9. <<>> \in Seq(Plain) /\ <<a, b>> \in Seq(Plain) /\ <<c>> \in Seq(Plain)
    BY <2>7, <2>8
  <2>10. \/ todo' = <<a, b>> \o Tail(todo) \/ todo' = <<c>> \o Tail(Tail(todo)) \/ todo' = <<>> \o Tail(todo)
    BY <1>12, <2>5, <2>6 DEF Edit, Then
  <2>. QED
    BY <2>2, <2>3, <2>9, <2>10
<1>. QED
  BY <1>7, <1>8, <1>9, <1>10, <1>11, <1>12 DEF QuietStep

\* Items that may be in front, and focus pieces.
LEMMA FrontIs ==
    ASSUME NEW n \in MaybeNode
    PROVE  /\ \A k \in {"click", "dragend", "change", "call", "blur", "focus", "focusSet", "blurred",
                         "focused", "unsnap", "edit", "dndMove", "dndHit", "range", "drop", "default",
                         "dragstart", "dndReset", "dndStarted", "dragover", "dndOver", "dndAllow",
                         "dndDeny", "dragEnd", "dndDrop", "dndBegin"} :
                Do(k, n) \in Items /\ Do(k, n).k = k /\ Do(k, n).n = n /\ Do(k, n).b = "-"
<1>1. "-" \in Details
  BY DEF Details
<1>2. {"click", "dragend", "change", "call", "blur", "focus", "drop", "edit", "dndMove", "dndHit", "range"}
         \subseteq Events \cup Pieces
  BY KindFacts
<1>3. {"focusSet", "blurred", "focused", "unsnap"} \subseteq Events \cup Pieces
  BY KindFacts DEF FocusPieces
<1>4. {"default", "dragstart", "dndReset", "dndStarted", "dragover", "dndOver", "dndAllow",
       "dndDeny", "dragEnd", "dndDrop", "dndBegin"} \subseteq Events \cup Pieces
  BY KindFacts DEF ActKinds
<1>5. ASSUME NEW k \in {"click", "dragend", "change", "call", "blur", "focus", "focusSet", "blurred",
                         "focused", "unsnap", "edit", "dndMove", "dndHit", "range", "drop", "default",
                         "dragstart", "dndReset", "dndStarted", "dragover", "dndOver", "dndAllow",
                         "dndDeny", "dragEnd", "dndDrop", "dndBegin"}
      PROVE  k \in Events \cup Pieces
  BY <1>2, <1>3, <1>4, <1>5
<1>. QED
  BY <1>1, <1>5, ItemFacts

\* The click that a release leads to.
LEMMA ClickTargetType ==
    ASSUME press \in MaybeNode, NEW t \in MaybeNode
    PROVE  ClickTarget(t) \in MaybeNode
BY DEF ClickTarget, MaybeNode

\* No item is about the drag.
Quiet(t) == \A p \in 1..Len(t) : ~HitOrAct(t[p])

\* What is in front of the items of r is itself in order.
LEMMA ShapeCat ==
    ASSUME NEW x, Shape(x), NEW r, Shape(r), Inner(r), Quiet(x) \/ Calm(r)
    PROVE  /\ Shape(x \o r)
           /\ (Calm(x \o r) <=> Calm(x) /\ Calm(r))
           /\ (NoPiece(x \o r) <=> NoPiece(x) /\ NoPiece(r))
           /\ \A f : Only(x, f) /\ Only(r, f) => Only(x \o r, f)
           /\ x = <<>> => x \o r = r
           /\ x # <<>> => x \o r # <<>> /\ Head(x \o r) = Head(x) 
           /\ Inner(x) => Inner(x \o r)
           /\ \A p \in 1..Len(x \o r) : \/ \E q \in 1..Len(x) : (x \o r)[p] = x[q]
                                        \/ \E q \in 1..Len(r) : (x \o r)[p] = r[q]
<1>1. r \in Seq(Items) /\ x \in Seq(Items) /\ Len(x) \in Nat
  BY DEF Shape
<1>2. PICK u : u = x \o r
  OBVIOUS
<1>3. PICK n \in Nat : n = Len(x)
  BY <1>1
<1>4. /\ u \in Seq(Items) /\ Len(u) \in Nat /\ Len(r) \in Nat
      /\ \A p \in 1..n : p \in 1..Len(u) /\ u[p] = x[p]
      /\ \A p \in 1..Len(r) : p + n \in 1..Len(u) /\ u[p + n] = r[p]
      /\ \A p \in 1..Len(u) : \/ p \in 1..n /\ u[p] = x[p] 
                              \/ p > n /\ p - n \in 1..Len(r) /\ u[p] = r[p - n]
  <2>1. /\ u \in Seq(Items) /\ Len(u) = Len(x) + Len(r) /\ Len(x) \in Nat /\ Len(r) \in Nat
        /\ \A p \in 1..Len(x) : p \in 1..Len(u) /\ u[p] = x[p]
        /\ \A p \in 1..Len(r) : p + Len(x) \in 1..Len(u) /\ u[p + Len(x)] = r[p]
        /\ \A p \in 1..Len(u) : \/ p \in 1..Len(x) /\ u[p] = x[p]
                                \/ p > Len(x) /\ p - Len(x) \in 1..Len(r) /\ u[p] = r[p - Len(x)]
    BY <1>1, <1>2, PushAt
  <2>. QED
    BY <2>1, <1>3
<1>5. \A p \in 1..Len(u) : Needs(u[p]) => p + 1 \in 1..Len(u) /\ Mate(u[p], u[p + 1])
  <2>1. ASSUME NEW p \in 1..Len(u), Needs(u[p]) PROVE p + 1 \in 1..Len(u) /\ Mate(u[p], u[p + 1])
    <3>1. CASE p \in 1..n /\ u[p] = x[p]
      <4>1. p + 1 \in 1..n /\ Mate(x[p], x[p + 1])
        BY <3>1, <2>1, <1>3 DEF Shape
      <4>. QED
        BY <4>1, <3>1, <1>4
    <3>2. CASE p > n /\ p - n \in 1..Len(r) /\ u[p] = r[p - n]
      <4>. p \in Int
        OBVIOUS
      <4>1. PICK q \in 1..Len(r) : q = p - n /\ u[p] = r[q]
        BY <3>2
      <4>2. q + 1 \in 1..Len(r) /\ Mate(r[q], r[q + 1])
        BY <4>1, <2>1 DEF Shape
      <4>3. PICK z \in 1..Len(r) : z = q + 1
        BY <4>2
      <4>4. z + n \in 1..Len(u) /\ u[z + n] = r[z]
        BY <1>4
      <4>5. z + n = p + 1
        BY ONLY <4>1, <4>3, p \in Int, n \in Nat
      <4>. QED
        BY <4>1, <4>2, <4>3, <4>4, <4>5
    <3>. QED
      BY <3>1, <3>2, <1>4
  <2>. QED
    BY <2>1
<1>6. \A p, q \in 1..Len(u) : p < q /\ HitOrAct(u[p]) => u[q] \notin Acts
  <2>1. ASSUME NEW p \in 1..Len(u), NEW q \in 1..Len(u), p < q, HitOrAct(u[p]) PROVE u[q] \notin Acts
    <3>1. CASE p \in 1..n /\ u[p] = x[p]
      <4>1. Calm(r)
        BY <3>1, <2>1, <1>3 DEF Quiet
      <4>2. q \in 1..n => u[q] = x[q]
        BY <1>4
      <4>3. q \in 1..n => u[q] \notin Acts
        BY <4>2, <3>1, <2>1, <1>3 DEF Shape
      <4>. QED
        BY <4>1, <4>3, <1>4 DEF Calm
    <3>2. CASE p > n /\ p - n \in 1..Len(r) /\ u[p] = r[p - n]
      <4>1. q - n \in 1..Len(r) /\ u[q] = r[q - n] /\ p - n < q - n
        BY <3>2, <2>1, <1>4
      <4>. QED
        BY <4>1, <3>2, <2>1 DEF Shape
    <3>. QED
      BY <3>1, <3>2, <1>4
  <2>. QED
    BY <2>1
<1>7. \A p \in 1..Len(u) : (p > 1 => u[p] \notin Fronts) /\ NodeFits(u[p])
  <2>1. ASSUME NEW p \in 1..Len(u) PROVE (p > 1 => u[p] \notin Fronts) /\ NodeFits(u[p])
    <3>1. CASE p \in 1..n /\ u[p] = x[p]
      BY <3>1, <1>3 DEF Shape
    <3>2. CASE p > n /\ p - n \in 1..Len(r) /\ u[p] = r[p - n]
      BY <3>2 DEF Shape, Inner
    <3>. QED
      BY <3>1, <3>2, <1>4
  <2>. QED
    BY <2>1
<1>8. Shape(u)
  BY <1>4, <1>5, <1>6, <1>7 DEF Shape
<1>9. Inner(x) => Inner(u)
  BY <1>3, <1>4 DEF Inner
<1>10. Calm(u) <=> Calm(x) /\ Calm(r)
  <2>1. Calm(u) => Calm(x) /\ Calm(r)
    BY <1>3, <1>4 DEF Calm
  <2>2. Calm(x) /\ Calm(r) => Calm(u)
    BY <1>3, <1>4 DEF Calm
  <2>. QED
    BY <2>1, <2>2
<1>11. NoPiece(u) <=> NoPiece(x) /\ NoPiece(r)
  <2>1. NoPiece(u) => NoPiece(x) /\ NoPiece(r)
    BY <1>3, <1>4 DEF NoPiece
  <2>2. NoPiece(x) /\ NoPiece(r) => NoPiece(u)
    BY <1>3, <1>4 DEF NoPiece
  <2>. QED
    BY <2>1, <2>2
<1>12. ASSUME NEW f, Only(x, f), Only(r, f) PROVE Only(u, f)
  BY <1>3, <1>4, <1>12 DEF Only
<1>13. x = <<>> => u = r
  BY <1>1, <1>2, ConcatEmptySeq
<1>14. ASSUME x # <<>> PROVE u # <<>> /\ Head(u) = Head(x)
  <2>1. 1 \in 1..n /\ Head(x) = x[1]
    BY <1>1, <1>3, <1>14
  <2>2. 1 \in 1..Len(u) /\ u[1] = x[1]
    BY <2>1, <1>4
  <2>. QED
    BY <2>1, <2>2, <1>4
<1>15. \A p \in 1..Len(u) : (\E q \in 1..Len(x) : u[p] = x[q]) \/ (\E q \in 1..Len(r) : u[p] = r[q])
  BY <1>3, <1>4
<1>. QED
  BY <1>2, <1>8, <1>9, <1>10, <1>11, <1>12, <1>13, <1>14, <1>15

\* A list of one item.
LEMMA ShapeOne ==
    ASSUME NEW e \in Items, NodeFits(e), ~Needs(e)
    PROVE  /\ Shape(<<e>>) /\ Only(<<e>>, e) /\ <<e>> # <<>> /\ Head(<<e>>) = e
           /\ (e \notin Acts => Calm(<<e>>)) /\ (e \in Acts => ~Calm(<<e>>))
           /\ (e.k \notin FocusPieces => NoPiece(<<e>>)) /\ (e \notin Fronts => Inner(<<e>>))
           /\ (~HitOrAct(e) => Quiet(<<e>>))
<1>1. <<e>> \in Seq(Items) /\ Len(<<e>>) = 1 /\ <<e>>[1] = e /\ <<e>> # <<>> /\ Head(<<e>>) = e
  OBVIOUS
<1>2. PICK x : x = <<e>>
  OBVIOUS
<1>3. x \in Seq(Items) /\ Len(x) = 1 /\ \A p \in 1..Len(x) : p = 1 /\ x[p] = e
  BY <1>1, <1>2
<1>4. Shape(x)
  BY <1>3 DEF Shape
<1>5. Only(x, e) /\ (e \notin Acts => Calm(x)) /\ (e \in Acts => ~Calm(x))
  BY <1>3 DEF Only, Calm
<1>6. (e.k \notin FocusPieces => NoPiece(x)) /\ (e \notin Fronts => Inner(x)) /\ (~HitOrAct(e) => Quiet(x))
  BY <1>3 DEF NoPiece, Inner, Quiet
<1>. QED
  BY <1>1, <1>2, <1>4, <1>5, <1>6

\* A list of two items.
LEMMA ShapeTwo ==
    ASSUME NEW e \in Items, NodeFits(e), NEW f \in Items, NodeFits(f), ~Needs(f), f \notin Fronts,
           Needs(e) => Mate(e, f), HitOrAct(e) => f \notin Acts
    PROVE  /\ Shape(<<e, f>>) /\ <<e, f>> # <<>> /\ Head(<<e, f>>) = e
           /\ f \notin Acts => Only(<<e, f>>, e)
           /\ e \notin Acts => Only(<<e, f>>, f)
           /\ (e \notin Acts /\ f \notin Acts => Calm(<<e, f>>))
           /\ (e \in Acts \/ f \in Acts => ~Calm(<<e, f>>))
           /\ (e.k \notin FocusPieces /\ f.k \notin FocusPieces => NoPiece(<<e, f>>))
           /\ (e \notin Fronts => Inner(<<e, f>>))
           /\ (~HitOrAct(e) /\ ~HitOrAct(f) => Quiet(<<e, f>>))
<1>1. <<e, f>> \in Seq(Items) /\ Len(<<e, f>>) = 2 /\ <<e, f>>[1] = e /\ <<e, f>>[2] = f
      /\ <<e, f>> # <<>> /\ Head(<<e, f>>) = e
  OBVIOUS
<1>2. PICK x : x = <<e, f>>
  OBVIOUS
<1>3. /\ x \in Seq(Items) /\ Len(x) = 2 /\ x[1] = e /\ x[2] = f /\ 1 \in 1..Len(x) /\ 2 \in 1..Len(x)
      /\ \A p \in 1..Len(x) : p = 1 \/ p = 2
  BY <1>1, <1>2
<1>4. Shape(x)
  <2>1. \A p \in 1..Len(x) : Needs(x[p]) => p + 1 \in 1..Len(x) /\ Mate(x[p], x[p + 1])
    BY <1>3
  <2>2. \A p, q \in 1..Len(x) : p < q /\ HitOrAct(x[p]) => x[q] \notin Acts
    BY <1>3
  <2>. QED
    BY <1>3, <2>1, <2>2 DEF Shape
<1>5. /\ f \notin Acts => Only(x, e)
      /\ e \notin Acts => Only(x, f)
      /\ (e \notin Acts /\ f \notin Acts => Calm(x)) /\ (e \in Acts \/ f \in Acts => ~Calm(x))
  BY <1>3 DEF Only, Calm
<1>6. /\ (e.k \notin FocusPieces /\ f.k \notin FocusPieces => NoPiece(x))
      /\ (e \notin Fronts => Inner(x))
      /\ (~HitOrAct(e) /\ ~HitOrAct(f) => Quiet(x))
  BY <1>3 DEF NoPiece, Inner, Quiet
<1>. QED
  BY <1>1, <1>2, <1>4, <1>5, <1>6

\* A list of three items.
LEMMA ShapeThree ==
    ASSUME NEW e \in Items, NodeFits(e), NEW f \in Items, NodeFits(f), f \notin Fronts,
           NEW g \in Items, NodeFits(g), ~Needs(g), g \notin Fronts,
           Needs(e) => Mate(e, f), Needs(f) => Mate(f, g), g \notin Acts, HitOrAct(e) => f \notin Acts
    PROVE  /\ Shape(<<e, f, g>>) /\ <<e, f, g>> # <<>> /\ Head(<<e, f, g>>) = e
           /\ f \notin Acts => Only(<<e, f, g>>, e)
           /\ e \notin Acts => Only(<<e, f, g>>, f)
           /\ (e \in Acts \/ f \in Acts => ~Calm(<<e, f, g>>))
           /\ (e \notin Acts /\ f \notin Acts => Calm(<<e, f, g>>))
           /\ (e.k \notin FocusPieces /\ f.k \notin FocusPieces /\ g.k \notin FocusPieces
                => NoPiece(<<e, f, g>>))
           /\ (e \notin Fronts => Inner(<<e, f, g>>))
           /\ (~HitOrAct(e) /\ ~HitOrAct(f) /\ ~HitOrAct(g) => Quiet(<<e, f, g>>))
<1>1. <<e, f, g>> \in Seq(Items) /\ Len(<<e, f, g>>) = 3 /\ <<e, f, g>>[1] = e /\ <<e, f, g>>[2] = f
      /\ <<e, f, g>>[3] = g /\ <<e, f, g>> # <<>> /\ Head(<<e, f, g>>) = e
  OBVIOUS
<1>2. PICK x : x = <<e, f, g>>
  OBVIOUS
<1>3. /\ x \in Seq(Items) /\ Len(x) = 3 /\ x[1] = e /\ x[2] = f /\ x[3] = g
      /\ 1 \in 1..Len(x) /\ 2 \in 1..Len(x) /\ 3 \in 1..Len(x)
      /\ \A p \in 1..Len(x) : p = 1 \/ p = 2 \/ p = 3
  BY <1>1, <1>2
<1>4. Shape(x)
  <2>1. \A p \in 1..Len(x) : Needs(x[p]) => p + 1 \in 1..Len(x) /\ Mate(x[p], x[p + 1])
    BY <1>3
  <2>2. \A p, q \in 1..Len(x) : p < q /\ HitOrAct(x[p]) => x[q] \notin Acts
    BY <1>3
  <2>. QED
    BY <1>3, <2>1, <2>2 DEF Shape
<1>5. /\ f \notin Acts => Only(x, e)
      /\ e \notin Acts => Only(x, f)
      /\ (e \notin Acts /\ f \notin Acts => Calm(x)) /\ (e \in Acts \/ f \in Acts => ~Calm(x))
  BY <1>3 DEF Only, Calm
<1>6. /\ (e.k \notin FocusPieces /\ f.k \notin FocusPieces /\ g.k \notin FocusPieces => NoPiece(x))
      /\ (e \notin Fronts => Inner(x))
      /\ (~HitOrAct(e) /\ ~HitOrAct(f) /\ ~HitOrAct(g) => Quiet(x))
  BY <1>3 DEF NoPiece, Inner, Quiet
<1>. QED
  BY <1>1, <1>2, <1>4, <1>5, <1>6

\* What the kind of an item says.
LEMMA KindSays ==
    ASSUME NEW e \in Items
    PROVE  /\ (e \in Acts <=> e.k \in ActKinds)
           /\ (HitOrAct(e) <=> e.k \in ActKinds \cup {"dndHit"})
           /\ (e \in Fronts <=> \/ e.k \in {"click", "dragstart", "dragend", "change", "call", "blur", "focus"}
                                \/ (e.k = "drop" /\ e.b # "file"))
           /\ e.k \in Events \cup Pieces /\ e.n \in MaybeNode /\ e.b \in Details
BY ItemParts DEF Acts, Fronts, HitOrAct

\* The first item, which is not about the drag, is done and the list x is done next.
LEMMA PassesCat ==
    ASSUME NEW t, Shape(t), t # <<>>, Head(t) \notin Acts, NEW x, Shape(x), Quiet(x),
           NEW K, x # <<>> /\ Head(x) \in Fronts => Head(x).k \in K
    PROVE  /\ Passes(t, x \o Tail(t), K)
           /\ (NoPiece(x \o Tail(t)) <=> NoPiece(x) /\ NoPiece(Tail(t)))
           /\ x # <<>> => x \o Tail(t) # <<>> /\ Head(x \o Tail(t)) = Head(x)
           /\ x = <<>> => x \o Tail(t) = Tail(t)
<1>1. PICK r : r = Tail(t)
  OBVIOUS
<1>2. PICK u : u = x \o r
  OBVIOUS
<1>3. Passes(t, r, {}) /\ Shape(r) /\ Inner(r)
  BY <1>1, PassesTail, TailShape
<1>4. /\ Shape(u) /\ (Calm(u) <=> Calm(x) /\ Calm(r)) /\ (NoPiece(u) <=> NoPiece(x) /\ NoPiece(r))
      /\ x = <<>> => u = r
      /\ x # <<>> => u # <<>> /\ Head(u) = Head(x)
      /\ \A p \in 1..Len(u) : (\E q \in 1..Len(x) : u[p] = x[q]) \/ (\E q \in 1..Len(r) : u[p] = r[q])
  BY <1>2, <1>3, ShapeCat
<1>5. \A p \in 1..Len(u) : u[p] \in Acts => \E q \in 1..Len(t) : t[q] = u[p]
  <2>1. ASSUME NEW p \in 1..Len(u), u[p] \in Acts PROVE \E q \in 1..Len(t) : t[q] = u[p]
    <3>1. ~ \E q \in 1..Len(x) : u[p] = x[q]
      BY <2>1 DEF Quiet, HitOrAct
    <3>2. PICK z \in 1..Len(r) : u[p] = r[z]
      BY <3>1, <1>4
    <3>. QED
      BY <3>2, <2>1, <1>3 DEF Passes
  <2>. QED
    BY <2>1
<1>6. Calm(u) => Calm(t)
  BY <1>3, <1>4 DEF Passes
<1>7. u # <<>> /\ Head(u) \in Fronts => Head(u).k \in K
  BY <1>3, <1>4 DEF Passes
<1>. QED
  BY <1>1, <1>2, <1>4, <1>5, <1>6, <1>7 DEF Passes

\* Nothing is done next.
LEMMA EmptyQuiet == Quiet(<<>>) /\ <<>> \in Seq(Items)
BY DEF Quiet

\* A mouse button is up: a click and what follows it, or nothing.
LEMMA ReleasedList ==
    ASSUME SoundInv, Released
    PROVE  /\ todo # <<>> /\ Passive(Top) /\ Passes(todo, todo', {"click"})
           /\ NoPiece(Tail(todo)) => NoPiece(todo')
           /\ todo' # <<>> /\ Head(todo').k = "click" =>
                Head(todo').n = ClickTarget(Top.n) /\ Head(todo').n # NoNode
<1>1. todo # <<>> /\ Top.k = "released"
  BY DEF Released, Step, At, Busy
<1>2. Top \in Items /\ Top.n \in MaybeNode /\ Shape(todo) /\ press \in MaybeNode
  BY <1>1, TopFacts DEF SoundInv, DomTypes
<1>3. Passive(Top)
  BY <1>1, <1>2, PassiveIs DEF PlainKinds
<1>4. Head(todo) \notin Acts
  BY <1>3 DEF Passive, Top
<1>5. PICK c \in MaybeNode : c = ClickTarget(Top.n)
  BY <1>2, ClickTargetType
<1>6. PICK a, b, d : a = Do("contextmenu", Top.n) /\ b = Do("click", c) /\ d = Do("clicked", Top.n)
  OBVIOUS
<1>7. a \in Plain /\ d \in Plain /\ d.k = "clicked" /\ a.k = "contextmenu"
  BY <1>2, <1>6, PlainIs, DoParts DEF PlainKinds, Details
<1>8. b \in Items /\ b.k = "click" /\ b.n = c
  BY <1>6, FrontIs
<1>9. PICK x : /\ todo' = x \o Tail(todo)
               /\ x = <<a>> \/ x = <<>> \/ (c # NoNode /\ x = <<b, d>>)
  BY <1>5, <1>6 DEF Released, Then
<1>10. Shape(x) /\ Quiet(x) /\ NoPiece(x) /\ (x # <<>> => (x = <<a>> /\ Head(x) = a) \/ (x = <<b, d>> /\ Head(x) = b))
  <2>1. CASE x = <<a>>
    BY <2>1, <1>7, PlainFacts, ShapeOne
  <2>2. CASE x = <<>>
    BY <2>2, EmptyShape, EmptyQuiet
  <2>3. CASE x = <<b, d>>
    <3>1. /\ NodeFits(b) /\ ~HitOrAct(b) /\ Mate(b, d) /\ b.k \notin FocusPieces
      BY <1>7, <1>8 DEF NodeFits, HitOrAct, Acts, ActKinds, Mate, FocusPieces
    <3>. QED
      BY <2>3, <3>1, <1>7, <1>8, PlainFacts, ShapeTwo
  <2>. QED
    BY <2>1, <2>2, <2>3, <1>9
<1>11. x # <<>> /\ Head(x) \in Fronts => Head(x).k \in {"click"}
  BY <1>7, <1>8, <1>10, PlainFacts
<1>12. /\ Passes(todo, todo', {"click"}) /\ (NoPiece(Tail(todo)) => NoPiece(todo'))
       /\ x # <<>> => Head(todo') = Head(x)
       /\ x = <<>> => todo' = Tail(todo)
  BY <1>1, <1>2, <1>4, <1>9, <1>10, <1>11, PassesCat
<1>13. ASSUME todo' # <<>>, Head(todo').k = "click"
       PROVE  Head(todo').n = ClickTarget(Top.n) /\ Head(todo').n # NoNode
  <2>1. CASE x = <<>>
    <3>1. Head(todo') \in Items /\ Head(todo') \notin Fronts
      BY <1>1, <1>2, <1>4, <1>12, <1>13, <2>1, PassesTail, TailShape DEF Passes
    <3>. QED
      BY <3>1, <1>13, KindSays
  <2>2. CASE x # <<>>
    BY <2>2, <1>5, <1>7, <1>8, <1>9, <1>10, <1>12, <1>13
  <2>. QED
    BY <2>1, <2>2
<1>. QED
  BY <1>1, <1>3, <1>12, <1>13

\* The calls of mini_events_focus are first in the list: so many items, by the first of them.
Lead(t) == IF t = <<>> THEN 0
           ELSE IF Head(t).k \in {"blurred", "focusSet", "focused"} THEN 1
           ELSE IF Head(t).k \in {"blur", "focus", "unsnap"} THEN 2
           ELSE IF Head(t).k = "change" /\ Head(t).n \notin Ranges THEN 3
           ELSE 0
Clear(t, m) == \A p \in 1..Len(t) : p > m => t[p].k \notin FocusPieces
FocusForm(t) == Clear(t, Lead(t))

\* The pieces of the focus that are left when the first item is done.
LEMMA ClearTail ==
    ASSUME NEW t, Shape(t), t # <<>>
    PROVE  /\ \A m \in Nat : Clear(t, m + 1) => Clear(Tail(t), m)
           /\ Clear(t, 1) => NoPiece(Tail(t))
           /\ NoPiece(t) => NoPiece(Tail(t))
           /\ (NoPiece(t) <=> Clear(t, 0))
<1>1. PICK r \in Seq(Items) : r = Tail(t)
  BY HeadTailProperties DEF Shape
<1>2. /\ Len(t) \in Nat /\ Len(r) \in Nat
      /\ \A p \in 1..Len(r) : p + 1 \in 1..Len(t) /\ r[p] = t[p + 1]
  BY <1>1, HeadTailProperties DEF Shape
<1>3. ASSUME NEW m \in Nat, Clear(t, m + 1) PROVE Clear(r, m)
  <2>1. ASSUME NEW p \in 1..Len(r), p > m PROVE r[p].k \notin FocusPieces
    <3>1. p + 1 \in 1..Len(t) /\ r[p] = t[p + 1] /\ p + 1 > m + 1
      BY <1>2, <2>1
    <3>. QED
      BY <3>1, <1>3 DEF Clear
  <2>. QED
    BY <2>1 DEF Clear
<1>4. Clear(t, 1) => NoPiece(r)
  BY <1>2 DEF Clear, NoPiece
<1>5. NoPiece(t) => NoPiece(r)
  BY <1>2 DEF NoPiece
<1>6. NoPiece(t) <=> Clear(t, 0)
  BY <1>2 DEF NoPiece, Clear
<1>. QED
  BY <1>1, <1>3, <1>4, <1>5, <1>6

\* The pieces of the focus are those in front.
LEMMA ClearCat ==
    ASSUME NEW x \in Seq(Items), NEW r \in Seq(Items), NoPiece(r)
    PROVE  Clear(x \o r, Len(x))
<1>1. PICK u : u = x \o r
  OBVIOUS
<1>2. \A p \in 1..Len(u) : \/ p \in 1..Len(x) /\ u[p] = x[p]
                           \/ p > Len(x) /\ p - Len(x) \in 1..Len(r) /\ u[p] = r[p - Len(x)]
  BY <1>1, PushAt
<1>3. ASSUME NEW p \in 1..Len(u), p > Len(x) PROVE u[p].k \notin FocusPieces
  <2>1. Len(x) \in Nat
    OBVIOUS
  <2>2. p - Len(x) \in 1..Len(r) /\ u[p] = r[p - Len(x)]
    BY <2>1, <1>2, <1>3
  <2>. QED
    BY <2>2 DEF NoPiece
<1>. QED
  BY <1>1, <1>3 DEF Clear

\* A list without pieces of the focus is in form.
LEMMA NoPieceForm ==
    ASSUME NEW t, Shape(t), NoPiece(t)
    PROVE  FocusForm(t)
<1>1. Lead(t) \in {0, 1, 2, 3}
  BY DEF Lead
<1>. QED
  BY <1>1 DEF NoPiece, FocusForm, Clear

\* The kinds of the items that the focus goes through.
LEMMA FocusKinds ==
    ASSUME NEW e \in Items
    PROVE  /\ e.k \in {"focusSet", "blurred", "focused"} =>
                ~HitOrAct(e) /\ ~Needs(e) /\ e \notin Fronts /\ e \notin Acts
           /\ e.k \in {"focusSet", "blurred"} \/ (e.k = "focused" /\ e.n # NoNode) => NodeFits(e)
           /\ e.k = "unsnap" => NodeFits(e) /\ ~HitOrAct(e) /\ e \notin Fronts /\ e \notin Acts /\ Needs(e)
           /\ e.k \in {"blur", "focus", "call", "change"} =>
                NodeFits(e) /\ ~HitOrAct(e) /\ e \notin Acts /\ e.k \notin FocusPieces
           /\ e.k = "call" => ~Needs(e)
           /\ e.k = "change" /\ e.n \in Ranges => ~Needs(e)
<1>1. e.k \in {"focusSet", "blurred", "focused"} =>
                ~HitOrAct(e) /\ ~Needs(e) /\ e \notin Fronts /\ e \notin Acts
  BY KindSays DEF Needs, ActKinds
<1>5. e.k \in {"focusSet", "blurred"} \/ (e.k = "focused" /\ e.n # NoNode) => NodeFits(e)
  BY DEF NodeFits
<1>2. e.k = "unsnap" => NodeFits(e) /\ ~HitOrAct(e) /\ e \notin Fronts /\ e \notin Acts /\ Needs(e)
  BY KindSays DEF NodeFits, Needs, ActKinds
<1>3. e.k \in {"blur", "focus", "call", "change"} =>
                NodeFits(e) /\ ~HitOrAct(e) /\ e \notin Acts /\ e.k \notin FocusPieces
  BY KindSays DEF NodeFits, ActKinds, FocusPieces
<1>4. (e.k = "call" => ~Needs(e)) /\ (e.k = "change" /\ e.n \in Ranges => ~Needs(e))
  BY DEF Needs
<1>. QED
  BY <1>1, <1>2, <1>3, <1>4, <1>5

\* The thumb of a range is let go: its change event, or nothing.
LEMMA RangeEndList ==
    ASSUME SoundInv, RangeEnd
    PROVE  /\ todo # <<>> /\ Passive(Top) /\ Passes(todo, todo', {"change"})
           /\ NoPiece(Tail(todo)) => NoPiece(todo')
           /\ todo' # <<>> /\ Head(todo').k = "change" => Head(todo').n \in Ranges
<1>1. todo # <<>> /\ Top.k = "rangeEnd"
  BY DEF RangeEnd, Step, At, Busy
<1>2. Top \in Items /\ Top.n \in MaybeNode /\ Shape(todo) /\ dragRange \in MaybeNode
      /\ dragRange \in Ranges \cup {NoNode}
  BY <1>1, TopFacts DEF SoundInv, DomTypes
<1>3. Passive(Top)
  BY <1>1, <1>2, PassiveIs DEF PlainKinds
<1>4. Head(todo) \notin Acts
  BY <1>3 DEF Passive, Top
<1>5. PICK a, d : a = Do("change", dragRange) /\ d = Do("rangeDone", NoNode)
  OBVIOUS
<1>6. d \in Plain /\ a \in Items /\ a.k = "change" /\ a.n = dragRange
  BY <1>2, <1>5, PlainIs, FrontIs DEF PlainKinds, Details, MaybeNode
<1>7. PICK x : /\ todo' = x \o Tail(todo)
               /\ x = <<>> \/ x = <<>> \o <<d>> \/ (dragRange # NoNode /\ x = <<a>> \o <<d>>)
  BY <1>5 DEF RangeEnd, Then
<1>8. /\ Shape(x) /\ Quiet(x) /\ NoPiece(x)
      /\ x # <<>> => (Head(x) = d \/ (Head(x) = a /\ dragRange # NoNode))
  <2>0. Shape(<<d>>) /\ Inner(<<d>>) /\ Quiet(<<d>>) /\ NoPiece(<<d>>) /\ Calm(<<d>>) /\ Head(<<d>>) = d /\ <<d>> # <<>>
    BY <1>6, PlainFacts, ShapeOne
  <2>1. CASE x = <<>> \o <<d>>
    <3>1. <<>> \o <<d>> = <<d>>
      BY <1>6, PlainFacts, ConcatEmptySeq
    <3>. QED
      BY <2>0, <2>1, <3>1
  <2>2. CASE x = <<>>
    BY <2>2, EmptyShape, EmptyQuiet
  <2>3. CASE dragRange # NoNode /\ x = <<a>> \o <<d>>
    <3>1. NodeFits(a) /\ ~HitOrAct(a) /\ ~Needs(a) /\ a.k \notin FocusPieces
      BY <1>2, <1>6, <2>3, FocusKinds
    <3>2. Shape(<<a>>) /\ Quiet(<<a>>) /\ NoPiece(<<a>>) /\ Head(<<a>>) = a /\ <<a>> # <<>>
      BY <3>1, <1>6, ShapeOne
    <3>3. Shape(x) /\ NoPiece(x) /\ x # <<>> /\ Head(x) = a
      BY <3>2, <2>0, <2>3, ShapeCat
    <3>4. Quiet(x)
      <4>1. \A p \in 1..Len(x) : (\E q \in 1..Len(<<a>>) : x[p] = <<a>>[q]) \/ (\E q \in 1..Len(<<d>>) : x[p] = <<d>>[q])
        BY <3>2, <2>0, <2>3, ShapeCat
      <4>. QED
        BY <4>1, <3>2, <2>0 DEF Quiet
    <3>. QED
      BY <2>3, <3>3, <3>4
  <2>. QED
    BY <2>1, <2>2, <2>3, <1>7
<1>9. x # <<>> /\ Head(x) \in Fronts => Head(x).k \in {"change"}
  BY <1>6, <1>8, PlainFacts
<1>10. /\ Passes(todo, todo', {"change"}) /\ (NoPiece(Tail(todo)) => NoPiece(todo'))
       /\ x # <<>> => Head(todo') = Head(x)
       /\ x = <<>> => todo' = Tail(todo)
  BY <1>1, <1>2, <1>4, <1>7, <1>8, <1>9, PassesCat
<1>11. ASSUME todo' # <<>>, Head(todo').k = "change"
       PROVE  Head(todo').n \in Ranges
  <2>1. CASE x = <<>>
    <3>1. Head(todo') \in Items /\ Head(todo') \notin Fronts
      BY <1>1, <1>2, <1>4, <1>10, <1>11, <2>1, PassesTail, TailShape DEF Passes
    <3>. QED
      BY <3>1, <1>11, KindSays
  <2>2. CASE x # <<>>
    <3>1. d.k = "rangeDone"
      BY <1>5, DoParts
    <3>. QED
      BY <2>2, <3>1, <1>2, <1>6, <1>8, <1>10, <1>11
  <2>. QED
    BY <2>1, <2>2
<1>. QED
  BY <1>1, <1>3, <1>10, <1>11

\* Tab: focus() of the next element, or nothing.
LEMMA TabList ==
    ASSUME SoundInv, Tab
    PROVE  /\ todo # <<>> /\ Passive(Top) /\ Passes(todo, todo', {"call"})
           /\ NoPiece(Tail(todo)) => NoPiece(todo')
<1>1. todo # <<>> /\ Top.k = "tab"
  BY DEF Tab, Step, At, Busy
<1>2. Top \in Items /\ Top.n \in MaybeNode /\ Shape(todo) /\ live \subseteq Nodes
  BY <1>1, TopFacts DEF SoundInv, DomTypes
<1>3. Passive(Top)
  BY <1>1, <1>2, PassiveIs DEF PlainKinds
<1>4. Head(todo) \notin Acts
  BY <1>3 DEF Passive, Top
<1>5. PICK m \in MaybeNode : m = NextFocusable
  BY <1>2, NextFacts DEF MaybeNode
<1>6. PICK a : a = Do("call", m)
  OBVIOUS
<1>7. a \in Items /\ a.k = "call"
  BY <1>6, FrontIs
<1>8. PICK x : todo' = x \o Tail(todo) /\ (x = <<>> \/ x = <<a>>)
  BY <1>5, <1>6 DEF Tab, Then
<1>9. Shape(x) /\ Quiet(x) /\ NoPiece(x) /\ (x # <<>> => Head(x) = a)
  BY <1>7, <1>8, FocusKinds, ShapeOne, EmptyShape, EmptyQuiet
<1>10. Passes(todo, todo', {"call"}) /\ (NoPiece(Tail(todo)) => NoPiece(todo'))
  BY <1>1, <1>2, <1>4, <1>7, <1>8, <1>9, PassesCat
<1>. QED
  BY <1>1, <1>3, <1>10

\* What follows the list x when nothing but x is about the focus.
LEMMA FormCat ==
    ASSUME NEW t, Shape(t), t # <<>>, Head(t) \notin Acts, NEW x, Shape(x), Quiet(x), x # <<>>,
           Lead(x) = Len(x), NoPiece(Tail(t))
    PROVE  FocusForm(x \o Tail(t))
<1>1. PICK r : r = Tail(t)
  OBVIOUS
<1>2. r \in Seq(Items) /\ x \in Seq(Items) /\ Shape(r) /\ Inner(r)
  BY <1>1, TailShape DEF Shape
<1>3. Clear(x \o r, Len(x))
  BY <1>1, <1>2, ClearCat
<1>4. x \o r # <<>> /\ Head(x \o r) = Head(x)
  BY <1>2, ShapeCat
<1>5. Lead(x \o r) = Lead(x)
  BY <1>4 DEF Lead
<1>. QED
  BY <1>1, <1>3, <1>5 DEF FocusForm

\* focus(): nothing, the new element at once, or the blur event of the old one first.
LEMMA CallList ==
    ASSUME SoundInv, Call
    PROVE  /\ todo # <<>> /\ Top \in Items /\ Top.k = "call" /\ Passes(todo, todo', {"blur"})
           /\ NoPiece(Tail(todo)) => FocusForm(todo')
           /\ \/ todo' = Tail(todo)
              \/ todo' # <<>> /\ Head(todo').k = "focusSet" /\ focus = NoNode
              \/ todo' # <<>> /\ Head(todo').k = "blur"
<1>1. todo # <<>> /\ Top.k = "call"
  BY DEF Call, Step, At, Busy
<1>2. Top \in Items /\ Top.n \in MaybeNode /\ Shape(todo) /\ focus \in MaybeNode /\ Shape(Tail(todo))
  BY <1>1, TopFacts DEF SoundInv, DomTypes
<1>3. Head(todo) \notin Acts
  BY <1>1, <1>2, FocusKinds DEF Top
<1>4. PICK a, b, c : a = Do("focusSet", Top.n) /\ b = Do("blur", focus) /\ c = Do("blurred", Top.n)
  OBVIOUS
<1>5. /\ a \in Items /\ a.k = "focusSet" /\ b \in Items /\ b.k = "blur" /\ c \in Items /\ c.k = "blurred"
  BY <1>2, <1>4, FrontIs
<1>6. PICK x : /\ todo' = x \o Tail(todo)
               /\ x = <<>> \/ (x = <<a>> /\ focus = NoNode) \/ x = <<b, c>>
  BY <1>4 DEF Call, Then
<1>7. CASE x = <<>>
  BY <1>1, <1>2, <1>3, <1>6, <1>7, EmptyShape, EmptyQuiet, PassesCat, NoPieceForm
<1>8. CASE x = <<a>> /\ focus = NoNode
  <2>1. Shape(x) /\ Quiet(x) /\ x # <<>> /\ Head(x) = a /\ a \notin Fronts
    BY <1>5, <1>8, FocusKinds, ShapeOne
  <2>2. Len(x) = 1 /\ Lead(x) = 1
    BY <2>1, <1>5, <1>8 DEF Lead
  <2>3. NoPiece(Tail(todo)) => FocusForm(todo')
    BY <2>1, <2>2, <1>1, <1>2, <1>3, <1>6, FormCat
  <2>4. Passes(todo, todo', {"blur"}) /\ todo' # <<>> /\ Head(todo') = a
    BY <2>1, <1>1, <1>2, <1>3, <1>6, PassesCat
  <2>. QED
    BY <2>3, <2>4, <1>1, <1>2, <1>5, <1>8
<1>9. CASE x = <<b, c>>
  <2>0. Mate(b, c)
    BY <1>5 DEF Mate
  <2>1. Shape(x) /\ Quiet(x) /\ x # <<>> /\ Head(x) = b
    BY <2>0, <1>5, <1>9, FocusKinds, ShapeTwo
  <2>2. Len(x) = 2 /\ Lead(x) = 2
    BY <2>1, <1>5, <1>9 DEF Lead
  <2>3. NoPiece(Tail(todo)) => FocusForm(todo')
    BY <2>1, <2>2, <1>1, <1>2, <1>3, <1>6, FormCat
  <2>4. Passes(todo, todo', {"blur"}) /\ todo' # <<>> /\ Head(todo') = b
    BY <2>1, <1>1, <1>2, <1>3, <1>5, <1>6, PassesCat
  <2>. QED
    BY <2>3, <2>4, <1>1, <1>2, <1>5
<1>. QED
  BY <1>6, <1>7, <1>8, <1>9

\* After the blur event: a change event when the text is not the one focused on, and on.
LEMMA BlurredList ==
    ASSUME SoundInv, Blurred
    PROVE  /\ todo # <<>> /\ Top \in Items /\ Top.k = "blurred" /\ Passes(todo, todo', {"change"})
           /\ NoPiece(Tail(todo)) => FocusForm(todo')
           /\ todo' # <<>>
           /\ \/ Head(todo').k = "unsnap" /\ ~(focus \in Text /\ Changed(focus))
              \/ Head(todo').k = "change" /\ Head(todo').n = focus /\ focus \in Text
<1>1. todo # <<>> /\ Top.k = "blurred"
  BY DEF Blurred, Step, At, Busy
<1>2. Top \in Items /\ Top.n \in MaybeNode /\ Shape(todo) /\ focus \in MaybeNode /\ NoNode \in MaybeNode
  BY <1>1, TopFacts DEF SoundInv, DomTypes, MaybeNode
<1>3. Head(todo) \notin Acts
  BY <1>1, <1>2, FocusKinds DEF Top
<1>4. PICK a, b, c : a = Do("change", focus) /\ b = Do("unsnap", NoNode) /\ c = Do("focusSet", Top.n)
  OBVIOUS
<1>5. /\ a \in Items /\ a.k = "change" /\ a.n = focus /\ b \in Items /\ b.k = "unsnap"
      /\ c \in Items /\ c.k = "focusSet"
  BY <1>2, <1>4, FrontIs
<1>6. PICK x : /\ todo' = x \o Tail(todo)
               /\ \/ x = <<>> \o <<b, c>> /\ ~(focus \in Text /\ Changed(focus))
                  \/ x = <<a>> \o <<b, c>> /\ focus \in Text
  BY <1>4 DEF Blurred, Then
<1>7. Mate(b, c)
  BY <1>5 DEF Mate
<1>8. PICK y : y = <<b, c>>
  OBVIOUS
<1>9. Shape(y) /\ Quiet(y) /\ y # <<>> /\ Head(y) = b /\ Inner(y) /\ Calm(y) /\ Len(y) = 2 /\ b \notin Fronts
  BY <1>5, <1>7, <1>8, FocusKinds, ShapeTwo
<1>10. CASE x = <<>> \o <<b, c>> /\ ~(focus \in Text /\ Changed(focus))
  <2>1. x = y
    BY <1>5, <1>8, <1>10, ConcatEmptySeq
  <2>2. Lead(y) = 2
    BY <1>5, <1>9 DEF Lead
  <2>3. NoPiece(Tail(todo)) => FocusForm(todo')
    BY <2>1, <2>2, <1>1, <1>2, <1>3, <1>6, <1>9, FormCat
  <2>4. Passes(todo, todo', {"change"}) /\ todo' # <<>> /\ Head(todo') = b
    BY <2>1, <1>1, <1>2, <1>3, <1>6, <1>9, PassesCat
  <2>. QED
    BY <2>3, <2>4, <1>1, <1>2, <1>5, <1>10
<1>11. CASE x = <<a>> \o <<b, c>> /\ focus \in Text
  <2>1. Needs(a) => y # <<>> /\ Mate(a, Head(y))
    BY <1>5, <1>9 DEF Mate
  <2>2. Shape(x) /\ x # <<>> /\ Head(x) = a
    BY <2>1, <1>5, <1>8, <1>9, <1>11, FocusKinds, ConsShape
  <2>3. Len(x) = 3 /\ Quiet(x)
    <3>1. y \in Seq(Items) /\ <<a>> \in Seq(Items) /\ Len(<<a>>) = 1 /\ <<a>>[1] = a
      BY <1>5, <1>9 DEF Shape
    <3>2. /\ Len(x) = Len(<<a>>) + Len(y)
          /\ \A p \in 1..Len(x) : \/ p \in 1..Len(<<a>>) /\ x[p] = <<a>>[p]
                                  \/ p > Len(<<a>>) /\ p - Len(<<a>>) \in 1..Len(y) /\ x[p] = y[p - Len(<<a>>)]
      BY <3>1, <1>8, <1>11, PushAt
    <3>3. ~HitOrAct(a)
      BY <1>5, FocusKinds
    <3>. QED
      BY <3>1, <3>2, <3>3, <1>9 DEF Quiet
  <2>4. Lead(x) = 3
    BY <2>2, <1>5, <1>11, Controls DEF Lead
  <2>5. NoPiece(Tail(todo)) => FocusForm(todo')
    BY <2>2, <2>3, <2>4, <1>1, <1>2, <1>3, <1>6, FormCat
  <2>6. Passes(todo, todo', {"change"}) /\ todo' # <<>> /\ Head(todo') = a
    BY <2>2, <2>3, <1>1, <1>2, <1>3, <1>5, <1>6, PassesCat
  <2>. QED
    BY <2>5, <2>6, <1>1, <1>2, <1>5, <1>11
<1>. QED
  BY <1>6, <1>10, <1>11

\* The pieces that end with nothing more to do.
LEMMA FocusEndList ==
    ASSUME SoundInv, Unsnap \/ Focused
    PROVE  /\ todo # <<>> /\ Top \in Items /\ Top.k \in {"unsnap", "focused"}
           /\ Passes(todo, todo', {}) /\ todo' = Tail(todo)
<1>1. todo # <<>> /\ Top.k \in {"unsnap", "focused"} /\ todo' = <<>> \o Tail(todo)
  BY DEF Unsnap, Focused, Step, At, Busy, Then
<1>2. Top \in Items /\ Shape(todo) /\ Tail(todo) \in Seq(Items)
  BY <1>1, TopFacts DEF SoundInv
<1>3. Head(todo) \notin Acts
  BY <1>1, <1>2, FocusKinds DEF Top
<1>4. todo' = Tail(todo)
  BY <1>1, <1>2, ConcatEmptySeq
<1>. QED
  BY <1>1, <1>2, <1>3, <1>4, PassesTail

\* The new element is stored: its focus event, or nothing.
LEMMA FocusSetList ==
    ASSUME SoundInv, FocusSet
    PROVE  /\ todo # <<>> /\ Top \in Items /\ Top.k = "focusSet" /\ Passes(todo, todo', {"focus"})
           /\ NoPiece(Tail(todo)) => FocusForm(todo')
           /\ \/ todo' = Tail(todo) /\ Top.n = NoNode
              \/ todo' # <<>> /\ Head(todo').k = "focus" /\ Head(todo').n = Top.n
<1>1. todo # <<>> /\ Top.k = "focusSet"
  BY DEF FocusSet, Step, At, Busy
<1>2. Top \in Items /\ Top.n \in MaybeNode /\ Shape(todo) /\ Shape(Tail(todo)) /\ Tail(todo) \in Seq(Items)
  BY <1>1, TopFacts DEF SoundInv
<1>3. Head(todo) \notin Acts
  BY <1>1, <1>2, FocusKinds DEF Top
<1>4. PICK b, c : b = Do("focus", Top.n) /\ c = Do("focused", Top.n)
  OBVIOUS
<1>5. b \in Items /\ b.k = "focus" /\ b.n = Top.n /\ c \in Items /\ c.k = "focused" /\ c.n = Top.n
  BY <1>2, <1>4, FrontIs
<1>6. PICK x : /\ todo' = x \o Tail(todo)
               /\ (x = <<>> /\ Top.n = NoNode) \/ (x = <<b, c>> /\ Top.n # NoNode)
  BY <1>4 DEF FocusSet, Then
<1>7. CASE x = <<>> /\ Top.n = NoNode
  BY <1>1, <1>2, <1>3, <1>6, <1>7, EmptyShape, EmptyQuiet, PassesCat, NoPieceForm
<1>8. CASE x = <<b, c>> /\ Top.n # NoNode
  <2>0. Mate(b, c)
    BY <1>5 DEF Mate
  <2>1. Shape(x) /\ Quiet(x) /\ x # <<>> /\ Head(x) = b
    BY <2>0, <1>5, <1>8, FocusKinds, ShapeTwo
  <2>2. Len(x) = 2 /\ Lead(x) = 2
    BY <2>1, <1>5, <1>8 DEF Lead
  <2>3. NoPiece(Tail(todo)) => FocusForm(todo')
    BY <2>1, <2>2, <1>1, <1>2, <1>3, <1>6, FormCat
  <2>4. Passes(todo, todo', {"focus"}) /\ todo' # <<>> /\ Head(todo') = b
    BY <2>1, <1>1, <1>2, <1>3, <1>5, <1>6, PassesCat
  <2>. QED
    BY <2>3, <2>4, <1>1, <1>2, <1>5
<1>. QED
  BY <1>6, <1>7, <1>8

-----------------------------------------------------------------------------
(* Steps of the drag: the first item is about it, and so at most one item is left that is. *)

\* One item of u is about the drag, f; in front of u there may be one of the kinds K.
Turns(t, u, f, K) ==
  /\ Shape(u) /\ Only(u, f) /\ ~Calm(u)
  /\ u # <<>> /\ Head(u) \in Fronts => Head(u).k \in K
  /\ NoPiece(Tail(t)) => NoPiece(u)

\* No item of u is about the drag.
Settles(t, u, K) ==
  /\ Shape(u) /\ Calm(u)
  /\ u # <<>> /\ Head(u) \in Fronts => Head(u).k \in K
  /\ NoPiece(Tail(t)) => NoPiece(u)

\* The first item, which is about the drag, is done and the list x is done next.
LEMMA TurnsCat ==
    ASSUME NEW t, Shape(t), t # <<>>, HitOrAct(Head(t)), NEW x, Shape(x), NoPiece(x),
           NEW K, x # <<>> /\ Head(x) \in Fronts => Head(x).k \in K
    PROVE  /\ Calm(x) => Settles(t, x \o Tail(t), K)
           /\ \A f : Only(x, f) /\ ~Calm(x) => Turns(t, x \o Tail(t), f, K)
           /\ x # <<>> => x \o Tail(t) # <<>> /\ Head(x \o Tail(t)) = Head(x)
           /\ x = <<>> => x \o Tail(t) = Tail(t)
           /\ x = <<>> /\ Tail(t) # <<>> => Head(Tail(t)) \in Items /\ Head(Tail(t)) \notin Fronts
<1>1. PICK r : r = Tail(t)
  OBVIOUS
<1>2. PICK u : u = x \o r
  OBVIOUS
<1>3. Shape(r) /\ Inner(r) /\ Calm(r)
  BY <1>1, TailShape
<1>4. /\ Shape(u) /\ (Calm(u) <=> Calm(x) /\ Calm(r)) /\ (NoPiece(u) <=> NoPiece(x) /\ NoPiece(r))
      /\ x = <<>> => u = r
      /\ x # <<>> => u # <<>> /\ Head(u) = Head(x)
      /\ \A f : Only(x, f) /\ Only(r, f) => Only(u, f)
  BY <1>2, <1>3, ShapeCat
<1>5. r # <<>> => Head(r) \in Items /\ Head(r) \notin Fronts
  <2>1. r \in Seq(Items)
    BY <1>3 DEF Shape
  <2>2. r # <<>> => 1 \in 1..Len(r) /\ Head(r) = r[1] /\ r[1] \in Items
    BY <2>1
  <2>. QED
    BY <2>2, <1>3 DEF Inner
<1>6. \A f : Only(r, f)
  BY <1>3 DEF Only, Calm
<1>7. u # <<>> /\ Head(u) \in Fronts => Head(u).k \in K
  BY <1>4, <1>5
<1>. QED
  BY <1>1, <1>2, <1>3, <1>4, <1>5, <1>6, <1>7 DEF Turns, Settles

\* The kinds of the items of a drag.
LEMMA DragKinds ==
    ASSUME NEW e \in Items
    PROVE  /\ e.k \in ActKinds => e \in Acts /\ HitOrAct(e) /\ ~Needs(e) /\ e.k \notin FocusPieces
           /\ e.k \in ActKinds /\ (e.k \in {"mousedown", "pressed", "default"} => e.n # NoNode) => NodeFits(e)
           /\ e.k \in ActKinds \ {"dragstart"} => e \notin Fronts
           /\ e.k = "dndHit" => HitOrAct(e) /\ e \notin Acts /\ ~Needs(e) /\ NodeFits(e) /\ e \notin Fronts
                                /\ e.k \notin FocusPieces
           /\ e.k = "dndMove" => ~HitOrAct(e) /\ e \notin Acts /\ NodeFits(e) /\ e \notin Fronts
                                /\ e.k \notin FocusPieces
           /\ e.k \in {"dragend", "drop"} => ~HitOrAct(e) /\ e \notin Acts /\ NodeFits(e) /\ e.k \notin FocusPieces
<1>1. /\ e.k \in ActKinds => ~Needs(e)
      /\ e.k \in ActKinds /\ (e.k \in {"mousedown", "pressed", "default"} => e.n # NoNode) => NodeFits(e)
  BY DEF ActKinds, Needs, NodeFits
<1>2. e.k \in ActKinds => e \in Acts /\ HitOrAct(e) /\ e.k \notin FocusPieces
  BY KindSays DEF ActKinds, FocusPieces
<1>3. e.k \in ActKinds \ {"dragstart"} => e \notin Fronts
  BY KindSays DEF ActKinds
<1>4. e.k = "dndHit" => HitOrAct(e) /\ e \notin Acts /\ ~Needs(e) /\ NodeFits(e) /\ e \notin Fronts
                                /\ e.k \notin FocusPieces
  BY KindSays DEF ActKinds, FocusPieces, Needs, NodeFits
<1>5. e.k = "dndMove" => ~HitOrAct(e) /\ e \notin Acts /\ NodeFits(e) /\ e \notin Fronts
                                /\ e.k \notin FocusPieces
  BY KindSays DEF ActKinds, FocusPieces, Needs, NodeFits
<1>6. e.k \in {"dragend", "drop"} => ~HitOrAct(e) /\ e \notin Acts /\ NodeFits(e) /\ e.k \notin FocusPieces
  BY KindSays DEF ActKinds, FocusPieces, NodeFits
<1>. QED
  BY <1>1, <1>2, <1>3, <1>4, <1>5, <1>6

\* The first item is of a kind of the drag.
LEMMA DragTop ==
    ASSUME SoundInv, todo # <<>>, Top.k \in ActKinds \cup {"dndHit"}
    PROVE  /\ Shape(todo) /\ HitOrAct(Head(todo)) /\ Top \in Items /\ Top.n \in MaybeNode /\ Top.b \in Details
           /\ Tail(todo) \in Seq(Items) /\ Shape(Tail(todo)) /\ Head(todo) = Top /\ NodeFits(Top)
<1>1. Top \in Items /\ Shape(todo) /\ Tail(todo) \in Seq(Items) /\ Shape(Tail(todo))
  BY TopFacts DEF SoundInv
<1>. QED
  BY <1>1, TopFacts, TailShape, DragKinds DEF Top

\* A press is over: the focus moves, and a left press has its default action.
LEMMA PressedList ==
    ASSUME SoundInv, Pressed
    PROVE  /\ todo # <<>> /\ Top.k = "pressed" /\ Top \in Items
           /\ \/ Settles(todo, todo', {"call"})
              \/ Top.b = "left" /\ Turns(todo, todo', Do("default", Top.n), {"call"})
<1>1. todo # <<>> /\ Top.k = "pressed" /\ Top.k \in ActKinds
  BY DEF Pressed, Step, At, Busy, ActKinds
<1>2. Shape(todo) /\ HitOrAct(Head(todo)) /\ Top \in Items /\ Top.n \in MaybeNode /\ Top.n # NoNode
  BY <1>1, DragTop DEF NodeFits
<1>3. PICK m \in MaybeNode : m = IF Top.n \in Focusable THEN Top.n ELSE NoNode
  BY <1>2 DEF MaybeNode
<1>4. PICK a, d : a = Do("call", m) /\ d = Do("default", Top.n)
  OBVIOUS
<1>5. a \in Items /\ a.k = "call" /\ d \in Items /\ d.k = "default" /\ d.n = Top.n /\ d.k \in ActKinds
  BY <1>2, <1>4, FrontIs DEF ActKinds
<1>6. Shape(<<a>>) /\ <<a>> # <<>> /\ Head(<<a>>) = a /\ NoPiece(<<a>>) /\ Calm(<<a>>) /\ Quiet(<<a>>)
      /\ a \notin Acts /\ Only(<<a>>, d) /\ <<a>> \in Seq(Items)
  <2>1. Shape(<<a>>) /\ <<a>> # <<>> /\ Head(<<a>>) = a /\ NoPiece(<<a>>) /\ Calm(<<a>>) /\ Quiet(<<a>>)
      /\ a \notin Acts
    BY <1>5, FocusKinds, ShapeOne
  <2>. QED
    BY <2>1 DEF Only, Calm, Shape
<1>7. PICK x : todo' = x \o Tail(todo) /\ (x = <<a>> \o <<>> \/ (Top.b = "left" /\ x = <<a>> \o <<d>>))
  BY <1>3, <1>4 DEF Pressed, Then
<1>8. CASE x = <<a>> \o <<>>
  <2>1. x = <<a>>
    BY <1>6, <1>8, ConcatEmptySeq
  <2>. QED
    BY <2>1, <1>1, <1>2, <1>5, <1>6, <1>7, TurnsCat
<1>9. CASE Top.b = "left" /\ x = <<a>> \o <<d>>
  <2>1. Shape(<<d>>) /\ Inner(<<d>>) /\ NoPiece(<<d>>) /\ ~Calm(<<d>>) /\ Only(<<d>>, d)
    BY <1>2, <1>5, DragKinds, ShapeOne
  <2>2. Shape(x) /\ ~Calm(x) /\ NoPiece(x) /\ Only(x, d) /\ x # <<>> /\ Head(x) = a
    BY <2>1, <1>6, <1>9, ShapeCat
  <2>3. Turns(todo, todo', d, {"call"})
    BY <2>2, <1>1, <1>2, <1>5, <1>7, TurnsCat
  <2>. QED
    BY <2>3, <1>1, <1>2, <1>4, <1>9
<1>. QED
  BY <1>7, <1>8, <1>9

\* Pieces of the drag after which nothing more of it is to do.
LEMMA SettledList ==
    ASSUME SoundInv, Default \/ DndStarted \/ DndReset \/ DndAnswer
    PROVE  /\ todo # <<>> /\ Top \in Items
           /\ Top.k \in {"default", "dndStarted", "dndReset", "dndAllow", "dndDeny"}
           /\ Settles(todo, todo', {})
<1>1. todo # <<>> /\ Top.k \in {"default", "dndStarted", "dndReset", "dndAllow", "dndDeny"}
  BY DEF Default, DndStarted, DndReset, DndAnswer, Step, At, Busy
<1>2. Shape(todo) /\ HitOrAct(Head(todo)) /\ Top \in Items /\ Top.n \in MaybeNode
  BY <1>1, DragTop DEF ActKinds
<1>3. PICK a, b : a = Do("input", Top.n) /\ b = Do("touch", Top.n)
  OBVIOUS
<1>4. a \in Plain /\ b \in Plain
  BY <1>2, <1>3, PlainIs DEF PlainKinds, Details
<1>5. PICK x : todo' = x \o Tail(todo) /\ (x = <<>> \/ x = <<b>> \/ x = <<a>> \o <<b>>)
  BY <1>3 DEF Default, DndStarted, DndReset, DndAnswer, RangeMoves, Then
<1>6. x \in Seq(Plain)
  <2>1. <<>> \in Seq(Plain) /\ <<a>> \in Seq(Plain) /\ <<b>> \in Seq(Plain)
    BY <1>4
  <2>. QED
    BY <2>1, <1>5, ConcatProperties
<1>7. x \o <<>> = x
  BY <1>6, ConcatEmptySeq
<1>8. Shape(x) /\ Inner(x) /\ Calm(x) /\ NoPiece(x)
  <2>1. PICK r : r = <<>> /\ x \o r = x
    BY <1>7
  <2>2. Shape(r) /\ Inner(r) /\ Calm(r) /\ NoPiece(r)
    BY <2>1, EmptyShape
  <2>3. Shape(x \o r) /\ Inner(x \o r) /\ Calm(x \o r) /\ NoPiece(x \o r)
    BY <2>2, <1>6, PlainShape
  <2>. QED
    BY <2>1, <2>3
<1>9. x # <<>> => Head(x) \in Plain
  BY <1>6
<1>10. Settles(todo, todo', {})
  BY <1>1, <1>2, <1>5, <1>8, <1>9, PlainFacts, TurnsCat
<1>. QED
  BY <1>1, <1>2, <1>10

\* The pointer moves: a drag begins, goes on, or there is none.
LEMMA DndBeginList ==
    ASSUME SoundInv, DndBegin
    PROVE  /\ todo # <<>> /\ Top.k = "dndBegin" /\ Top \in Items
           /\ IF dnd.source # NoNode /\ ~dnd.started
              THEN Turns(todo, todo', Do("dragstart", dnd.source), {"dragstart"})
              ELSE Settles(todo, todo', {})
<1>1. todo # <<>> /\ Top.k = "dndBegin" /\ Top.k \in ActKinds
  BY DEF DndBegin, Step, At, Busy, ActKinds
<1>2. Shape(todo) /\ HitOrAct(Head(todo)) /\ Top \in Items /\ dnd.source \in MaybeNode /\ NoNode \in MaybeNode
  BY <1>1, DragTop DEF SoundInv, DomTypes, MaybeNode
<1>3. PICK a, b, c : a = Do("dragstart", dnd.source) /\ b = Do("dndMove", NoNode) /\ c = Do("dndHit", NoNode)
  OBVIOUS
<1>4. /\ a \in Items /\ a.k = "dragstart" /\ b \in Items /\ b.k = "dndMove" /\ c \in Items /\ c.k = "dndHit"
      /\ a.k \in ActKinds
  BY <1>2, <1>3, FrontIs DEF ActKinds
<1>5. Mate(b, c)
  BY <1>4 DEF Mate
<1>6. CASE dnd.source # NoNode /\ ~dnd.started
  <2>1. todo' = <<a, b, c>> \o Tail(todo)
    BY <1>3, <1>6 DEF DndBegin, Then
  <2>2. Shape(<<a, b, c>>) /\ <<a, b, c>> # <<>> /\ Head(<<a, b, c>>) = a /\ Only(<<a, b, c>>, a)
        /\ ~Calm(<<a, b, c>>) /\ NoPiece(<<a, b, c>>)
    BY <1>4, <1>5, DragKinds, ShapeThree
  <2>3. Turns(todo, todo', a, {"dragstart"})
    BY <2>1, <2>2, <1>1, <1>2, <1>4, TurnsCat
  <2>. QED
    BY <2>3, <1>1, <1>2, <1>3, <1>6
<1>7. CASE ~(dnd.source # NoNode /\ ~dnd.started)
  <2>1. PICK x : todo' = x \o Tail(todo) /\ (x = <<>> \/ x = <<b, c>>)
    BY <1>3, <1>7 DEF DndBegin, Then
  <2>2. Shape(x) /\ Calm(x) /\ NoPiece(x) /\ (x # <<>> => Head(x) = b /\ b \notin Fronts)
    BY <2>1, <1>4, <1>5, DragKinds, ShapeTwo, EmptyShape
  <2>3. Settles(todo, todo', {})
    BY <2>1, <2>2, <1>1, <1>2, TurnsCat
  <2>. QED
    BY <2>3, <1>1, <1>2, <1>7
<1>. QED
  BY <1>6, <1>7

\* What the pointer is over while something is dragged.
LEMMA DndHitList ==
    ASSUME SoundInv, DndHit
    PROVE  /\ todo # <<>> /\ Top.k = "dndHit" /\ Top \in Items
           /\ \/ Settles(todo, todo', {})
              \/ \E e \in Items : /\ Turns(todo, todo', e, {}) 
                                  /\ \/ e.k = "dndOver" 
                                     \/ e.k = "dragover" /\ e.b = "-" /\ e.n = dnd.target
<1>1. todo # <<>> /\ Top.k = "dndHit"
  BY DEF DndHit, Step, At, Busy
<1>2. Shape(todo) /\ HitOrAct(Head(todo)) /\ Top \in Items /\ dnd.target \in MaybeNode /\ Hit \in MaybeNode
  BY <1>1, DragTop, HitFacts DEF SoundInv, DomTypes
<1>3. PICK h \in MaybeNode : h = Hit
  BY <1>2
<1>4. PICK a, b, c, d : /\ a = Do("dragover", h) /\ b = Do("dragleave", dnd.target)
                        /\ c = Do("dragenter", h) /\ d = Do("dndOver", h)
  OBVIOUS
<1>5. /\ a \in Items /\ a.k = "dragover" /\ a.n = h /\ a.b = "-" /\ b \in Plain /\ c \in Plain
      /\ d \in Items /\ d.k = "dndOver" /\ a.k \in ActKinds /\ d.k \in ActKinds
  BY <1>2, <1>4, FrontIs, PlainIs DEF ActKinds, PlainKinds, Details
<1>6. PICK x : /\ todo' = x \o Tail(todo)
               /\ \/ x = <<>>
                  \/ x = <<a>> /\ h = dnd.target
                  \/ x = <<>> \o <<c, d>>
                  \/ x = <<b>> \o <<c, d>>
  BY <1>3, <1>4 DEF DndHit, Then
<1>7. CASE x = <<>>
  BY <1>1, <1>2, <1>6, <1>7, EmptyShape, TurnsCat
<1>8. CASE x = <<a>> /\ h = dnd.target
  <2>1. Shape(x) /\ ~Calm(x) /\ NoPiece(x) /\ Only(x, a) /\ Head(x) = a /\ a \notin Fronts
    BY <1>5, <1>8, DragKinds, ShapeOne
  <2>2. Turns(todo, todo', a, {})
    BY <2>1, <1>1, <1>2, <1>6, TurnsCat
  <2>. QED
    BY <2>2, <1>1, <1>2, <1>5, <1>8
<1>9. CASE x = <<>> \o <<c, d>> \/ x = <<b>> \o <<c, d>>
  <2>1. PICK y : y = <<c, d>>
    OBVIOUS
  <2>2. Shape(y) /\ ~Calm(y) /\ NoPiece(y) /\ Only(y, d) /\ Inner(y) /\ y # <<>> /\ Head(y) = c /\ y \in Seq(Items)
    <3>1. Shape(y) /\ ~Calm(y) /\ NoPiece(y) /\ Only(y, d) /\ Inner(y) /\ y # <<>> /\ Head(y) = c
      BY <2>1, <1>5, DragKinds, PlainFacts, ShapeTwo
    <3>. QED
      BY <3>1 DEF Shape
  <2>3. <<b>> \in Seq(Plain)
    BY <1>5
  <2>4. Shape(x) /\ ~Calm(x) /\ NoPiece(x) /\ Only(x, d) /\ Inner(x)
    <3>1. CASE x = <<>> \o <<c, d>>
      <4>1. x = y
        BY <3>1, <2>1, <2>2, ConcatEmptySeq
      <4>. QED
        BY <4>1, <2>2
    <3>2. CASE x = <<b>> \o <<c, d>>
      BY <3>2, <2>1, <2>2, <2>3, PlainShape
    <3>. QED
      BY <3>1, <3>2, <1>9
  <2>5. x # <<>> => Head(x) \notin Fronts
    <3>1. x \in Seq(Items)
      BY <2>4 DEF Shape
    <3>2. x # <<>> => 1 \in 1..Len(x) /\ Head(x) = x[1]
      BY <3>1
    <3>. QED
      BY <3>2, <2>4 DEF Inner
  <2>6. Turns(todo, todo', d, {})
    BY <2>4, <2>5, <1>1, <1>2, <1>6, TurnsCat
  <2>. QED
    BY <2>6, <1>1, <1>2, <1>5
<1>. QED
  BY <1>6, <1>7, <1>8, <1>9

\* The pointer is over another node.
LEMMA DndOverList ==
    ASSUME SoundInv, DndOver
    PROVE  /\ todo # <<>> /\ Top.k = "dndOver" /\ Top \in Items
           /\ Turns(todo, todo', Do("dragover", Top.n), {})
<1>1. todo # <<>> /\ Top.k = "dndOver" /\ Top.k \in ActKinds
  BY DEF DndOver, Step, At, Busy, ActKinds
<1>2. Shape(todo) /\ HitOrAct(Head(todo)) /\ Top \in Items /\ Top.n \in MaybeNode
  BY <1>1, DragTop
<1>3. PICK a : a = Do("dragover", Top.n)
  OBVIOUS
<1>4. a \in Items /\ a.k = "dragover" /\ a.k \in ActKinds
  BY <1>2, <1>3, FrontIs DEF ActKinds
<1>5. todo' = <<a>> \o Tail(todo)
  BY <1>3 DEF DndOver, Then
<1>6. Shape(<<a>>) /\ ~Calm(<<a>>) /\ NoPiece(<<a>>) /\ Only(<<a>>, a) /\ Head(<<a>>) = a /\ a \notin Fronts
  BY <1>4, DragKinds, ShapeOne
<1>7. Turns(todo, todo', a, {})
  BY <1>6, <1>1, <1>2, <1>5, TurnsCat
<1>. QED
  BY <1>7, <1>1, <1>2, <1>3

\* The button is up: a drop where the last dragover was prevented, and the end of the drag.
LEMMA DndDropList ==
    ASSUME SoundInv, DndDrop
    PROVE  /\ todo # <<>> /\ Top.k = "dndDrop" /\ Top \in Items
           /\ IF dnd.started THEN Turns(todo, todo', Do("dragEnd", NoNode), {"drop"})
                             ELSE Turns(todo, todo', Do("dndReset", NoNode), {})
           /\ todo' # <<>> /\ Head(todo').k = "drop" /\ Head(todo').b # "file" =>
                dnd.allowed /\ Head(todo').n = dnd.target
<1>1. todo # <<>> /\ Top.k = "dndDrop" /\ Top.k \in ActKinds
  BY DEF DndDrop, Step, At, Busy, ActKinds
<1>2. Shape(todo) /\ HitOrAct(Head(todo)) /\ Top \in Items /\ dnd.target \in MaybeNode /\ NoNode \in MaybeNode
  BY <1>1, DragTop DEF SoundInv, DomTypes, MaybeNode
<1>3. PICK a, b, c : a = Do("drop", dnd.target) /\ b = Do("dragEnd", NoNode) /\ c = Do("dndReset", NoNode)
  OBVIOUS
<1>4. /\ a \in Items /\ a.k = "drop" /\ a.n = dnd.target /\ b \in Items /\ b.k = "dragEnd"
      /\ c \in Items /\ c.k = "dndReset" /\ b.k \in ActKinds /\ c.k \in ActKinds
  BY <1>2, <1>3, FrontIs DEF ActKinds
<1>5. /\ Shape(<<b>>) /\ ~Calm(<<b>>) /\ NoPiece(<<b>>) /\ Only(<<b>>, b) /\ Head(<<b>>) = b /\ <<b>> # <<>>
      /\ b \notin Fronts /\ Inner(<<b>>)
  BY <1>4, DragKinds, ShapeOne
<1>6. /\ Shape(<<c>>) /\ ~Calm(<<c>>) /\ NoPiece(<<c>>) /\ Only(<<c>>, c) /\ Head(<<c>>) = c /\ <<c>> # <<>>
      /\ c \notin Fronts
  BY <1>4, DragKinds, ShapeOne
<1>7. CASE ~dnd.started
  <2>1. todo' = <<c>> \o Tail(todo)
    BY <1>3, <1>7 DEF DndDrop, Then
  <2>2. Turns(todo, todo', c, {}) /\ Head(todo') = c
    BY <2>1, <1>1, <1>2, <1>6, TurnsCat
  <2>. QED
    BY <2>2, <1>1, <1>2, <1>3, <1>4, <1>7
<1>8. CASE dnd.started
  <2>1. PICK x : /\ todo' = x \o Tail(todo)
                 /\ x = <<>> \o <<b>> \/ (dnd.allowed /\ x = <<a>> \o <<b>>)
    BY <1>3, <1>8 DEF DndDrop, Then
  <2>2. CASE x = <<>> \o <<b>>
    <3>1. x = <<b>>
      BY <1>4, <2>2, ConcatEmptySeq
    <3>2. Turns(todo, todo', b, {"drop"}) /\ Head(todo') = b
      BY <3>1, <2>1, <1>1, <1>2, <1>5, TurnsCat
    <3>. QED
      BY <3>2, <1>1, <1>2, <1>3, <1>4, <1>8
  <2>3. CASE dnd.allowed /\ x = <<a>> \o <<b>>
    <3>1. Mate(a, b)
      BY <1>4 DEF Mate
    <3>2. NodeFits(a) /\ ~HitOrAct(a) /\ a \notin Acts /\ a.k \notin FocusPieces
      BY <1>4, DragKinds
    <3>3. Shape(x) /\ x # <<>> /\ Head(x) = a /\ ~Calm(x) /\ Only(x, b) /\ NoPiece(x)
      BY <3>1, <3>2, <2>3, <1>4, <1>5, ConsShape
    <3>4. Turns(todo, todo', b, {"drop"}) /\ Head(todo') = a
      BY <3>3, <2>1, <1>1, <1>2, <1>4, TurnsCat
    <3>. QED
      BY <3>4, <2>3, <1>1, <1>2, <1>3, <1>4, <1>8
  <2>. QED
    BY <2>1, <2>2, <2>3
<1>. QED
  BY <1>7, <1>8

\* The end of the drag: the source hears of it, when there is one, and the drag is forgotten.
LEMMA DragEndList ==
    ASSUME SoundInv, DragEnd
    PROVE  /\ todo # <<>> /\ Top.k = "dragEnd" /\ Top \in Items
           /\ Turns(todo, todo', Do("dndReset", NoNode), {"dragend"})
           /\ todo' # <<>> /\ (dnd.source # NoNode => Head(todo').k = "dragend")
           /\ Head(todo').k = "dragend" => Head(todo').n = dnd.source
<1>1. todo # <<>> /\ Top.k = "dragEnd" /\ Top.k \in ActKinds
  BY DEF DragEnd, Step, At, Busy, ActKinds
<1>2. Shape(todo) /\ HitOrAct(Head(todo)) /\ Top \in Items /\ dnd.source \in MaybeNode /\ NoNode \in MaybeNode
  BY <1>1, DragTop DEF SoundInv, DomTypes, MaybeNode
<1>3. PICK a, b : a = Do("dragend", dnd.source) /\ b = Do("dndReset", NoNode)
  OBVIOUS
<1>4. /\ a \in Items /\ a.k = "dragend" /\ a.n = dnd.source /\ b \in Items /\ b.k = "dndReset"
      /\ b.k \in ActKinds
  BY <1>2, <1>3, FrontIs DEF ActKinds
<1>5. /\ Shape(<<b>>) /\ ~Calm(<<b>>) /\ NoPiece(<<b>>) /\ Only(<<b>>, b) /\ Head(<<b>>) = b /\ <<b>> # <<>>
      /\ b \notin Fronts /\ Inner(<<b>>)
  BY <1>4, DragKinds, ShapeOne
<1>6. PICK x : /\ todo' = x \o Tail(todo)
               /\ (x = <<>> \o <<b>> /\ dnd.source = NoNode) \/ (x = <<a>> \o <<b>> /\ dnd.source # NoNode)
  BY <1>3 DEF DragEnd, Then
<1>7. CASE x = <<>> \o <<b>> /\ dnd.source = NoNode
  <2>1. x = <<b>>
    BY <1>4, <1>7, ConcatEmptySeq
  <2>2. Turns(todo, todo', b, {"dragend"}) /\ Head(todo') = b /\ todo' # <<>>
    BY <2>1, <1>1, <1>2, <1>5, <1>6, TurnsCat
  <2>. QED
    BY <2>2, <1>1, <1>2, <1>3, <1>4, <1>7
<1>8. CASE x = <<a>> \o <<b>> /\ dnd.source # NoNode
  <2>1. Mate(a, b)
    BY <1>4 DEF Mate
  <2>2. NodeFits(a) /\ ~HitOrAct(a) /\ a \notin Acts /\ a.k \notin FocusPieces
    BY <1>4, DragKinds
  <2>3. Shape(x) /\ x # <<>> /\ Head(x) = a /\ ~Calm(x) /\ Only(x, b) /\ NoPiece(x)
    BY <2>1, <2>2, <1>4, <1>5, <1>8, ConsShape
  <2>4. Turns(todo, todo', b, {"dragend"}) /\ Head(todo') = a /\ todo' # <<>>
    BY <2>3, <1>1, <1>2, <1>4, <1>6, TurnsCat
  <2>. QED
    BY <2>4, <1>1, <1>2, <1>3, <1>4, <1>8
<1>. QED
  BY <1>6, <1>7, <1>8

-----------------------------------------------------------------------------
(* Dispatching an event. *)

\* What a handler does after an event.
LEMMA AfterFacts ==
    ASSUME SoundInv, todo # <<>>, Top.k \in Events, NEW v \in BOOLEAN, NEW x, x = After(Top, v)
    PROVE  /\ Shape(x) /\ Inner(x) /\ NoPiece(x)
           /\ Top.k \notin {"mousedown", "dragstart", "dragover"} => Quiet(x)
           /\ Top.k = "mousedown" =>
                \E e \in Items : e.k = "pressed" /\ (e.b = "left" => Top.b = "left") /\ Only(x, e) /\ ~Calm(x)
           /\ Top.k = "dragstart" =>
                Only(x, Do(IF v THEN "dndReset" ELSE "dndStarted", NoNode)) /\ ~Calm(x)
           /\ Top.k = "dragover" /\ Top.b # "file" =>
                Only(x, Do(IF v THEN "dndAllow" ELSE "dndDeny", NoNode)) /\ ~Calm(x)
           /\ Top.k = "dragover" /\ Top.b = "file" => Calm(x)
           /\ Top.k \in {"blur", "focus", "change"} => x = <<>>
<1>1. /\ Top \in Items /\ Top.n \in MaybeNode /\ Top.b \in Details /\ Shape(todo) /\ NoNode \in MaybeNode
      /\ todo \in Seq(Items) /\ Tail(todo) \in Seq(Items)
  BY TopFacts DEF SoundInv, MaybeNode
<1>2. CASE Top.k = "mousedown"
  <2>1. PICK e : e = Item("pressed", Top.n, IF v THEN "no" ELSE Top.b)
    OBVIOUS
  <2>2. x = <<e>>
    BY <1>2, <2>1 DEF After
  <2>3. "pressed" \in Events \cup Pieces /\ (IF v THEN "no" ELSE Top.b) \in Details
    BY <1>1, KindFacts DEF ActKinds, Details
  <2>4. e \in Items /\ e.k = "pressed" /\ e.b = (IF v THEN "no" ELSE Top.b) /\ e.n # NoNode
    <3>1. Top.n # NoNode
      BY <1>1, <1>2, TailShape DEF Top, NodeFits
    <3>. QED
      BY <3>1, <2>1, <2>3, <1>1, ItemFacts
  <2>5. e.k \in ActKinds \ {"dragstart"}
    BY <2>4 DEF ActKinds
  <2>6. Shape(x) /\ Inner(x) /\ NoPiece(x) /\ Only(x, e) /\ ~Calm(x)
    BY <2>2, <2>4, <2>5, DragKinds, ShapeOne
  <2>. QED
    BY <2>4, <2>6, <1>2
<1>3. CASE Top.k = "dragstart"
  <2>1. PICK e : e = Do(IF v THEN "dndReset" ELSE "dndStarted", NoNode)
    OBVIOUS
  <2>2. x = <<e>>
    BY <1>3, <2>1 DEF After
  <2>3. e \in Items /\ e.k \in {"dndReset", "dndStarted"}
    BY <2>1, <1>1, FrontIs
  <2>4. e.k \in ActKinds \ {"dragstart"}
    BY <2>3 DEF ActKinds
  <2>5. Shape(x) /\ Inner(x) /\ NoPiece(x) /\ Only(x, e) /\ ~Calm(x)
    BY <2>2, <2>3, <2>4, DragKinds, ShapeOne
  <2>. QED
    BY <2>1, <2>5, <1>3
<1>4. CASE Top.k = "dragover" /\ Top.b # "file"
  <2>1. PICK e : e = Do(IF v THEN "dndAllow" ELSE "dndDeny", NoNode)
    OBVIOUS
  <2>2. x = <<e>>
    BY <1>4, <2>1 DEF After
  <2>3. e \in Items /\ e.k \in {"dndAllow", "dndDeny"}
    BY <2>1, <1>1, FrontIs
  <2>4. e.k \in ActKinds \ {"dragstart"}
    BY <2>3 DEF ActKinds
  <2>5. Shape(x) /\ Inner(x) /\ NoPiece(x) /\ Only(x, e) /\ ~Calm(x)
    BY <2>2, <2>3, <2>4, DragKinds, ShapeOne
  <2>. QED
    BY <2>1, <2>5, <1>4
<1>5. CASE Top.k = "mouseup"
  <2>1. PICK e : e = Item("released", Top.n, Top.b)
    OBVIOUS
  <2>2. x = <<e>> /\ e \in Plain
    BY <1>1, <1>5, <2>1, PlainIs DEF After, PlainKinds
  <2>3. Shape(x) /\ Inner(x) /\ NoPiece(x) /\ Quiet(x)
    BY <2>2, PlainFacts, ShapeOne
  <2>. QED
    BY <2>3, <1>5
<1>6. CASE Top.k = "click" /\ ~v
  <2>1. Tail(todo) # <<>> /\ Tail(todo) \in Seq(Items)
    BY <1>1, <1>6, TailShape DEF Needs, Top
  <2>2. todo[2] \in Items
    BY <2>1, <1>1, HeadTailProperties
  <2>3. todo[2].n \in MaybeNode
    BY <2>2, ItemParts
  <2>4. PICK e, f : e = Do("touch", Top.n) /\ f = Do("touch", todo[2].n)
    OBVIOUS
  <2>5. x = <<e, f>> /\ e \in Plain /\ f \in Plain
    BY <1>1, <1>6, <2>3, <2>4, PlainIs DEF After, PlainKinds, Details
  <2>6. Shape(x) /\ Inner(x) /\ NoPiece(x) /\ Quiet(x)
    BY <2>5, PlainFacts, ShapeTwo
  <2>. QED
    BY <2>6, <1>6
<1>7. CASE Top.k = "keydown"
  <2>1. PICK a, b, c : /\ a = Do("tab", NoNode) /\ b = Do("edit", NoNode)
                       /\ c = Item("suppress", NoNode, IF v \/ Top.b = "Tab" THEN "no" ELSE "-")
    OBVIOUS
  <2>2. a \in Plain /\ c \in Plain /\ b \in Items /\ b.k = "edit" /\ c.k = "suppress"
    <3>1. (IF v \/ Top.b = "Tab" THEN "no" ELSE "-") \in Details
      BY DEF Details
    <3>2. a \in Plain /\ c \in Plain
      BY <3>1, <2>1, <1>1, PlainIs DEF PlainKinds
    <3>. QED
      BY <3>2, <2>1, <1>1, FrontIs, DoParts
  <2>3. x = <<a>> \o <<c>> \/ x = <<>> \o <<c>> \/ x = <<b>> \o <<c>>
    BY <1>7, <2>1 DEF After
  <2>4. Shape(<<c>>) /\ Inner(<<c>>) /\ NoPiece(<<c>>) /\ Quiet(<<c>>) /\ Head(<<c>>) = c /\ <<c>> # <<>>
        /\ <<c>> \in Seq(Items) /\ Calm(<<c>>)
    <3>1. Shape(<<c>>) /\ Inner(<<c>>) /\ NoPiece(<<c>>) /\ Quiet(<<c>>) /\ Head(<<c>>) = c /\ <<c>> # <<>>
          /\ Calm(<<c>>)
      BY <2>2, PlainFacts, ShapeOne
    <3>. QED
      BY <3>1 DEF Shape
  <2>5. ASSUME NEW e \in Items, x = <<e>> \o <<c>>, NodeFits(e), Needs(e) => Mate(e, c), ~HitOrAct(e),
               e \notin Fronts, e.k \notin FocusPieces
        PROVE  Shape(x) /\ Inner(x) /\ NoPiece(x) /\ Quiet(x)
    <3>1. Shape(x) /\ Inner(x) /\ NoPiece(x)
      BY <2>4, <2>5, ConsShape
    <3>2. <<e>> \in Seq(Items) /\ Len(<<e>>) = 1 /\ <<e>>[1] = e
      OBVIOUS
    <3>3. \A p \in 1..Len(x) : \/ p \in 1..Len(<<e>>) /\ x[p] = <<e>>[p]
                               \/ p > Len(<<e>>) /\ p - Len(<<e>>) \in 1..Len(<<c>>) /\ x[p] = <<c>>[p - Len(<<e>>)]
      BY <3>2, <2>4, <2>5, PushAt
    <3>4. Quiet(x)
      BY <3>2, <3>3, <2>4, <2>5 DEF Quiet
    <3>. QED
      BY <3>1, <3>4
  <2>6. CASE x = <<a>> \o <<c>>
    BY <2>2, <2>5, <2>6, <1>7, PlainFacts
  <2>7. CASE x = <<b>> \o <<c>>
    <3>1. Mate(b, c) /\ NodeFits(b)
      BY <2>2 DEF Mate, NodeFits
    <3>2. ~HitOrAct(b) /\ b \notin Fronts /\ b.k \notin FocusPieces
      BY <2>2, KindSays DEF ActKinds, FocusPieces
    <3>. QED
      BY <3>1, <3>2, <2>2, <2>5, <2>7, <1>7
  <2>8. CASE x = <<>> \o <<c>>
    <3>1. x = <<c>>
      BY <2>4, <2>8, ConcatEmptySeq
    <3>. QED
      BY <3>1, <2>4, <1>7
  <2>. QED
    BY <2>3, <2>6, <2>7, <2>8
<1>8. CASE /\ Top.k \notin {"mousedown", "dragstart", "mouseup", "keydown"}
           /\ ~(Top.k = "click" /\ ~v) /\ ~(Top.k = "dragover" /\ Top.b # "file")
  <2>1. x = <<>>
    BY <1>8 DEF After
  <2>. QED
    BY <2>1, <1>8, EmptyShape, EmptyQuiet
<1>. QED
  BY <1>2, <1>3, <1>4, <1>5, <1>6, <1>7, <1>8

\* The list after an event, and after one whose listener called focus().
LEMMA FireList ==
    ASSUME SoundInv, todo # <<>>, Top.k \in Events, NEW v \in BOOLEAN, NEW u,
           \/ u = After(Top, v) \o Tail(todo)
           \/ \E m \in MaybeNode : u = <<Do("call", m)>> \o (After(Top, v) \o Tail(todo))
    PROVE  /\ Shape(u)
           /\ NoPiece(Tail(todo)) => NoPiece(u)
           /\ Top.k \notin {"mousedown", "dragstart", "dragover"} => Passes(todo, u, {"call"})
           /\ Top.k = "mousedown" =>
                \E e \in Items : e.k = "pressed" /\ (e.b = "left" => Top.b = "left") /\ Turns(todo, u, e, {"call"})
           /\ Top.k = "dragstart" =>
                Turns(todo, u, Do(IF v THEN "dndReset" ELSE "dndStarted", NoNode), {"call"})
           /\ Top.k = "dragover" /\ Top.b # "file" =>
                Turns(todo, u, Do(IF v THEN "dndAllow" ELSE "dndDeny", NoNode), {"call"})
           /\ Top.k = "dragover" /\ Top.b = "file" => Settles(todo, u, {"call"})
<1>1. Top \in Items /\ Top = Head(todo) /\ Shape(todo)
  BY TopFacts DEF SoundInv, Top
<1>2. PICK x : x = After(Top, v)
  OBVIOUS
<1>3. PICK w : w = x \o Tail(todo)
  OBVIOUS
<1>4. Shape(x) /\ Inner(x) /\ NoPiece(x)
  BY <1>2, AfterFacts
<1>5. x # <<>> => Head(x) \notin Fronts
  <2>1. x \in Seq(Items)
    BY <1>4 DEF Shape
  <2>2. x # <<>> => 1 \in 1..Len(x) /\ Head(x) = x[1]
    BY <2>1
  <2>. QED
    BY <2>2, <1>4 DEF Inner
<1>6. ASSUME Shape(w), Inner(w), NEW m \in MaybeNode, u = <<Do("call", m)>> \o w
      PROVE  /\ Shape(u) /\ u # <<>> /\ Head(u).k = "call"
             /\ (Calm(w) => Calm(u)) /\ (~Calm(w) => ~Calm(u)) /\ (NoPiece(w) => NoPiece(u))
             /\ \A f : Only(w, f) => Only(u, f)
             /\ \A t : Passes(t, w, {}) => Passes(t, u, {"call"})
  <2>1. PICK c : c = Do("call", m)
    OBVIOUS
  <2>2. c \in Items /\ c.k = "call"
    BY <2>1, FrontIs
  <2>3. NodeFits(c) /\ ~HitOrAct(c) /\ c \notin Acts /\ ~Needs(c) /\ c.k \notin FocusPieces
    BY <2>2, FocusKinds
  <2>4. /\ Shape(u) /\ u # <<>> /\ Head(u).k = "call"
        /\ (Calm(w) => Calm(u)) /\ (~Calm(w) => ~Calm(u)) /\ (NoPiece(w) => NoPiece(u))
        /\ \A f : Only(w, f) => Only(u, f)
    BY <2>1, <2>2, <2>3, <1>6, ConsShape
  <2>5. ASSUME NEW t, Passes(t, w, {}) PROVE Passes(t, u, {"call"})
    <3>1. c \in Fronts => c.k \in {"call"}
      BY <2>2
    <3>2. Needs(c) => w # <<>> /\ Mate(c, Head(w))
      BY <2>3
    <3>3. Passes(t, <<c>> \o w, {"call"})
      BY <3>1, <3>2, <2>2, <2>3, <2>5, PassesCons
    <3>. QED
      BY <3>3, <2>1, <1>6
  <2>. QED
    BY <2>4, <2>5
<1>7. u = w \/ \E m \in MaybeNode : u = <<Do("call", m)>> \o w
  BY <1>2, <1>3
<1>8. CASE Top.k \notin {"mousedown", "dragstart", "dragover"}
  <2>1. Head(todo) \notin Acts
    BY <1>1, <1>8, KindSays DEF ActKinds, Events
  <2>2. Quiet(x)
    BY <1>2, <1>8, AfterFacts
  <2>3. Passes(todo, w, {}) /\ (NoPiece(Tail(todo)) => NoPiece(w))
    BY <2>1, <2>2, <1>1, <1>3, <1>4, <1>5, PassesCat
  <2>4. Shape(w) /\ Inner(w)
    BY <2>3, InnerPasses
  <2>5. Passes(todo, w, {"call"})
    BY <2>3 DEF Passes
  <2>. QED
    BY <2>3, <2>4, <2>5, <1>6, <1>7, <1>8
<1>9. ASSUME Top.k \in {"mousedown", "dragstart", "dragover"}
      PROVE  /\ \A f : Only(x, f) /\ ~Calm(x) => Turns(todo, u, f, {"call"})
             /\ Calm(x) => Settles(todo, u, {"call"})
             /\ Shape(u) /\ (NoPiece(Tail(todo)) => NoPiece(u))
  <2>1. HitOrAct(Head(todo))
    BY <1>1, <1>9, KindSays DEF ActKinds
  <2>2. PICK r : r = Tail(todo)
    OBVIOUS
  <2>3. Shape(r) /\ Inner(r) /\ Calm(r)
    BY <2>1, <2>2, <1>1, TailShape
  <2>4. Shape(w) /\ Inner(w) /\ (NoPiece(w) <=> NoPiece(x) /\ NoPiece(r)) /\ (Calm(w) <=> Calm(x) /\ Calm(r))
    BY <2>2, <2>3, <1>3, <1>4, ShapeCat
  <2>5. \A f : Only(x, f) => Only(w, f)
    <3>1. \A f : Only(r, f)
      BY <2>3 DEF Only, Calm
    <3>2. \A f : Only(x, f) /\ Only(r, f) => Only(w, f)
      BY <2>2, <2>3, <1>3, <1>4, ShapeCat
    <3>. QED
      BY <3>1, <3>2
  <2>6. /\ Shape(u) /\ (Calm(w) => Calm(u)) /\ (~Calm(w) => ~Calm(u)) /\ (NoPiece(w) => NoPiece(u))
        /\ \A f : Only(w, f) => Only(u, f)
    BY <2>4, <1>6, <1>7
  <2>7. u # <<>> /\ Head(u) \in Fronts => Head(u).k \in {"call"}
    <3>1. w # <<>> => Head(w) \notin Fronts
      <4>1. w \in Seq(Items)
        BY <2>4 DEF Shape
      <4>2. w # <<>> => 1 \in 1..Len(w) /\ Head(w) = w[1]
        BY <4>1
      <4>. QED
        BY <4>2, <2>4 DEF Inner
    <3>. QED
      BY <3>1, <2>4, <1>6, <1>7
  <2>. QED
    BY <2>2, <2>3, <2>4, <2>5, <2>6, <2>7, <1>4 DEF Turns, Settles
<1>10. CASE Top.k = "mousedown"
  <2>1. PICK e \in Items : e.k = "pressed" /\ (e.b = "left" => Top.b = "left") /\ Only(x, e) /\ ~Calm(x)
    BY <1>2, <1>10, AfterFacts
  <2>. QED
    BY <2>1, <1>9, <1>10
<1>11. CASE Top.k = "dragstart"
  <2>1. Only(x, Do(IF v THEN "dndReset" ELSE "dndStarted", NoNode)) /\ ~Calm(x)
    BY <1>2, <1>11, AfterFacts
  <2>. QED
    BY <2>1, <1>9, <1>11
<1>12. CASE Top.k = "dragover" /\ Top.b # "file"
  <2>1. Only(x, Do(IF v THEN "dndAllow" ELSE "dndDeny", NoNode)) /\ ~Calm(x)
    BY <1>2, <1>12, AfterFacts
  <2>. QED
    BY <2>1, <1>9, <1>12
<1>13. CASE Top.k = "dragover" /\ Top.b = "file"
  <2>1. Calm(x)
    BY <1>2, <1>13, AfterFacts
  <2>. QED
    BY <2>1, <1>9, <1>13
<1>. QED
  BY <1>8, <1>10, <1>11, <1>12, <1>13

-----------------------------------------------------------------------------
(* The list that an input starts with. *)

\* The list of a handler that begins.
Fresh(u) == Shape(u) /\ Inner(u) /\ NoPiece(u)

\* The pointer moves.
LEMMA MoveList ==
    ASSUME SoundInv, NEW p \in Positions, Move(p)
    PROVE  todo = <<>> /\ Fresh(todo') /\ Only(todo', Do("dndBegin", NoNode)) /\ ~Calm(todo')
<1>1. todo = <<>> /\ NoNode \in MaybeNode /\ dragRange \in MaybeNode /\ dragRange \in Ranges \cup {NoNode}
  BY DEF Move, Handler, Input, Idle, SoundInv, DomTypes, MaybeNode
<1>2. PICK a, b, c : a = Do("range", dragRange) /\ b = Do("dndBegin", NoNode) /\ c = Do("hover", NoNode)
  OBVIOUS
<1>3. /\ a \in Items /\ a.k = "range" /\ a.n = dragRange /\ b \in Items /\ b.k = "dndBegin" /\ c \in Plain
      /\ b.k \in ActKinds \ {"dragstart"}
  BY <1>1, <1>2, FrontIs, PlainIs DEF PlainKinds, Details, ActKinds
<1>4. PICK y : y = <<b, c>>
  OBVIOUS
<1>5. Shape(y) /\ Inner(y) /\ NoPiece(y) /\ Only(y, b) /\ ~Calm(y) /\ y \in Seq(Items)
  <2>1. Shape(y) /\ Inner(y) /\ NoPiece(y) /\ Only(y, b) /\ ~Calm(y)
    BY <1>3, <1>4, PlainFacts, DragKinds, ShapeTwo
  <2>. QED
    BY <2>1 DEF Shape
<1>6. todo' = <<>> \o y \/ (dragRange # NoNode /\ todo' = <<a>> \o y)
  BY <1>2, <1>4 DEF Move, Handler
<1>7. CASE todo' = <<>> \o y
  <2>1. todo' = y
    BY <1>5, <1>7, ConcatEmptySeq
  <2>. QED
    BY <2>1, <1>1, <1>2, <1>5 DEF Fresh
<1>8. CASE dragRange # NoNode /\ todo' = <<a>> \o y
  <2>1. NodeFits(a) /\ ~Needs(a)
    BY <1>1, <1>3, <1>8 DEF NodeFits, Needs
  <2>2. ~HitOrAct(a) /\ a \notin Acts /\ a \notin Fronts /\ a.k \notin FocusPieces
    BY <1>3, KindSays DEF ActKinds, FocusPieces
  <2>3. Shape(todo') /\ Inner(todo') /\ NoPiece(todo') /\ Only(todo', b) /\ ~Calm(todo')
    BY <2>1, <2>2, <1>3, <1>5, <1>8, ConsShape
  <2>. QED
    BY <2>3, <1>1, <1>2 DEF Fresh
<1>. QED
  BY <1>6, <1>7, <1>8

\* A button is pressed.
LEMMA PressList ==
    ASSUME SoundInv, NEW b \in {"left", "right"}, Press(b)
    PROVE  /\ todo = <<>> /\ Fresh(todo') /\ ~Calm(todo')
           /\ Only(todo', Item("mousedown", Under, b))
<1>1. todo = <<>> /\ Under \in MaybeNode /\ Under # NoNode /\ todo' = <<Item("mousedown", Under, b)>>
  BY HitFacts, Tree DEF Press, Handler, Input, Idle, SoundInv, MaybeNode
<1>2. PICK e : e = Item("mousedown", Under, b)
  OBVIOUS
<1>3. "mousedown" \in Events \cup Pieces /\ b \in Details
  BY KindFacts DEF ActKinds, Details
<1>4. e \in Items /\ e.k = "mousedown" /\ e.n # NoNode
  BY <1>1, <1>2, <1>3, ItemFacts
<1>5. e.k \in ActKinds \ {"dragstart"}
  BY <1>4 DEF ActKinds
<1>6. Shape(<<e>>) /\ Inner(<<e>>) /\ NoPiece(<<e>>) /\ Only(<<e>>, e) /\ ~Calm(<<e>>)
  BY <1>4, <1>5, DragKinds, ShapeOne
<1>. QED
  BY <1>1, <1>2, <1>6 DEF Fresh

\* A button is let go.
LEMMA ReleaseList ==
    ASSUME SoundInv, NEW b \in {"left", "right"}, Release(b)
    PROVE  /\ todo = <<>> /\ Fresh(todo')
           /\ IF dnd.source = NoNode THEN Calm(todo')
              ELSE Only(todo', Do("dndDrop", NoNode)) /\ ~Calm(todo')
<1>1. todo = <<>> /\ Under \in MaybeNode /\ NoNode \in MaybeNode
  BY HitFacts DEF Release, Handler, Input, Idle, SoundInv, MaybeNode
<1>2. PICK a, c, d, f : /\ a = Do("dndDrop", NoNode) /\ c = Do("rangeEnd", NoNode)
                        /\ d = Item("mouseup", Under, b) /\ f = Do("unpress", NoNode)
  OBVIOUS
<1>3. a \in Items /\ a.k = "dndDrop" /\ a.k \in ActKinds \ {"dragstart"}
  BY <1>1, <1>2, FrontIs DEF ActKinds
<1>4. c \in Plain /\ d \in Plain /\ f \in Plain
  BY <1>1, <1>2, PlainIs DEF PlainKinds, Details
<1>5. PICK y : y = <<c, d, f>>
  OBVIOUS
<1>6. Shape(y) /\ Inner(y) /\ NoPiece(y) /\ Calm(y) /\ y \in Seq(Items)
  <2>1. Shape(y) /\ Inner(y) /\ NoPiece(y) /\ Calm(y)
    BY <1>4, <1>5, PlainFacts, ShapeThree
  <2>. QED
    BY <2>1 DEF Shape
<1>7. (dnd.source = NoNode /\ todo' = <<>> \o y) \/ (dnd.source # NoNode /\ todo' = <<a>> \o y)
  BY <1>2, <1>5 DEF Release, Handler
<1>8. CASE dnd.source = NoNode /\ todo' = <<>> \o y
  <2>1. todo' = y
    BY <1>6, <1>8, ConcatEmptySeq
  <2>. QED
    BY <2>1, <1>1, <1>6, <1>8 DEF Fresh
<1>9. CASE dnd.source # NoNode /\ todo' = <<a>> \o y
  <2>1. Shape(todo') /\ Inner(todo') /\ NoPiece(todo') /\ Only(todo', a) /\ ~Calm(todo')
    BY <1>3, <1>6, <1>9, DragKinds, ConsShape
  <2>. QED
    BY <2>1, <1>1, <1>2, <1>9 DEF Fresh
<1>. QED
  BY <1>7, <1>8, <1>9

\* Files are dropped.
LEMMA DropFilesList ==
    ASSUME SoundInv, DropFiles
    PROVE  /\ todo = <<>> /\ Fresh(todo') /\ ~Calm(todo')
           /\ Only(todo', Item("dragover", Under, "file"))
<1>1. todo = <<>> /\ Under \in MaybeNode
  BY HitFacts DEF DropFiles, Handler, Input, Idle, SoundInv, MaybeNode
<1>2. PICK a, c, d : /\ a = Do("dragenter", Under) /\ c = Item("dragover", Under, "file")
                     /\ d = Item("drop", Under, "file")
  OBVIOUS
<1>3. a \in Plain
  BY <1>1, <1>2, PlainIs DEF PlainKinds, Details
<1>4. "dragover" \in Events \cup Pieces /\ "drop" \in Events \cup Pieces /\ "file" \in Details
  BY KindFacts DEF ActKinds, Details
<1>5. c \in Items /\ c.k = "dragover" /\ d \in Items /\ d.k = "drop" /\ d.b = "file"
  BY <1>1, <1>2, <1>4, ItemFacts
<1>6. d \in Plain /\ c.k \in ActKinds \ {"dragstart"}
  BY <1>5 DEF Plain, ActKinds
<1>7. todo' = <<a, c, d>>
  BY <1>2 DEF DropFiles, Handler
<1>8. Shape(todo') /\ Inner(todo') /\ NoPiece(todo') /\ Only(todo', c) /\ ~Calm(todo')
  <2>1. PICK u : u = <<a, c, d>>
    OBVIOUS
  <2>2. Shape(u) /\ Inner(u) /\ NoPiece(u) /\ Only(u, c) /\ ~Calm(u)
    BY <2>1, <1>3, <1>5, <1>6, PlainFacts, DragKinds, ShapeThree
  <2>. QED
    BY <2>1, <2>2, <1>7
<1>. QED
  BY <1>1, <1>2, <1>8 DEF Fresh

\* The inputs that the drag has no part in.
LEMMA OtherInputList ==
    ASSUME SoundInv, PressScrollbar \/ ReleaseCapture \/ Char \/ \E key \in {"Tab", "-"} : KeyDown(key)
    PROVE  todo = <<>> /\ Fresh(todo') /\ Calm(todo')
<1>0. ASSUME NEW n \in MaybeNode, NEW u, u = <<Do("touch", n)>>
      PROVE  Fresh(u) /\ Calm(u)
  <2>1. PICK c : c = Do("touch", n)
    OBVIOUS
  <2>2. c \in Plain /\ u = <<c>>
    BY <1>0, <2>1, PlainIs DEF PlainKinds, Details
  <2>. QED
    BY <2>2, PlainFacts, ShapeOne DEF Fresh
<1>1. CASE PressScrollbar \/ ReleaseCapture
  <2>1. todo = <<>> /\ (todo' = <<>> \/ todo' = <<Do("touch", press)>>)
    BY <1>1 DEF PressScrollbar, ReleaseCapture, Handler, Input, Idle
  <2>2. press \in MaybeNode
    BY DEF SoundInv, DomTypes
  <2>. QED
    BY <1>0, <2>1, <2>2, EmptyShape DEF Fresh
<1>2. CASE Char
  <2>1. focus \in MaybeNode
    BY DEF SoundInv, DomTypes
  <2>2. PICK a, c : a = Do("input", focus) /\ c = Do("touch", focus)
    OBVIOUS
  <2>3. a \in Plain /\ c \in Plain
    BY <2>1, <2>2, PlainIs DEF PlainKinds, Details
  <2>4. todo = <<>> /\ (todo' = <<>> \/ todo' = <<a, c>> \/ todo' = <<Do("touch", focus)>>)
    BY <1>2, <2>2 DEF Char, Handler, Input, Idle
  <2>5. PICK u : u = <<a, c>>
    OBVIOUS
  <2>6. Shape(u) /\ Inner(u) /\ NoPiece(u) /\ Calm(u)
    BY <2>3, <2>5, PlainFacts, ShapeTwo
  <2>. QED
    BY <1>0, <2>1, <2>4, <2>5, <2>6, EmptyShape DEF Fresh
<1>3. CASE \E key \in {"Tab", "-"} : KeyDown(key)
  <2>1. PICK key \in {"Tab", "-"} : KeyDown(key)
    BY <1>3
  <2>2. PICK n \in MaybeNode : n = IF focus = NoNode THEN Body ELSE focus
    BY Tree DEF SoundInv, DomTypes, MaybeNode
  <2>3. PICK e : e = Item("keydown", n, key)
    OBVIOUS
  <2>4. todo = <<>> /\ todo' = <<e>>
    BY <2>1, <2>2, <2>3 DEF KeyDown, Handler, Input, Idle
  <2>5. e \in Plain
    BY <2>2, <2>3, PlainIs DEF PlainKinds, Details
  <2>6. Shape(<<e>>) /\ Inner(<<e>>) /\ NoPiece(<<e>>) /\ Calm(<<e>>)
    BY <2>5, PlainFacts, ShapeOne
  <2>. QED
    BY <2>4, <2>6 DEF Fresh
<1>. QED
  BY <1>1, <1>2, <1>3

\* A script between two inputs moves the focus or destroys nodes.
LEMMA TaskList ==
    ASSUME SoundInv, Task
    PROVE  /\ todo = <<>> /\ Shape(todo') /\ NoPiece(todo') /\ Calm(todo')
           /\ todo' # <<>> => Head(todo').k = "call"
<1>1. todo = <<>>
  BY DEF Task, Idle
<1>2. CASE todo' = <<>>
  BY <1>1, <1>2, EmptyShape
<1>3. ASSUME NEW m \in CanFocus, FocusCall(m, todo)
      PROVE  Shape(todo') /\ NoPiece(todo') /\ Calm(todo') /\ Head(todo').k = "call"
  <2>1. m \in MaybeNode
    BY DEF CanFocus, SoundInv, DomTypes, MaybeNode
  <2>2. PICK e : e = Do("call", m)
    OBVIOUS
  <2>3. e \in Items /\ e.k = "call"
    BY <2>1, <2>2, FrontIs
  <2>4. todo' = <<e>>
    <3>1. todo' = <<e>> \o <<>>
      BY <1>1, <1>3, <2>2 DEF FocusCall
    <3>. QED
      BY <3>1, <2>3, ConcatEmptySeq
  <2>5. Shape(<<e>>) /\ NoPiece(<<e>>) /\ Calm(<<e>>) /\ Head(<<e>>) = e
    BY <2>3, FocusKinds, ShapeOne
  <2>. QED
    BY <2>3, <2>4, <2>5
<1>. QED
  BY <1>1, <1>2, <1>3 DEF Task

-----------------------------------------------------------------------------
(* The nodes that are kept are nodes of the page. *)

\* The three ways to dispatch an event.
LEMMA FiresFacts ==
    ASSUME SoundInv, Dispatch \/ DispatchFocuses \/ DispatchDestroys
    PROVE  /\ todo # <<>> /\ ~lost /\ Top.k \in Events /\ Top.n \in live
           /\ \E v \in BOOLEAN :
                /\ Told(Top, v)
                /\ \/ todo' = After(Top, v) \o Tail(todo)
                   \/ \E m \in MaybeNode : todo' = <<Do("call", m)>> \o (After(Top, v) \o Tail(todo))
                   \/ lost' /\ todo' = <<>>
<1>1. todo # <<>> /\ ~lost /\ Top.k \in Events /\ Top.n \in live
  BY DEF Dispatch, DispatchFocuses, DispatchDestroys, Fires, Busy
<1>2. Prevents(Top) \subseteq BOOLEAN
  BY DEF Prevents
<1>3. CanFocus \subseteq MaybeNode
  BY DEF CanFocus, SoundInv, DomTypes, MaybeNode
<1>4. CASE Dispatch
  BY <1>1, <1>2, <1>4 DEF Dispatch, Then
<1>5. CASE DispatchFocuses
  BY <1>1, <1>2, <1>3, <1>5 DEF DispatchFocuses, FocusCall
<1>6. CASE DispatchDestroys
  BY <1>1, <1>2, <1>6 DEF DispatchDestroys, Then
<1>. QED
  BY <1>4, <1>5, <1>6

\* The list stays in order.
LEMMA ShapeStep ==
    ASSUME SoundInv, DomNext
    PROVE  Shape(todo')
<1>1. CASE User
  <2>1. CASE \E p \in Positions : Move(p)
    BY <2>1, MoveList DEF Fresh
  <2>2. CASE \E b \in {"left", "right"} : Press(b) \/ Release(b)
    BY <2>2, PressList, ReleaseList DEF Fresh
  <2>3. CASE DropFiles
    BY <2>3, DropFilesList DEF Fresh
  <2>4. CASE PressScrollbar \/ ReleaseCapture \/ Char \/ \E key \in {"Tab", "-"} : KeyDown(key)
    BY <2>4, OtherInputList DEF Fresh
  <2>. QED
    BY <1>1, <2>1, <2>2, <2>3, <2>4 DEF User
<1>2. CASE Dispatch \/ DispatchFocuses \/ DispatchDestroys
  BY <1>2, FiresFacts, FireList, EmptyShape
<1>3. CASE ReadsDestroyed
  BY <1>3, EmptyShape DEF ReadsDestroyed
<1>4. CASE QuietStep
  BY <1>4, QuietSteps DEF Passes
<1>5. CASE Released
  BY <1>5, ReleasedList DEF Passes
<1>6. CASE RangeEnd
  BY <1>6, RangeEndList DEF Passes
<1>7. CASE Tab
  BY <1>7, TabList DEF Passes
<1>8. CASE Call
  BY <1>8, CallList DEF Passes
<1>9. CASE Blurred
  BY <1>9, BlurredList DEF Passes
<1>10. CASE Unsnap \/ Focused
  BY <1>10, FocusEndList DEF Passes
<1>11. CASE FocusSet
  BY <1>11, FocusSetList DEF Passes
<1>12. CASE Pressed
  BY <1>12, PressedList DEF Turns, Settles
<1>13. CASE Default \/ DndStarted \/ DndReset \/ DndAnswer
  BY <1>13, SettledList DEF Settles
<1>14. CASE DndBegin
  BY <1>14, DndBeginList DEF Turns, Settles
<1>15. CASE DndHit
  BY <1>15, DndHitList DEF Turns, Settles
<1>16. CASE DndOver
  BY <1>16, DndOverList DEF Turns
<1>17. CASE DndDrop
  BY <1>17, DndDropList DEF Turns
<1>18. CASE DragEnd
  BY <1>18, DragEndList DEF Turns
<1>19. CASE Task
  BY <1>19, TaskList
<1>. QED
  BY <1>1, <1>2, <1>3, <1>4, <1>5, <1>6, <1>7, <1>8, <1>9, <1>10, <1>11, <1>12, <1>13, <1>14, <1>15, <1>16,
     <1>17, <1>18, <1>19 DEF DomNext, Pointer, Button, Focusing, QuietStep

\* The items of the list.
LEMMA ShapeItems ==
    ASSUME NEW t, Shape(t)
    PROVE  \A p \in DOMAIN t : t[p] \in Items
BY DEF Shape

\* The state apart from the list.
DragRecords == [source : MaybeNode, target : MaybeNode, started : BOOLEAN, allowed : BOOLEAN]
StateTypes == /\ live \subseteq Nodes /\ Body \in live /\ unheard \subseteq Nodes
         /\ hover \in MaybeNode /\ focus \in MaybeNode /\ press \in MaybeNode
         /\ lastClick \in MaybeNode /\ dragRange \in Ranges \cup {NoNode}
         /\ dnd \in [source : MaybeNode, target : MaybeNode, started : BOOLEAN, allowed : BOOLEAN]
         /\ scrolling \in BOOLEAN /\ suppress \in BOOLEAN /\ lost \in BOOLEAN
         /\ flag \subseteq Nodes /\ val \in [Fields -> 0..1] /\ snap \in {0, 1, NoNode}
         /\ pointer \in MaybeNode /\ down \subseteq {"left", "right"}
         /\ inputs \in 0..MaxInputs /\ acts \in 0..MaxActs
         /\ armed \in MaybeNode /\ dragging \in MaybeNode /\ accepts \in MaybeNode
         /\ owed \subseteq Text /\ odd \subseteq {"nested", "mixed"}
         /\ KeptNodesLive
\* The invariant is about the state and the list.
LEMMA HeldIs ==
    /\ SoundInv => StateTypes
    /\ StateTypes /\ Shape(todo) => SoundInv
<1>1. SoundInv => StateTypes
  BY DEF SoundInv, DomTypes, StateTypes
<1>2. Ranges \subseteq MaybeNode
  BY Controls DEF MaybeNode
<1>3. ASSUME StateTypes, Shape(todo) PROVE SoundInv
  <2>1. dragRange \in MaybeNode /\ dragRange \in Ranges \cup {NoNode}
    BY <1>2, <1>3 DEF StateTypes, MaybeNode
  <2>2. \A p \in DOMAIN todo : todo[p] \in Items
    BY <1>3, ShapeItems
  <2>3. DomTypes
    BY <2>1, <2>2, <1>3 DEF DomTypes, StateTypes
  <2>. QED
    BY <2>1, <2>3, <1>3 DEF SoundInv, StateTypes
<1>. QED
  BY <1>1, <1>3

\* What an event does to the history, and the destruction of nodes.
LEMMA ToldTypes ==
    ASSUME StateTypes, NEW v, Told(Top, v), Top.n \in MaybeNode
    PROVE  dragging' \in MaybeNode /\ accepts' \in MaybeNode /\ owed' \subseteq Text
BY DEF Told, StateTypes, MaybeNode

\* Nodes are destroyed: those that are kept are still nodes of the page, or were destroyed unheard.
LEMMA DestroyedFacts ==
    ASSUME StateTypes, NEW dead \in Emptied, Destroyed(dead)
    PROVE  /\ live' \subseteq Nodes /\ Body \in live' /\ unheard' \subseteq Nodes
           /\ hover' \in MaybeNode /\ focus' \in MaybeNode /\ press' \in MaybeNode
           /\ lastClick' \in MaybeNode /\ dragRange' \in Ranges \cup {NoNode} /\ armed' \in MaybeNode
           /\ UNCHANGED <<dnd, scrolling, control>>
           /\ (~lost => {hover', focus', press', dragRange'} \ {NoNode} \subseteq live' \cup unheard')
<1>1. /\ live \subseteq Nodes /\ Body \in live /\ Body \notin dead /\ dead \subseteq live
      /\ unheard \subseteq Nodes
      /\ hover \in MaybeNode /\ focus \in MaybeNode /\ press \in MaybeNode
      /\ lastClick \in MaybeNode /\ dragRange \in Ranges \cup {NoNode} /\ armed \in MaybeNode
      /\ NoNode \in MaybeNode
      /\ (~lost => {hover, focus, press, dragRange} \ {NoNode} \subseteq live \cup unheard)
  BY EmptiedFacts DEF StateTypes, MaybeNode, KeptNodesLive
<1>2. PICK heard \in BOOLEAN :
        /\ live' = live \ dead /\ UNCHANGED <<dnd, scrolling, control>>
        /\ unheard' = (IF heard THEN unheard ELSE unheard \cup dead)
        /\ hover' = (IF heard /\ hover \in dead THEN NoNode ELSE hover)
        /\ focus' = (IF heard /\ focus \in dead THEN NoNode ELSE focus)
        /\ press' = (IF heard /\ press \in dead THEN NoNode ELSE press)
        /\ lastClick' = (IF heard /\ lastClick \in dead THEN NoNode ELSE lastClick)
        /\ dragRange' = (IF heard /\ dragRange \in dead THEN NoNode ELSE dragRange)
        /\ armed' = (IF heard /\ armed \in dead THEN NoNode ELSE armed)
  BY DEF Destroyed
<1>3. CASE heard
  BY <1>1, <1>2, <1>3
<1>4. CASE ~heard
  BY <1>1, <1>2, <1>4
<1>. QED
  BY <1>3, <1>4

\* Inputs.
LEMMA UserTypes ==
    ASSUME SoundInv, StateTypes, User
    PROVE  StateTypes'
<1>0. Body \in Nodes /\ Under \in live /\ Under \in MaybeNode /\ NoNode \in MaybeNode /\ NoNode \notin Fields
      /\ Text \subseteq Fields
  BY HitFacts, Tree, Controls DEF SoundInv, MaybeNode, Fields
<1>1. ASSUME NEW p \in Positions, Move(p) PROVE StateTypes'
  BY <1>1, Bounds DEF Move, Handler, Input, Idle, StateTypes, KeptNodesLive, kept, control, history, Positions, MaybeNode
<1>2. ASSUME NEW b \in {"left", "right"}, Press(b) PROVE StateTypes'
  BY <1>0, <1>2, Bounds DEF Press, Handler, Input, Idle, StateTypes, KeptNodesLive, control
<1>3. ASSUME NEW b \in {"left", "right"}, Release(b) PROVE StateTypes'
  <2>1. inputs' \in 0..MaxInputs /\ UNCHANGED <<live, unheard, lost, acts>>
    BY <1>3, Bounds DEF Release, Handler, Input, StateTypes
  <2>2. scrolling' \in BOOLEAN /\ down' \subseteq {"left", "right"}
        /\ UNCHANGED <<kept, dnd, control, pointer, history>>
    BY <1>3 DEF Release, StateTypes
  <2>. QED
    BY <2>1, <2>2 DEF StateTypes, KeptNodesLive, kept, control, history
<1>4. ASSUME PressScrollbar PROVE StateTypes'
  BY <1>0, <1>4, Bounds DEF PressScrollbar, Handler, Input, Idle, StateTypes, KeptNodesLive, kept, control
<1>5. ASSUME ReleaseCapture PROVE StateTypes'
  <2>1. inputs' \in 0..MaxInputs /\ UNCHANGED <<live, unheard, lost, acts>>
    BY <1>5, Bounds DEF ReleaseCapture, Handler, Input, StateTypes
  <2>2. dnd' \in DragRecords
    BY <1>0, <1>5 DEF ReleaseCapture, StateTypes, DragRecords
  <2>3. /\ scrolling' = FALSE /\ dragRange' = NoNode /\ press' = NoNode /\ armed' = NoNode /\ dragging' = NoNode
        /\ snap' \in {0, 1, NoNode} /\ odd' \subseteq {"nested", "mixed"}
        /\ UNCHANGED <<hover, focus, lastClick, flag, val, suppress, pointer, down, accepts, owed>>
    BY <1>5 DEF ReleaseCapture, StateTypes
  <2>. QED
    BY <2>1, <2>2, <2>3, <1>0 DEF StateTypes, KeptNodesLive, DragRecords
<1>6. ASSUME DropFiles PROVE StateTypes'
  <2>1. inputs' \in 0..MaxInputs /\ UNCHANGED <<live, unheard, lost, acts>>
    BY <1>6, Bounds DEF DropFiles, Handler, Input, StateTypes
  <2>2. dnd' \in DragRecords
    BY <1>0, <1>6 DEF DropFiles, StateTypes, DragRecords
  <2>3. /\ dragging' = NoNode
        /\ UNCHANGED <<kept, scrolling, control, pointer, down, armed, accepts, owed, odd>>
    BY <1>6 DEF DropFiles
  <2>. QED
    BY <2>1, <2>2, <2>3, <1>0 DEF StateTypes, KeptNodesLive, DragRecords, kept, control
<1>7. ASSUME NEW key \in {"Tab", "-"}, KeyDown(key) PROVE StateTypes'
  BY <1>0, <1>7, Bounds DEF KeyDown, Handler, Input, Idle, StateTypes, KeptNodesLive, kept, control, history
<1>8. ASSUME Char PROVE StateTypes'
  <2>1. val' \in [Fields -> 0..1] /\ owed' \subseteq Text
    BY <1>0, <1>8 DEF Char, Edited, StateTypes
  <2>2. \/ Handler(<<>>) \/ Handler(<<Do("input", focus), Do("touch", focus)>>)
        \/ Handler(<<Do("touch", focus)>>)
    BY <1>8 DEF Char
  <2>3. inputs' \in 0..MaxInputs /\ UNCHANGED <<live, unheard, lost, acts>>
    BY <2>2, Bounds DEF Handler, Input, StateTypes
  <2>. QED
    BY <2>1, <2>3, <1>0, <1>8 DEF Char, StateTypes, KeptNodesLive, kept
<1>. QED
  BY <1>1, <1>2, <1>3, <1>4, <1>5, <1>6, <1>7, <1>8 DEF User

\* Scripts and events.
LEMMA ScriptTypes ==
    ASSUME SoundInv, StateTypes, Task \/ Dispatch \/ DispatchFocuses \/ DispatchDestroys \/ ReadsDestroyed
    PROVE  StateTypes'
<1>1. ASSUME Task PROVE StateTypes'
  <2>1. acts' \in 0..MaxActs /\ UNCHANGED <<user, dragging, accepts, owed>>
    BY <1>1, Bounds DEF Task, Scripted, StateTypes
  <2>2. CASE \E m \in CanFocus : FocusCall(m, todo)
    BY <2>1, <2>2 DEF FocusCall, StateTypes, KeptNodesLive, kept, control, user
  <2>3. CASE \E dead \in Emptied : Destroyed(dead) /\ UNCHANGED <<todo, lost, odd>>
    <3>1. PICK dead \in Emptied : Destroyed(dead) /\ UNCHANGED <<todo, lost, odd>>
      BY <2>3
    <3>2. /\ live' \subseteq Nodes /\ Body \in live' /\ unheard' \subseteq Nodes
          /\ hover' \in MaybeNode /\ focus' \in MaybeNode /\ press' \in MaybeNode
          /\ lastClick' \in MaybeNode /\ dragRange' \in Ranges \cup {NoNode} /\ armed' \in MaybeNode
          /\ UNCHANGED <<dnd, scrolling, control>>
          /\ (~lost => {hover', focus', press', dragRange'} \ {NoNode} \subseteq live' \cup unheard')
      BY <3>1, DestroyedFacts
    <3>. QED
      BY <2>1, <3>1, <3>2 DEF StateTypes, KeptNodesLive, control, user
  <2>. QED
    BY <1>1, <2>2, <2>3 DEF Task
<1>2. ASSUME Dispatch \/ DispatchFocuses \/ DispatchDestroys PROVE StateTypes'
  <2>1. todo # <<>> /\ ~lost /\ Top.n \in MaybeNode
    BY <1>2, FiresFacts, TopFacts
  <2>2. \E v : Told(Top, v)
    BY <1>2, FiresFacts
  <2>3. dragging' \in MaybeNode /\ accepts' \in MaybeNode /\ owed' \subseteq Text
    BY <2>1, <2>2, ToldTypes
  <2>4. acts' \in 0..MaxActs /\ UNCHANGED user
    BY <1>2, Bounds DEF Dispatch, DispatchFocuses, DispatchDestroys, Fires, Scripted, StateTypes
  <2>5. CASE Dispatch
    BY <2>3, <2>4, <2>5 DEF Dispatch, StateTypes, KeptNodesLive, kept, control, user
  <2>6. CASE DispatchFocuses
    BY <2>3, <2>4, <2>6 DEF DispatchFocuses, FocusCall, StateTypes, KeptNodesLive, kept, control, user
  <2>7. CASE DispatchDestroys
    <3>1. PICK dead \in Emptied : Destroyed(dead)
      BY <2>7 DEF DispatchDestroys
    <3>2. lost' \in BOOLEAN /\ odd' = odd
      BY <2>1, <2>7 DEF DispatchDestroys, StateTypes
    <3>3. /\ live' \subseteq Nodes /\ Body \in live' /\ unheard' \subseteq Nodes
          /\ hover' \in MaybeNode /\ focus' \in MaybeNode /\ press' \in MaybeNode
          /\ lastClick' \in MaybeNode /\ dragRange' \in Ranges \cup {NoNode} /\ armed' \in MaybeNode
          /\ UNCHANGED <<dnd, scrolling, control>>
          /\ {hover', focus', press', dragRange'} \ {NoNode} \subseteq live' \cup unheard'
      BY <2>1, <3>1, DestroyedFacts
    <3>. QED
      BY <2>3, <2>4, <3>2, <3>3 DEF StateTypes, KeptNodesLive, control, user
  <2>. QED
    BY <1>2, <2>5, <2>6, <2>7
<1>3. ASSUME ReadsDestroyed PROVE StateTypes'
  BY <1>3 DEF ReadsDestroyed, StateTypes, KeptNodesLive, kept, control, user, history
<1>. QED
  BY <1>1, <1>2, <1>3

\* Pieces of handlers.
LEMMA PieceTypes ==
    ASSUME SoundInv, StateTypes, Pointer \/ Button \/ Focusing
    PROVE  StateTypes'
<1>0. /\ NoNode \in MaybeNode /\ NoNode \notin Fields /\ Text \subseteq Fields /\ Ranges \subseteq Fields
      /\ Fields \subseteq Nodes /\ Nodes \subseteq MaybeNode
  BY Tree, Controls DEF MaybeNode, Fields
<1>1. todo # <<>> /\ Top.n \in MaybeNode /\ NodeFits(Top)
  <2>1. todo # <<>>
    BY DEF Pointer, Button, Focusing, RangeFollows, DndBegin, DndStarted, DndReset, DndMove, DndHit, DndOver,
           DndAnswer, Hover, HoverSet, Touch, Pressed, Default, DndDrop, DragEnd, RangeEnd, RangeDone, Released,
           Clicked, Unclick, Unpress, Call, Blurred, Unsnap, FocusSet, Focused, Tab, Edit, Suppress, Step, At, Busy
  <2>. QED
    BY <2>1, TopFacts, TailShape DEF SoundInv, Top
<1>2. CASE Touch \/ Hover \/ DndHit \/ DndMove
  BY <1>2 DEF Touch, Hover, DndHit, DndMove, Step, StateTypes, KeptNodesLive, kept, control, history, user
<1>3. CASE Pressed \/ DndDrop \/ DragEnd \/ Released
  BY <1>3 DEF Pressed, DndDrop, DragEnd, Released, Step, StateTypes, KeptNodesLive, kept, control, history, user
<1>4. CASE Call \/ Tab
  BY <1>4 DEF Call, Tab, Step, StateTypes, KeptNodesLive, kept, control, history, user
<1>5. CASE RangeFollows
  <2>1. val' \in [Fields -> 0..1]
    <3>1. Top.n \in Fields
      BY <1>0, <1>1, <1>5 DEF RangeFollows, Step, At, NodeFits
    <3>. QED
      BY <3>1, <1>5 DEF RangeFollows, RangeMoves, StateTypes
  <2>. QED
    BY <2>1, <1>5 DEF RangeFollows, Step, StateTypes, KeptNodesLive, kept, control, history, user
<1>6. ASSUME DndBegin \/ DndStarted \/ DndReset \/ DndOver \/ DndAnswer
      PROVE  dnd' \in DragRecords
  <2>0. dnd \in DragRecords /\ NoDrag \in DragRecords
    BY <1>0 DEF StateTypes, DragRecords, NoDrag
  <2>1. CASE DndBegin
    BY <1>0, <2>0, <2>1 DEF DndBegin, NoDrag, DragRecords
  <2>2. CASE DndStarted \/ DndReset
    BY <2>0, <2>2 DEF DndStarted, DndReset, DragRecords
  <2>3. CASE DndOver \/ DndAnswer
    BY <1>1, <2>0, <2>3 DEF DndOver, DndAnswer, DragRecords
  <2>. QED
    BY <1>6, <2>1, <2>2, <2>3
<1>12. CASE DndBegin \/ DndStarted \/ DndReset \/ DndOver \/ DndAnswer
  BY <1>6, <1>12 DEF DndBegin, DndStarted, DndReset, DndOver, DndAnswer, Step, StateTypes, KeptNodesLive, kept,
                     control, history, user, DragRecords
<1>7. CASE HoverSet \/ Clicked \/ Unclick \/ Unpress \/ RangeEnd
  <2>1. CASE HoverSet
    BY <1>0, <1>1, <2>1 DEF HoverSet, Step, At, Readable, Reads, StateTypes, KeptNodesLive, control, history, user
  <2>2. CASE Clicked \/ Unclick
    BY <1>0, <1>1, <2>2 DEF Clicked, Unclick, Step, StateTypes, KeptNodesLive, control, history, user
  <2>3. CASE Unpress
    BY <1>0, <2>3 DEF Unpress, Step, StateTypes, KeptNodesLive, control, history, user
  <2>4. CASE RangeEnd
    BY <1>0, <2>4 DEF RangeEnd, Step, StateTypes, KeptNodesLive, control, history, user
  <2>. QED
    BY <1>7, <2>1, <2>2, <2>3, <2>4
<1>8. CASE RangeDone \/ Unsnap \/ Suppress
  BY <1>0, <1>8 DEF RangeDone, Unsnap, Suppress, Step, StateTypes, KeptNodesLive, kept, control, history, user
<1>9. CASE FocusSet
  BY <1>0, <1>1, <1>9 DEF FocusSet, Step, At, Readable, Reads, StateTypes, KeptNodesLive, control, history, user
<1>10. CASE Blurred
  BY <1>0, <1>10 DEF Blurred, Step, StateTypes, KeptNodesLive, kept, history, user
<1>11. CASE Edit
  <2>1. val' \in [Fields -> 0..1] /\ owed' \subseteq Text
    BY <1>0, <1>11 DEF Edit, Edited, StateTypes
  <2>. QED
    BY <2>1, <1>11 DEF Edit, Step, StateTypes, KeptNodesLive, kept, user
<1>13. CASE Focused
  <2>1. Top.n \in live
    BY <1>1, <1>13 DEF Focused, Step, At, NodeFits, Readable, Reads
  <2>2. flag' \subseteq Nodes /\ snap' \in {0, 1, NoNode} /\ odd' \subseteq {"nested", "mixed"}
    BY <2>1, <1>0, <1>13 DEF Focused, StateTypes
  <2>. QED
    BY <2>2, <1>13 DEF Focused, Step, StateTypes, KeptNodesLive, kept, user
<1>14. CASE Default
  <2>1. Top.n \in live
    BY <1>1, <1>14 DEF Default, Step, At, NodeFits, Readable, Reads
  <2>2. Top.n \in Nodes /\ Closest(Top.n, Draggables) \in MaybeNode
    BY <2>1, ClosestFacts DEF StateTypes, MaybeNode
  <2>3. dnd' \in DragRecords
    BY <2>2, <1>14 DEF Default, StateTypes, DragRecords
  <2>4. val' \in [Fields -> 0..1] /\ snap' \in {0, 1, NoNode} /\ odd' \subseteq {"nested", "mixed"}
    BY <1>0, <1>14 DEF Default, RangeMoves, StateTypes
  <2>5. dragRange' \in Ranges \cup {NoNode} /\ (dragRange' # NoNode => dragRange' = dragRange \/ dragRange' \in live)
    BY <2>1, <1>14 DEF Default, StateTypes
  <2>6. UNCHANGED <<hover, focus, press, lastClick, scrolling, flag, suppress, armed, dragging, accepts, owed,
                    live, unheard, lost, user, acts>>
    BY <1>14 DEF Default, Step
  <2>. QED
    BY <2>3, <2>4, <2>5, <2>6 DEF StateTypes, KeptNodesLive, DragRecords, user
<1>. QED
  BY <1>2, <1>3, <1>4, <1>5, <1>7, <1>8, <1>9, <1>10, <1>11, <1>12, <1>13, <1>14 DEF Pointer, Button, Focusing

\* The conjuncts that make the nodes sound are preserved by every step.
LEMMA SoundStep ==
    ASSUME SoundInv, [DomNext]_domVars
    PROVE  SoundInv'
<1>1. StateTypes
  BY HeldIs
<1>2. CASE DomNext
  <2>1. StateTypes'
    BY <1>1, <1>2, UserTypes, ScriptTypes, PieceTypes DEF DomNext
  <2>2. Shape(todo')
    BY <1>2, ShapeStep
  <2>3. Shape(todo)'
    BY <2>2 DEF Shape, Needs, Mate, HitOrAct, Acts, Fronts, NodeFits, Items, MaybeNode
  <2>4. (StateTypes /\ Shape(todo) => SoundInv)'
    BY HeldIs, PTL
  <2>. QED
    BY <2>1, <2>3, <2>4
<1>3. CASE UNCHANGED domVars
  BY <1>3 DEF SoundInv, DomTypes, KeptNodesLive, Shape, domVars, kept, control, history, user
<1>. QED
  BY <1>2, <1>3

\* It holds in the beginning.
LEMMA SoundStart ==
    ASSUME DomInit
    PROVE  SoundInv
<1>1. StateTypes
  <2>1. dnd \in [source : MaybeNode, target : MaybeNode, started : BOOLEAN, allowed : BOOLEAN]
    BY DEF DomInit, NoDrag, MaybeNode
  <2>2. val \in [Fields -> 0..1]
    BY DEF DomInit
  <2>3. NoNode \in MaybeNode /\ 0 \in 0..MaxInputs /\ 0 \in 0..MaxActs /\ Body \in Nodes
    BY Tree, Bounds DEF MaybeNode
  <2>4. KeptNodesLive
    BY DEF DomInit, KeptNodesLive
  <2>. QED
    BY <2>1, <2>2, <2>3, <2>4 DEF DomInit, StateTypes
<1>2. Shape(todo)
  BY EmptyShape DEF DomInit
<1>. QED
  BY <1>1, <1>2, HeldIs

\* The nodes that mini_events.c keeps as hovered, focused, pressed or followed by the pointer are
\* nodes of the page, whatever its listeners destroy and whenever they do it, except nodes destroyed
\* while another document was the active one (mini_node_destroy tells only that one's event state).
\* It does not speak of the drag's source and target or of the last click.
THEOREM NodesStaySound == DomSpec => []NodesAreSound
<1>1. DomInit => SoundInv
  BY SoundStart
<1>2. SoundInv /\ [DomNext]_domVars => SoundInv'
  BY SoundStep
<1>3. SoundInv => NodesAreSound
  BY DEF SoundInv, NodesAreSound
<1>. QED
  BY <1>1, <1>2, <1>3, PTL DEF DomSpec

-----------------------------------------------------------------------------
(* Clicks. *)

\* What is in front of a list.
LEMMA HeadKind ==
    ASSUME NEW u, Shape(u), u # <<>>
    PROVE  /\ Head(u) \in Items
           /\ Head(u).k \in {"click", "dragstart", "dragend", "change", "call", "blur", "focus"} => Head(u) \in Fronts
           /\ Head(u).k = "drop" /\ Head(u).b # "file" => Head(u) \in Fronts
<1>1. Head(u) \in Items
  BY TailShape
<1>. QED
  BY <1>1, KindSays

\* What may be anywhere in a list is in front of it.
LEMMA InnerHead ==
    ASSUME NEW u, Shape(u), Inner(u), u # <<>>
    PROVE  Head(u) \notin Fronts
<1>1. u \in Seq(Items)
  BY DEF Shape
<1>2. 1 \in 1..Len(u) /\ Head(u) = u[1]
  BY <1>1
<1>. QED
  BY <1>2 DEF Inner

\* Items that must be in front come from the steps that put them there.
LEMMA FrontKinds ==
    ASSUME SoundInv, DomNext
    PROVE  /\ todo' # <<>> /\ Head(todo').k = "click" => Released
           /\ todo' # <<>> /\ Head(todo').k = "dragend" => DragEnd
           /\ todo' # <<>> /\ Head(todo').k = "drop" /\ Head(todo').b # "file" => DndDrop
           /\ todo' # <<>> /\ Head(todo').k = "change" => RangeEnd \/ Blurred
           /\ todo' # <<>> /\ Head(todo').k = "blur" => Call
           /\ todo' # <<>> /\ Head(todo').k = "focus" => FocusSet
<1>0. SUFFICES ASSUME todo' # <<>>
      PROVE  /\ Head(todo').k = "click" => Released
             /\ Head(todo').k = "dragend" => DragEnd
             /\ Head(todo').k = "drop" /\ Head(todo').b # "file" => DndDrop
             /\ Head(todo').k = "change" => RangeEnd \/ Blurred
             /\ Head(todo').k = "blur" => Call
             /\ Head(todo').k = "focus" => FocusSet
  OBVIOUS
<1>1. /\ Head(todo').k \in {"click", "dragstart", "dragend", "change", "call", "blur", "focus"} => Head(todo') \in Fronts
      /\ Head(todo').k = "drop" /\ Head(todo').b # "file" => Head(todo') \in Fronts
  BY <1>0, ShapeStep, HeadKind
<1>2. CASE User
  <2>1. Fresh(todo')
    BY <1>2, MoveList, PressList, ReleaseList, DropFilesList, OtherInputList DEF User
  <2>. QED
    BY <2>1, <1>0, <1>1, InnerHead DEF Fresh
<1>3. CASE Dispatch \/ DispatchFocuses \/ DispatchDestroys
  <2>1. todo # <<>> /\ Top.k \in Events
    BY <1>3, FiresFacts
  <2>2. PICK v \in BOOLEAN : \/ todo' = After(Top, v) \o Tail(todo)
                             \/ \E m \in MaybeNode : todo' = <<Do("call", m)>> \o (After(Top, v) \o Tail(todo))
    BY <1>0, <1>3, FiresFacts
  <2>3. \/ Passes(todo, todo', {"call"})
        \/ Settles(todo, todo', {"call"})
        \/ \E e : Turns(todo, todo', e, {"call"})
    BY <2>1, <2>2, FireList
  <2>4. Shape(todo') /\ (Head(todo') \in Fronts => Head(todo').k \in {"call"})
    BY <1>0, <2>3 DEF Passes, Turns, Settles
  <2>. QED
    BY <2>4, <1>1
<1>4. CASE ReadsDestroyed
  BY <1>0, <1>4 DEF ReadsDestroyed
<1>5. CASE QuietStep \/ Unsnap \/ Focused
  <2>1. Shape(todo') /\ (Head(todo') \in Fronts => Head(todo').k \in {})
    BY <1>0, <1>5, QuietSteps, FocusEndList DEF Passes
  <2>. QED
    BY <2>1, <1>1
<1>6. CASE Released
  <2>1. Shape(todo') /\ (Head(todo') \in Fronts => Head(todo').k \in {"click"})
    BY <1>0, <1>6, ReleasedList DEF Passes
  <2>. QED
    BY <2>1, <1>1, <1>6
<1>7. CASE RangeEnd \/ Blurred
  <2>1. Shape(todo') /\ (Head(todo') \in Fronts => Head(todo').k \in {"change"})
    BY <1>0, <1>7, RangeEndList, BlurredList DEF Passes
  <2>. QED
    BY <2>1, <1>1, <1>7
<1>8. CASE Tab
  <2>1. Shape(todo') /\ (Head(todo') \in Fronts => Head(todo').k \in {"call"})
    BY <1>0, <1>8, TabList DEF Passes
  <2>. QED
    BY <2>1, <1>1
<1>9. CASE Call
  <2>1. Shape(todo') /\ (Head(todo') \in Fronts => Head(todo').k \in {"blur"})
    BY <1>0, <1>9, CallList DEF Passes
  <2>. QED
    BY <2>1, <1>1, <1>9
<1>10. CASE FocusSet
  <2>1. Shape(todo') /\ (Head(todo') \in Fronts => Head(todo').k \in {"focus"})
    BY <1>0, <1>10, FocusSetList DEF Passes
  <2>. QED
    BY <2>1, <1>1, <1>10
<1>11. CASE Pressed
  <2>1. Shape(todo') /\ (Head(todo') \in Fronts => Head(todo').k \in {"call"})
    BY <1>0, <1>11, PressedList DEF Turns, Settles
  <2>. QED
    BY <2>1, <1>1
<1>12. CASE Default \/ DndStarted \/ DndReset \/ DndAnswer
  <2>1. Shape(todo') /\ (Head(todo') \in Fronts => Head(todo').k \in {})
    BY <1>0, <1>12, SettledList DEF Settles
  <2>. QED
    BY <2>1, <1>1
<1>13. CASE DndBegin
  <2>1. Shape(todo') /\ (Head(todo') \in Fronts => Head(todo').k \in {"dragstart"})
    BY <1>0, <1>13, DndBeginList DEF Turns, Settles
  <2>. QED
    BY <2>1, <1>1
<1>14. CASE DndHit \/ DndOver
  <2>1. Shape(todo') /\ (Head(todo') \in Fronts => Head(todo').k \in {})
    BY <1>0, <1>14, DndHitList, DndOverList DEF Turns, Settles
  <2>. QED
    BY <2>1, <1>1
<1>15. CASE DndDrop
  <2>1. Shape(todo') /\ (Head(todo') \in Fronts => Head(todo').k \in {"drop"})
    BY <1>0, <1>15, DndDropList DEF Turns
  <2>. QED
    BY <2>1, <1>1, <1>15
<1>16. CASE DragEnd
  <2>1. Shape(todo') /\ (Head(todo') \in Fronts => Head(todo').k \in {"dragend"})
    BY <1>0, <1>16, DragEndList DEF Turns
  <2>. QED
    BY <2>1, <1>1, <1>16
<1>17. CASE Task
  BY <1>0, <1>17, TaskList
<1>. QED
  BY <1>2, <1>3, <1>4, <1>5, <1>6, <1>7, <1>8, <1>9, <1>10, <1>11, <1>12, <1>13, <1>14, <1>15, <1>16,
     <1>17 DEF DomNext, Pointer, Button, Focusing, QuietStep

\* A press that nothing has interfered with is the one that is stored, and a click goes to its
\* node, into it or around it.
Related(m, n) == m \in Up[n] \/ n \in Up[m]
ClickInv ==
  /\ armed # NoNode => armed = press
  /\ todo # <<>> /\ Top.k = "click" /\ armed # NoNode => Related(Top.n, armed)

\* It is preserved by every step.
LEMMA ClickStep ==
    ASSUME SoundInv, ClickInv, [DomNext]_domVars
    PROVE  ClickInv'
<1>1. CASE UNCHANGED domVars
  BY <1>1 DEF ClickInv, Top, domVars, kept, history
<1>2. CASE DomNext
  <2>1. armed' # NoNode => armed' = press'
    <3>1. CASE User
      BY <3>1 DEF User, Move, Press, Release, PressScrollbar, ReleaseCapture, DropFiles, KeyDown, Char,
                  ClickInv, kept, history
    <3>2. CASE Task \/ Dispatch \/ DispatchFocuses \/ DispatchDestroys \/ ReadsDestroyed
      BY <3>2 DEF Task, Dispatch, DispatchFocuses, DispatchDestroys, ReadsDestroyed, FocusCall, Destroyed,
                  ClickInv, kept, history
    <3>3. CASE Pointer
      BY <3>3 DEF Pointer, RangeFollows, DndBegin, DndStarted, DndReset, DndMove, DndHit, DndOver, DndAnswer,
                  Hover, HoverSet, Touch, ClickInv, kept, history
    <3>4. CASE Button
      BY <3>4 DEF Button, Pressed, Default, DndDrop, DragEnd, RangeEnd, RangeDone, Released, Clicked, Unclick,
                  Unpress, ClickInv, kept, history
    <3>5. CASE Focusing
      BY <3>5 DEF Focusing, Call, Blurred, Unsnap, FocusSet, Focused, Tab, Edit, Suppress, ClickInv, kept, history
    <3>. QED
      BY <1>2, <3>1, <3>2, <3>3, <3>4, <3>5 DEF DomNext
  <2>2. ASSUME todo' # <<>>, Head(todo').k = "click", armed' # NoNode PROVE Related(Head(todo').n, armed')
    <3>1. Released
      BY <1>2, <2>2, FrontKinds
    <3>2. armed' = armed /\ armed = press /\ press # NoNode
      BY <2>2, <3>1 DEF Released, ClickInv, history
    <3>3. Head(todo').n = ClickTarget(Top.n) /\ ClickTarget(Top.n) # NoNode
      BY <2>2, <3>1, ReleasedList
    <3>4. ClickTarget(Top.n) = press \/ (ClickTarget(Top.n) = Top.n /\ Top.n \in Up[press])
      BY <3>2, <3>3 DEF ClickTarget
    <3>5. press \in Up[press]
      BY <3>2, UpFacts DEF SoundInv, DomTypes, MaybeNode
    <3>. QED
      BY <3>2, <3>3, <3>4, <3>5 DEF Related
  <2>. QED
    BY <2>1, <2>2 DEF ClickInv, Top, Related, Up, Rooted
<1>. QED
  BY <1>1, <1>2

-----------------------------------------------------------------------------
(* Drags. D is the drag, g the node that was told of it, ac the one that took the last dragover and *)
(* dw the buttons that are held.                                                                  *)

\* The page was told of the drag that is going on, and of no other.
ToldOf(D, g) == /\ g # NoNode => g = D.source /\ D.started
                /\ D.source # NoNode /\ D.started => g = D.source
\* The button of the drag is held.
HeldBy(D, dw) == D.source # NoNode => "left" \in dw
\* A drop is allowed where the last dragover was prevented.
Agreed(D, ac) == D.source # NoNode /\ D.started /\ D.allowed => ac = D.target
Steady(D, g, ac, dw) == ToldOf(D, g) /\ HeldBy(D, dw) /\ Agreed(D, ac)

\* The state of the drag while the item e is to be done.
Phase(e, D, g, ac, dw) ==
  /\ e.k \notin {"dragstart", "dndStarted", "dndReset"} => ToldOf(D, g)
  /\ e.k \notin {"dndReset", "dndDrop", "dragEnd"} => HeldBy(D, dw)
  /\ e.k \notin {"dndReset", "dndDeny"} => Agreed(D, ac)
  /\ e.k = "default" \/ (e.k \in {"mousedown", "pressed"} /\ e.b = "left") =>
        D.source = NoNode /\ "left" \in dw
  /\ e.k = "dragstart" => g = NoNode /\ D.source = e.n /\ ~D.started /\ ~D.allowed /\ e.n # NoNode
  /\ e.k = "dndStarted" => g = D.source /\ ~D.started /\ ~D.allowed /\ D.source # NoNode
  /\ e.k = "dndDrop" => D.source # NoNode
  /\ e.k = "dragEnd" => D.source # NoNode /\ D.started
  /\ e.k = "dragover" => IF e.b = "file" THEN D.source = NoNode ELSE e.n = D.target
  /\ e.k = "dndAllow" => ac = D.target

\* The drag is over for the page, or its dragend event is next.
Ended(t, g) == g = NoNode \/ (t # <<>> /\ Head(t).k = "dragend" /\ Head(t).n = g)

DragOK(t, D, g, ac, dw) ==
  /\ \A p \in 1..Len(t) : t[p] \in Acts => Phase(t[p], D, g, ac, dw) /\ (t[p].k = "dndReset" => Ended(t, g))
  /\ Calm(t) => Steady(D, g, ac, dw)

DragInv ==
  ~lost =>
  /\ DragOK(todo, dnd, dragging, accepts, down)
  /\ todo # <<>> /\ Head(todo).k = "dragend" => dragging = Head(todo).n
  /\ todo # <<>> /\ Head(todo).k = "drop" /\ Head(todo).b # "file" => accepts = Head(todo).n

\* A step that is not about the drag.
LEMMA DragPass ==
    ASSUME NEW t, NEW u, NEW D, NEW g, NEW ac, NEW dw, NEW K,
           Passes(t, u, K), DragOK(t, D, g, ac, dw), t # <<>> => Head(t).k # "dragend"
    PROVE  DragOK(u, D, g, ac, dw)
<1>1. ASSUME NEW p \in 1..Len(u), u[p] \in Acts
      PROVE  Phase(u[p], D, g, ac, dw) /\ (u[p].k = "dndReset" => Ended(u, g))
  <2>1. PICK q \in 1..Len(t) : t[q] = u[p]
    BY <1>1 DEF Passes
  <2>2. Phase(u[p], D, g, ac, dw) /\ (u[p].k = "dndReset" => Ended(t, g))
    BY <1>1, <2>1 DEF DragOK
  <2>. QED
    BY <2>2 DEF Ended
<1>. QED
  BY <1>1 DEF Passes, DragOK

\* A step after which one item is about the drag.
LEMMA DragTurn ==
    ASSUME NEW t, NEW u, NEW f, NEW K, NEW D, NEW g, NEW ac, NEW dw,
           Turns(t, u, f, K), Phase(f, D, g, ac, dw), f.k = "dndReset" => Ended(u, g)
    PROVE  DragOK(u, D, g, ac, dw)
  BY DEF Turns, Only, DragOK

\* A step, or an input, after which no item is.
LEMMA DragRest ==
    ASSUME NEW u, NEW D, NEW g, NEW ac, NEW dw, Calm(u), Steady(D, g, ac, dw)
    PROVE  DragOK(u, D, g, ac, dw)
  BY DEF DragOK, Calm

\* An input after which one item is.
LEMMA DragOnly ==
    ASSUME NEW u, NEW f, NEW D, NEW g, NEW ac, NEW dw,
           Only(u, f), ~Calm(u), Phase(f, D, g, ac, dw), f.k # "dndReset"
    PROVE  DragOK(u, D, g, ac, dw)
  BY DEF Only, DragOK

\* The dragend event is over.
LEMMA DragOver ==
    ASSUME NEW t, NEW u, NEW K, NEW D, NEW ac, NEW dw, Shape(t), t # <<>>, Head(t).k = "dragend", Passes(t, u, K)
    PROVE  DragOK(u, D, NoNode, ac, dw)
<1>1. t \in Seq(Items) /\ Len(t) \in Nat /\ 1 \in 1..Len(t) /\ t[1] = Head(t)
  BY DEF Shape
<1>2. 2 \in 1..Len(t) /\ t[2].k = "dndReset" /\ t[2] \in Items
  <2>1. Needs(t[1])
    BY <1>1 DEF Needs
  <2>2. 1 + 1 \in 1..Len(t) /\ Mate(t[1], t[1 + 1])
    BY <2>1, <1>1 DEF Shape
  <2>. QED
    BY <2>2, <1>1 DEF Mate
<1>3. t[2] \in Acts /\ HitOrAct(t[2]) /\ t[1] \notin Acts
  BY <1>1, <1>2, KindSays DEF ActKinds
<1>4. \A q \in 1..Len(t) : t[q] \in Acts => q = 2
  <2>1. \A q \in 1..Len(t) : 2 < q => t[q] \notin Acts
    BY <1>2, <1>3 DEF Shape
  <2>2. \A q \in 1..Len(t) : q = 1 \/ q = 2 \/ 2 < q
    BY <1>1
  <2>. QED
    BY <2>1, <2>2, <1>3
<1>5. ~Calm(u)
  BY <1>2, <1>3 DEF Calm, Passes
<1>6. \A p \in 1..Len(u) : u[p] \in Acts => u[p].k = "dndReset"
  BY <1>2, <1>4 DEF Passes
<1>. QED
  BY <1>5, <1>6 DEF DragOK, Phase, Ended

\* The state of the drag while its first item is next, and while nothing of it is to do.
LEMMA DragHere ==
    ASSUME SoundInv, DragInv, ~lost
    PROVE  /\ DragOK(todo, dnd, dragging, accepts, down)
           /\ todo = <<>> => Steady(dnd, dragging, accepts, down)
           /\ todo # <<>> /\ Top.k \in ActKinds =>
                Phase(Top, dnd, dragging, accepts, down) /\ (Top.k = "dndReset" => dragging = NoNode)
           /\ todo # <<>> /\ Top.k = "dndHit" => Steady(dnd, dragging, accepts, down)
<1>1. DragOK(todo, dnd, dragging, accepts, down)
  BY DEF DragInv
<1>2. todo = <<>> => Calm(todo)
  BY EmptyShape
<1>3. ASSUME todo # <<>>
      PROVE  1 \in 1..Len(todo) /\ todo[1] = Top /\ Top \in Items /\ Shape(todo) /\ Len(todo) \in Nat
             /\ todo \in Seq(Items)
  BY <1>3, TopFacts DEF SoundInv
<1>4. ASSUME todo # <<>>, Top.k \in ActKinds
      PROVE  Phase(Top, dnd, dragging, accepts, down) /\ (Top.k = "dndReset" => dragging = NoNode)
  <2>1. Top \in Acts
    BY <1>3, <1>4, KindSays
  <2>2. Phase(Top, dnd, dragging, accepts, down) /\ (Top.k = "dndReset" => Ended(todo, dragging))
    BY <2>1, <1>1, <1>3, <1>4 DEF DragOK
  <2>. QED
    BY <2>2 DEF Ended, Top
<1>5. ASSUME todo # <<>>, Top.k = "dndHit"
      PROVE  Calm(todo)
  <2>1. HitOrAct(todo[1]) /\ todo[1] \notin Acts
    BY <1>3, <1>5, KindSays DEF ActKinds
  <2>2. \A q \in 1..Len(todo) : 1 < q => todo[q] \notin Acts
    BY <2>1, <1>3, <1>5 DEF Shape
  <2>3. \A q \in 1..Len(todo) : q = 1 \/ 1 < q
    BY <1>3, <1>5
  <2>. QED
    BY <2>1, <2>2, <2>3 DEF Calm
<1>. QED
  BY <1>1, <1>2, <1>4, <1>5 DEF DragOK

\* Every step is taken by a process of which something is known.
LEMMA NotLost ==
    ASSUME DomNext
    PROVE  ~lost
<1>1. CASE User
  BY <1>1 DEF User, Move, Press, PressScrollbar, Release, ReleaseCapture, DropFiles, KeyDown, Char, Handler, Input, Idle
<1>2. CASE Task \/ Dispatch \/ DispatchFocuses \/ DispatchDestroys \/ ReadsDestroyed
  BY <1>2 DEF Task, Dispatch, DispatchFocuses, DispatchDestroys, ReadsDestroyed, Fires, Idle, Busy
<1>3. CASE Pointer
  BY <1>3 DEF Pointer, RangeFollows, DndBegin, DndStarted, DndReset, DndMove, DndHit, DndOver, DndAnswer, Hover,
              HoverSet, Touch, Step, At, Busy
<1>4. CASE Button
  BY <1>4 DEF Button, Pressed, Default, DndDrop, DragEnd, RangeEnd, RangeDone, Released, Clicked, Unclick, Unpress,
              Step, At, Busy
<1>5. CASE Focusing
  BY <1>5 DEF Focusing, Call, Blurred, Unsnap, FocusSet, Focused, Tab, Edit, Suppress, Step, At, Busy
<1>. QED
  BY <1>1, <1>2, <1>3, <1>4, <1>5 DEF DomNext

\* Steps of handlers that leave the drag as it is.
LEMMA DragPassive ==
    ASSUME SoundInv, DragInv,
           QuietStep \/ Released \/ RangeEnd \/ Tab \/ Call \/ Blurred \/ Unsnap \/ FocusSet \/ Focused
    PROVE  DragOK(todo', dnd', dragging', accepts', down')
<1>1. ~lost /\ UNCHANGED <<dnd, dragging, accepts, down>>
  <2>1. CASE QuietStep
    BY <2>1 DEF QuietStep, RangeFollows, Hover, HoverSet, Touch, RangeDone, Clicked, Unclick, Unpress,
         Suppress, Edit, DndMove, Step, At, Busy, history, user
  <2>2. CASE Released \/ RangeEnd \/ Tab
    BY <2>2 DEF Released, RangeEnd, Tab, Step, At, Busy, history, user
  <2>3. CASE Call \/ Blurred \/ Unsnap \/ FocusSet \/ Focused
    BY <2>3 DEF Call, Blurred, Unsnap, FocusSet, Focused, Step, At, Busy, history, user
  <2>. QED
    BY <2>1, <2>2, <2>3
<1>2. todo # <<>> /\ \E K : Passes(todo, todo', K)
  BY QuietSteps, ReleasedList, RangeEndList, TabList, CallList, BlurredList, FocusEndList, FocusSetList
<1>3. Top.k # "dragend"
  <2>1. CASE QuietStep \/ Released \/ RangeEnd \/ Tab
    <3>1. Passive(Top)
      BY <2>1, QuietSteps, ReleasedList, RangeEndList, TabList
    <3>. QED
      BY <3>1 DEF Passive, Fronts
  <2>2. CASE Call \/ Blurred \/ Unsnap \/ FocusSet \/ Focused
    BY <2>2, CallList, BlurredList, FocusEndList, FocusSetList
  <2>. QED
    BY <2>1, <2>2
<1>4. DragOK(todo, dnd, dragging, accepts, down)
  BY <1>1, DragHere
<1>5. DragOK(todo', dnd, dragging, accepts, down)
  BY <1>2, <1>3, <1>4, DragPass DEF Top
<1>. QED
  BY <1>1, <1>5

\* Inputs.
LEMMA DragUser ==
    ASSUME SoundInv, DragInv, User
    PROVE  DragOK(todo', dnd', dragging', accepts', down')
<1>0. ~lost /\ todo = <<>>
  BY DEF User, Move, Press, PressScrollbar, Release, ReleaseCapture, DropFiles, KeyDown, Char, Handler, Input, Idle
<1>1. Steady(dnd, dragging, accepts, down)
  BY <1>0, DragHere
<1>2. NoNode \in MaybeNode /\ dnd \in DragRecords
  BY DEF SoundInv, DomTypes, DragRecords, MaybeNode
<1>3. ASSUME NEW p \in Positions, Move(p) PROVE DragOK(todo', dnd', dragging', accepts', down')
  <2>1. UNCHANGED <<dnd, dragging, accepts, down>>
    BY <1>3 DEF Move, history
  <2>2. PICK f : f = Do("dndBegin", NoNode)
    OBVIOUS
  <2>3. f.k = "dndBegin" /\ f.b = "-"
    BY <2>2, <1>2, FrontIs
  <2>4. Phase(f, dnd', dragging', accepts', down')
    BY <2>1, <2>3, <1>1 DEF Phase, Steady
  <2>. QED
    BY <1>3, <2>2, <2>3, <2>4, MoveList, DragOnly
<1>4. ASSUME NEW b \in {"left", "right"}, Press(b) PROVE DragOK(todo', dnd', dragging', accepts', down')
  <2>1. UNCHANGED <<dnd, dragging, accepts>> /\ b \notin down /\ down' = down \cup {b}
    BY <1>4 DEF Press
  <2>2. PICK f : f = Item("mousedown", Under, b)
    OBVIOUS
  <2>3. f.k = "mousedown" /\ f.b = b
    BY <2>2 DEF Item
  <2>4. Phase(f, dnd', dragging', accepts', down')
    BY <2>1, <2>3, <1>1 DEF Phase, Steady, ToldOf, HeldBy, Agreed
  <2>. QED
    BY <1>4, <2>2, <2>3, <2>4, PressList, DragOnly
<1>5. ASSUME NEW b \in {"left", "right"}, Release(b) PROVE DragOK(todo', dnd', dragging', accepts', down')
  <2>1. UNCHANGED <<dnd, dragging, accepts>>
    BY <1>5 DEF Release, history
  <2>2. PICK f : f = Do("dndDrop", NoNode)
    OBVIOUS
  <2>3. f.k = "dndDrop" /\ f.b = "-"
    BY <2>2, <1>2, FrontIs
  <2>4. CASE dnd.source = NoNode
    <3>1. Steady(dnd', dragging', accepts', down')
      BY <2>1, <2>4, <1>1 DEF Steady, ToldOf, HeldBy, Agreed
    <3>. QED
      BY <1>5, <2>4, <3>1, ReleaseList, DragRest
  <2>5. CASE dnd.source # NoNode
    <3>1. Phase(f, dnd', dragging', accepts', down')
      BY <2>1, <2>3, <2>5, <1>1 DEF Phase, Steady
    <3>. QED
      BY <1>5, <2>2, <2>3, <2>5, <3>1, ReleaseList, DragOnly
  <2>. QED
    BY <2>4, <2>5
<1>6. CASE DropFiles
  <2>1. dnd'.source = NoNode /\ dragging' = NoNode
    BY <1>6, <1>2 DEF DropFiles, DragRecords
  <2>2. PICK f : f = Item("dragover", Under, "file")
    OBVIOUS
  <2>3. f.k = "dragover" /\ f.b = "file"
    BY <2>2 DEF Item
  <2>4. Phase(f, dnd', dragging', accepts', down')
    BY <2>1, <2>3 DEF Phase, ToldOf, HeldBy, Agreed
  <2>. QED
    BY <1>6, <2>2, <2>3, <2>4, DropFilesList, DragOnly
<1>7. CASE PressScrollbar \/ ReleaseCapture \/ Char \/ \E key \in {"Tab", "-"} : KeyDown(key)
  <2>1. CASE ReleaseCapture
    <3>1. dnd'.source = NoNode /\ dragging' = NoNode
      BY <2>1, <1>2 DEF ReleaseCapture, DragRecords
    <3>2. Steady(dnd', dragging', accepts', down')
      BY <3>1 DEF Steady, ToldOf, HeldBy, Agreed
    <3>. QED
      BY <1>7, <3>2, OtherInputList, DragRest
  <2>2. CASE PressScrollbar \/ Char \/ \E key \in {"Tab", "-"} : KeyDown(key)
    <3>1. UNCHANGED <<dnd, dragging, accepts>> /\ down \subseteq down'
      BY <2>2 DEF PressScrollbar, Char, KeyDown, history
    <3>2. Steady(dnd', dragging', accepts', down')
      BY <3>1, <1>1 DEF Steady, ToldOf, HeldBy, Agreed
    <3>. QED
      BY <1>7, <3>2, OtherInputList, DragRest
  <2>. QED
    BY <1>7, <2>1, <2>2
<1>. QED
  BY <1>3, <1>4, <1>5, <1>6, <1>7 DEF User

\* A press and its default action.
LEMMA DragPressed ==
    ASSUME SoundInv, DragInv, Pressed \/ Default
    PROVE  DragOK(todo', dnd', dragging', accepts', down')
<1>0. ~lost /\ todo # <<>>
  BY DEF Pressed, Default, Step, At, Busy
<1>1. CASE Pressed
  <2>1. UNCHANGED <<dnd, dragging, accepts, down>> /\ Top.k = "pressed"
    BY <1>1 DEF Pressed, Step, At, history, user
  <2>2. Phase(Top, dnd, dragging, accepts, down)
    BY <1>0, <2>1, DragHere DEF ActKinds
  <2>3. CASE Settles(todo, todo', {"call"})
    <3>1. Steady(dnd', dragging', accepts', down')
      BY <2>1, <2>2 DEF Steady, Phase
    <3>. QED
      BY <2>3, <3>1, DragRest DEF Settles
  <2>4. CASE Top.b = "left" /\ Turns(todo, todo', Do("default", Top.n), {"call"})
    <3>1. PICK f : f = Do("default", Top.n)
      OBVIOUS
    <3>2. f.k = "default" /\ f.b = "-"
      <4>1. Top.n \in MaybeNode
        BY <1>0, TopFacts
      <4>. QED
        BY <3>1, <4>1, FrontIs
    <3>3. Phase(f, dnd', dragging', accepts', down')
      BY <2>1, <2>2, <2>4, <3>2 DEF Phase
    <3>. QED
      BY <2>4, <3>1, <3>2, <3>3, DragTurn
  <2>. QED
    BY <1>1, <2>3, <2>4, PressedList
<1>2. CASE Default
  <2>1. UNCHANGED <<dragging, accepts, down>> /\ Top.k = "default"
    BY <1>2 DEF Default, Step, At, user
  <2>2. Phase(Top, dnd, dragging, accepts, down)
    BY <1>0, <2>1, DragHere DEF ActKinds
  <2>3. dnd.source = NoNode /\ "left" \in down /\ dragging = NoNode
    BY <2>1, <2>2 DEF Phase, ToldOf
  <2>4. dnd' = dnd \/ dnd'.started = FALSE
    <3>1. dnd \in DragRecords
      BY DEF SoundInv, DomTypes, DragRecords
    <3>. QED
      BY <1>2, <3>1 DEF Default, DragRecords
  <2>5. Steady(dnd', dragging', accepts', down')
    BY <2>1, <2>3, <2>4 DEF Steady, ToldOf, HeldBy, Agreed
  <2>. QED
    BY <1>2, <2>5, SettledList, DragRest DEF Settles
<1>. QED
  BY <1>1, <1>2

\* The drag begins, and goes on.
LEMMA DragMoves ==
    ASSUME SoundInv, DragInv, DndBegin \/ DndHit \/ DndOver \/ DndAnswer \/ DndStarted
    PROVE  DragOK(todo', dnd', dragging', accepts', down')
<1>0. ~lost /\ todo # <<>> /\ UNCHANGED <<dragging, accepts, down>>
  BY DEF DndBegin, DndHit, DndOver, DndAnswer, DndStarted, Step, At, Busy, user, history
<1>1. dnd \in DragRecords /\ NoNode \in MaybeNode /\ dnd.source \in MaybeNode
  BY DEF SoundInv, DomTypes, DragRecords, MaybeNode
<1>2. CASE DndBegin
  <2>1. Phase(Top, dnd, dragging, accepts, down) /\ Top.k = "dndBegin"
    BY <1>0, <1>2, DndBeginList, DragHere DEF ActKinds
  <2>2. CASE dnd.source # NoNode /\ ~dnd.started
    <3>1. PICK f : f = Do("dragstart", dnd.source)
      OBVIOUS
    <3>2. f.k = "dragstart" /\ f.n = dnd.source
      BY <3>1, <1>1, FrontIs
    <3>3. dnd'.source = dnd.source /\ dnd'.started = FALSE /\ dnd'.allowed = FALSE
      BY <1>2, <2>2 DEF DndBegin, NoDrag
    <3>4. Phase(f, dnd', dragging', accepts', down')
      BY <1>0, <2>1, <2>2, <3>2, <3>3 DEF Phase, ToldOf, HeldBy, Agreed
    <3>. QED
      BY <1>2, <2>2, <3>1, <3>2, <3>4, DndBeginList, DragTurn
  <2>3. CASE ~(dnd.source # NoNode /\ ~dnd.started)
    <3>1. dnd' = dnd
      BY <1>2, <2>3 DEF DndBegin
    <3>2. Steady(dnd', dragging', accepts', down')
      BY <1>0, <2>1, <3>1 DEF Phase, Steady
    <3>3. Settles(todo, todo', {})
      BY <1>2, <2>3, DndBeginList
    <3>. QED
      BY <3>2, <3>3, DragRest DEF Settles
  <2>. QED
    BY <2>2, <2>3
<1>3. CASE DndHit
  <2>1. Steady(dnd, dragging, accepts, down) /\ dnd' = dnd
    BY <1>0, <1>3, DndHitList, DragHere DEF DndHit
  <2>2. CASE Settles(todo, todo', {})
    BY <1>0, <2>1, <2>2, DragRest DEF Settles
  <2>3. ASSUME NEW e \in Items, Turns(todo, todo', e, {}),
               e.k = "dndOver" \/ (e.k = "dragover" /\ e.b = "-" /\ e.n = dnd.target)
        PROVE  DragOK(todo', dnd', dragging', accepts', down')
    <3>1. Phase(e, dnd', dragging', accepts', down') /\ e.k # "dndReset"
      BY <1>0, <2>1, <2>3 DEF Phase, Steady
    <3>. QED
      BY <2>3, <3>1, DragTurn
  <2>. QED
    BY <1>3, <2>2, <2>3, DndHitList
<1>4. CASE DndOver
  <2>1. Phase(Top, dnd, dragging, accepts, down) /\ Top.k = "dndOver" /\ Top.n \in MaybeNode
    BY <1>0, <1>4, DndOverList, DragHere, TopFacts DEF ActKinds
  <2>2. PICK f : f = Do("dragover", Top.n)
    OBVIOUS
  <2>3. f.k = "dragover" /\ f.n = Top.n /\ f.b = "-"
    BY <2>1, <2>2, FrontIs
  <2>4. /\ dnd'.source = dnd.source /\ dnd'.started = dnd.started /\ dnd'.target = Top.n
        /\ dnd'.allowed = FALSE
    BY <1>1, <1>4 DEF DndOver, DragRecords
  <2>5. Phase(f, dnd', dragging', accepts', down')
    BY <1>0, <2>1, <2>3, <2>4 DEF Phase, ToldOf, HeldBy, Agreed
  <2>. QED
    BY <1>4, <2>2, <2>3, <2>5, DndOverList, DragTurn
<1>5. CASE DndAnswer \/ DndStarted
  <2>1. Top.k \in {"dndAllow", "dndDeny", "dndStarted"}
    BY <1>5 DEF DndAnswer, DndStarted, Step, At
  <2>2. Phase(Top, dnd, dragging, accepts, down)
    BY <1>0, <2>1, DragHere DEF ActKinds
  <2>3. dnd'.source = dnd.source /\ dnd'.target = dnd.target
    BY <1>1, <1>5 DEF DndAnswer, DndStarted, DragRecords
  <2>4. /\ Top.k \in {"dndAllow", "dndDeny"} => dnd'.started = dnd.started
        /\ Top.k = "dndDeny" => dnd'.allowed = FALSE
        /\ Top.k = "dndStarted" => dnd'.started = TRUE /\ dnd'.allowed = dnd.allowed
    BY <1>1, <1>5 DEF DndAnswer, DndStarted, DragRecords, Step, At
  <2>5. Steady(dnd', dragging', accepts', down')
    BY <1>0, <2>1, <2>2, <2>3, <2>4 DEF Steady, Phase, ToldOf, HeldBy, Agreed
  <2>. QED
    BY <1>5, <2>5, SettledList, DragRest DEF Settles
<1>. QED
  BY <1>2, <1>3, <1>4, <1>5

\* The drag ends.
LEMMA DragEnds ==
    ASSUME SoundInv, DragInv, DndDrop \/ DragEnd \/ DndReset
    PROVE  /\ DragOK(todo', dnd', dragging', accepts', down')
           /\ todo' # <<>> /\ Head(todo').k = "dragend" /\ DragEnd => dragging' = Head(todo').n
           /\ todo' # <<>> /\ Head(todo').k = "drop" /\ Head(todo').b # "file" /\ DndDrop =>
                accepts' = Head(todo').n
<1>0. ~lost /\ todo # <<>> /\ UNCHANGED <<dragging, accepts, down>>
  BY DEF DndDrop, DragEnd, DndReset, Step, At, Busy, user, history
<1>1. dnd \in DragRecords /\ NoNode \in MaybeNode
  BY DEF SoundInv, DomTypes, DragRecords, MaybeNode
<1>2. PICK e, f : e = Do("dndReset", NoNode) /\ f = Do("dragEnd", NoNode)
  OBVIOUS
<1>3. e.k = "dndReset" /\ f.k = "dragEnd"
  BY <1>1, <1>2, FrontIs
<1>4. \A D, g, ac, dw : Phase(e, D, g, ac, dw)
  BY <1>3 DEF Phase
<1>5. CASE DndDrop
  <2>1. Phase(Top, dnd, dragging, accepts, down) /\ Top.k = "dndDrop" /\ dnd' = dnd
    BY <1>0, <1>5, DndDropList, DragHere DEF ActKinds, DndDrop
  <2>2. ToldOf(dnd, dragging) /\ Agreed(dnd, accepts) /\ dnd.source # NoNode
    BY <2>1 DEF Phase
  <2>3. CASE dnd.started
    <3>1. Phase(f, dnd', dragging', accepts', down')
      BY <1>0, <1>3, <2>1, <2>2, <2>3 DEF Phase
    <3>2. todo' # <<>> /\ Head(todo').k = "drop" /\ Head(todo').b # "file" => accepts' = Head(todo').n
      BY <1>0, <1>5, <2>2, <2>3, DndDropList DEF Agreed
    <3>3. Turns(todo, todo', f, {"drop"})
      BY <1>2, <1>5, <2>3, DndDropList
    <3>4. DragOK(todo', dnd', dragging', accepts', down')
      BY <1>3, <3>1, <3>3, DragTurn
    <3>5. ~DragEnd
      BY <2>1 DEF DragEnd, Step, At
    <3>. QED
      BY <3>2, <3>4, <3>5
  <2>4. CASE ~dnd.started
    <3>1. dragging' = NoNode
      BY <1>0, <2>2, <2>4 DEF ToldOf
    <3>2. Turns(todo, todo', e, {})
      BY <1>2, <1>5, <2>4, DndDropList
    <3>3. Ended(todo', dragging')
      BY <3>1 DEF Ended
    <3>4. DragOK(todo', dnd', dragging', accepts', down')
      BY <1>4, <3>2, <3>3, DragTurn
    <3>5. ~DragEnd
      BY <2>1 DEF DragEnd, Step, At
    <3>6. Shape(todo') /\ (todo' # <<>> => Head(todo') \notin Fronts)
      BY <3>2 DEF Turns
    <3>7. ~(todo' # <<>> /\ Head(todo').k = "drop" /\ Head(todo').b # "file")
      BY <3>6, HeadKind
    <3>. QED
      BY <3>4, <3>5, <3>7
  <2>. QED
    BY <2>3, <2>4
<1>6. CASE DragEnd
  <2>1. Phase(Top, dnd, dragging, accepts, down) /\ Top.k = "dragEnd" /\ dnd' = dnd
    BY <1>0, <1>6, DragEndList, DragHere DEF ActKinds, DragEnd
  <2>2. dragging = dnd.source /\ dnd.source # NoNode
    BY <2>1 DEF Phase, ToldOf
  <2>3. /\ Turns(todo, todo', e, {"dragend"})
        /\ todo' # <<>> /\ Head(todo').k = "dragend" /\ Head(todo').n = dragging'
    BY <1>0, <1>2, <1>6, <2>2, DragEndList
  <2>4. Ended(todo', dragging')
    BY <2>3 DEF Ended
  <2>5. DragOK(todo', dnd', dragging', accepts', down')
    BY <1>4, <2>3, <2>4, DragTurn
  <2>. QED
    BY <2>3, <2>5
<1>7. CASE DndReset
  <2>1. Top.k = "dndReset" /\ dnd' = NoDrag
    BY <1>7 DEF DndReset, Step, At
  <2>2. dragging = NoNode
    BY <1>0, <2>1, DragHere DEF ActKinds
  <2>3. Steady(dnd', dragging', accepts', down')
    BY <1>0, <2>1, <2>2 DEF Steady, ToldOf, HeldBy, Agreed, NoDrag
  <2>4. DragOK(todo', dnd', dragging', accepts', down')
    BY <1>7, <2>3, SettledList, DragRest DEF Settles
  <2>5. ~DragEnd /\ ~DndDrop
    BY <2>1 DEF DragEnd, DndDrop, Step, At
  <2>. QED
    BY <2>4, <2>5
<1>. QED
  BY <1>5, <1>6, <1>7

\* Events.
LEMMA DragFires ==
    ASSUME SoundInv, DragInv, Dispatch \/ DispatchFocuses \/ DispatchDestroys, ~lost'
    PROVE  DragOK(todo', dnd', dragging', accepts', down')
<1>0. todo # <<>> /\ ~lost /\ Top.k \in Events /\ UNCHANGED <<dnd, down>> /\ Top.n \in MaybeNode
  <2>1. UNCHANGED <<dnd, down>>
    BY DEF Dispatch, DispatchFocuses, DispatchDestroys, FocusCall, Destroyed, Fires, user
  <2>. QED
    BY <2>1, FiresFacts, TopFacts
<1>1. PICK v \in BOOLEAN :
        /\ Told(Top, v)
        /\ \/ todo' = After(Top, v) \o Tail(todo)
           \/ \E m \in MaybeNode : todo' = <<Do("call", m)>> \o (After(Top, v) \o Tail(todo))
  BY FiresFacts
<1>2. NoNode \in MaybeNode
  BY DEF MaybeNode
<1>3. CASE Top.k \notin {"mousedown", "dragstart", "dragover", "dragend"}
  <2>1. UNCHANGED <<dragging, accepts>>
    BY <1>1, <1>3 DEF Told
  <2>2. Passes(todo, todo', {"call"})
    BY <1>0, <1>1, <1>3, FireList
  <2>3. DragOK(todo', dnd, dragging, accepts, down)
    BY <1>0, <1>3, <2>2, DragHere, DragPass DEF Top
  <2>. QED
    BY <1>0, <2>1, <2>3
<1>4. CASE Top.k = "dragend"
  <2>1. dragging' = NoNode
    BY <1>1, <1>4 DEF Told
  <2>2. Passes(todo, todo', {"call"})
    BY <1>0, <1>1, <1>4, FireList
  <2>3. DragOK(todo', dnd', NoNode, accepts', down')
    BY <1>0, <1>4, <2>2, DragOver DEF SoundInv, Top
  <2>. QED
    BY <2>1, <2>3
<1>5. CASE Top.k = "mousedown"
  <2>1. UNCHANGED <<dragging, accepts>>
    BY <1>1, <1>5 DEF Told
  <2>2. PICK e \in Items : e.k = "pressed" /\ (e.b = "left" => Top.b = "left") /\ Turns(todo, todo', e, {"call"})
    BY <1>0, <1>1, <1>5, FireList
  <2>3. Phase(Top, dnd, dragging, accepts, down)
    BY <1>0, <1>5, DragHere DEF ActKinds
  <2>4. Phase(e, dnd', dragging', accepts', down')
    BY <1>0, <1>5, <2>1, <2>2, <2>3 DEF Phase
  <2>. QED
    BY <2>2, <2>4, DragTurn
<1>6. CASE Top.k = "dragstart"
  <2>1. Phase(Top, dnd, dragging, accepts, down)
    BY <1>0, <1>6, DragHere DEF ActKinds
  <2>2. /\ dragging = NoNode /\ dnd.source = Top.n /\ Top.n # NoNode /\ ~dnd.started /\ ~dnd.allowed
        /\ HeldBy(dnd, down)
    BY <1>6, <2>1 DEF Phase
  <2>3. PICK f : f = Do(IF v THEN "dndReset" ELSE "dndStarted", NoNode)
    OBVIOUS
  <2>4. f.k = IF v THEN "dndReset" ELSE "dndStarted"
    BY <1>2, <2>3, FrontIs
  <2>5. Turns(todo, todo', f, {"call"})
    BY <1>0, <1>1, <1>6, <2>3, FireList
  <2>6. dragging' = IF v THEN NoNode ELSE Top.n
    BY <1>1, <1>6, <2>2 DEF Told
  <2>7. Phase(f, dnd', dragging', accepts', down')
    BY <1>0, <2>2, <2>4, <2>6 DEF Phase, HeldBy, Agreed
  <2>8. f.k = "dndReset" => Ended(todo', dragging')
    BY <2>4, <2>6 DEF Ended
  <2>. QED
    BY <2>5, <2>7, <2>8, DragTurn
<1>7. CASE Top.k = "dragover" /\ Top.b # "file"
  <2>1. Phase(Top, dnd, dragging, accepts, down)
    BY <1>0, <1>7, DragHere DEF ActKinds
  <2>2. dnd.target = Top.n /\ ToldOf(dnd, dragging) /\ HeldBy(dnd, down)
    BY <1>7, <2>1 DEF Phase
  <2>3. PICK f : f = Do(IF v THEN "dndAllow" ELSE "dndDeny", NoNode)
    OBVIOUS
  <2>4. f.k = IF v THEN "dndAllow" ELSE "dndDeny"
    BY <1>2, <2>3, FrontIs
  <2>5. Turns(todo, todo', f, {"call"})
    BY <1>0, <1>1, <1>7, <2>3, FireList
  <2>6. dragging' = dragging /\ accepts' = IF v THEN Top.n ELSE NoNode
    BY <1>1, <1>7 DEF Told
  <2>7. Phase(f, dnd', dragging', accepts', down')
    BY <1>0, <2>2, <2>4, <2>6 DEF Phase, HeldBy, Agreed, ToldOf
  <2>. QED
    BY <2>4, <2>5, <2>7, DragTurn
<1>8. CASE Top.k = "dragover" /\ Top.b = "file"
  <2>1. Phase(Top, dnd, dragging, accepts, down)
    BY <1>0, <1>8, DragHere DEF ActKinds
  <2>2. dnd.source = NoNode /\ ToldOf(dnd, dragging)
    BY <1>8, <2>1 DEF Phase
  <2>3. Settles(todo, todo', {"call"})
    BY <1>0, <1>1, <1>8, FireList
  <2>4. dragging' = dragging
    BY <1>1, <1>8 DEF Told
  <2>5. Steady(dnd', dragging', accepts', down')
    BY <1>0, <2>2, <2>4 DEF Steady, HeldBy, Agreed, ToldOf
  <2>. QED
    BY <2>3, <2>5, DragRest DEF Settles
<1>. QED
  BY <1>3, <1>4, <1>5, <1>6, <1>7, <1>8

\* What the page knows of the drag is preserved by every step.
LEMMA DragStep ==
    ASSUME SoundInv, DragInv, [DomNext]_domVars
    PROVE  DragInv'
<1>1. CASE UNCHANGED domVars
  <2>1. UNCHANGED <<todo, dnd, dragging, accepts, down, lost>>
    BY <1>1 DEF domVars, user, history
  <2>. QED
    BY <2>1 DEF DragInv, DragOK, Phase, Steady, ToldOf, HeldBy, Agreed, Ended, Calm, Acts, ActKinds, Items,
                Events, Pieces, FocusPieces, MaybeNode
<1>2. CASE DomNext
  <2>0. SUFFICES ASSUME ~lost'
        PROVE  /\ DragOK(todo', dnd', dragging', accepts', down')
               /\ todo' # <<>> /\ Head(todo').k = "dragend" => dragging' = Head(todo').n
               /\ todo' # <<>> /\ Head(todo').k = "drop" /\ Head(todo').b # "file" => accepts' = Head(todo').n
    BY DEF DragInv, DragOK, Phase, Steady, ToldOf, HeldBy, Agreed, Ended, Calm, Acts, ActKinds, Items,
           Events, Pieces, FocusPieces, MaybeNode
  <2>1. ASSUME User
       PROVE  DragOK(todo', dnd', dragging', accepts', down')
    BY <2>1, DragUser
  <2>2. ASSUME Task
       PROVE  DragOK(todo', dnd', dragging', accepts', down')
    <3>1. /\ todo = <<>> /\ ~lost /\ UNCHANGED <<dnd, dragging, accepts, down>>
      BY <2>2 DEF Task, Idle, FocusCall, Destroyed, user
    <3>2. Steady(dnd', dragging', accepts', down')
      BY <3>1, DragHere
    <3>. QED
      BY <2>2, <3>2, TaskList, DragRest
  <2>3. ASSUME Dispatch \/ DispatchFocuses \/ DispatchDestroys
       PROVE  DragOK(todo', dnd', dragging', accepts', down')
    BY <2>0, <2>3, DragFires
  <2>4. ASSUME ReadsDestroyed
       PROVE  DragOK(todo', dnd', dragging', accepts', down')
    BY <2>0, <2>4 DEF ReadsDestroyed
  <2>5. ASSUME QuietStep \/ Released \/ RangeEnd \/ Tab \/ Call \/ Blurred \/ Unsnap \/ FocusSet \/ Focused
       PROVE  DragOK(todo', dnd', dragging', accepts', down')
    BY <2>5, DragPassive
  <2>6. ASSUME Pressed \/ Default
       PROVE  DragOK(todo', dnd', dragging', accepts', down')
    BY <2>6, DragPressed
  <2>7. ASSUME DndBegin \/ DndHit \/ DndOver \/ DndAnswer \/ DndStarted
       PROVE  DragOK(todo', dnd', dragging', accepts', down')
    BY <2>7, DragMoves
  <2>8. ASSUME DndDrop \/ DragEnd \/ DndReset
       PROVE  DragOK(todo', dnd', dragging', accepts', down')
    BY <2>8, DragEnds
  <2>9. DragOK(todo', dnd', dragging', accepts', down')
    BY <1>2, <2>1, <2>2, <2>3, <2>4, <2>5, <2>6, <2>7, <2>8 DEF DomNext, Pointer, Button, Focusing, QuietStep
  <2>10. todo' # <<>> /\ Head(todo').k = "dragend" => dragging' = Head(todo').n
    BY <1>2, FrontKinds, DragEnds
  <2>11. todo' # <<>> /\ Head(todo').k = "drop" /\ Head(todo').b # "file" => accepts' = Head(todo').n
    BY <1>2, FrontKinds, DragEnds
  <2>. QED
    BY <2>9, <2>10, <2>11
<1>. QED
  BY <1>1, <1>2

\* What the page learns from the pointer is consistent, whatever its listeners do in between: a
\* click goes to the node of the press, into it or around it; a drag the page was told of ends with
\* one dragend to the same node before another starts and by the time no button is held; a drop goes
\* to the node that prevented the last dragover.
THEOREM PointerKeepsProtocol == DomSpec => []PointerProtocol
<1>1. DomInit => SoundInv /\ ClickInv /\ DragInv
  <2>1. SUFFICES ASSUME DomInit PROVE SoundInv /\ ClickInv /\ DragInv
    OBVIOUS
  <2>2. todo = <<>> /\ dnd.source = NoNode /\ dragging = NoNode /\ armed = NoNode
    BY <2>1 DEF DomInit, NoDrag
  <2>3. Steady(dnd, dragging, accepts, down)
    BY <2>2 DEF Steady, ToldOf, HeldBy, Agreed
  <2>4. Calm(todo)
    BY <2>2, EmptyShape
  <2>5. DragOK(todo, dnd, dragging, accepts, down)
    BY <2>3, <2>4, DragRest
  <2>. QED
    BY <2>1, <2>2, <2>5, SoundStart DEF ClickInv, DragInv
<1>2. SoundInv /\ ClickInv /\ DragInv /\ [DomNext]_domVars => (SoundInv /\ ClickInv /\ DragInv)'
  BY SoundStep, ClickStep, DragStep
<1>3. SoundInv /\ ClickInv /\ DragInv => PointerProtocol
  <2>1. SUFFICES ASSUME SoundInv, ClickInv, DragInv PROVE PointerProtocol
    OBVIOUS
  <2>2. ClickWasPressed
    BY <2>1 DEF ClickInv, ClickWasPressed, At, Busy, Related
  <2>3. DropWasAccepted
    BY <2>1 DEF DragInv, DropWasAccepted, At, Busy, Top
  <2>4. At("dragstart") => dragging = NoNode
    BY <2>1, DragHere DEF At, Busy, ActKinds, Phase
  <2>5. At("dragend") => dragging = Top.n
    BY <2>1 DEF DragInv, At, Busy, Top
  <2>6. Idle /\ "left" \notin down => dragging = NoNode
    BY <2>1, DragHere DEF Idle, Steady, ToldOf, HeldBy
  <2>. QED
    BY <2>2, <2>3, <2>4, <2>5, <2>6 DEF PointerProtocol, DragsEnd
<1>. QED
  BY <1>1, <1>2, <1>3, PTL DEF DomSpec

-----------------------------------------------------------------------------
(* Focus. *)

\* The node with the :focus state is the focused one, and no node has it while the focus moves.
Shown == flag \cap live = {focus} \cap live
Dark == flag \cap live = {}
\* The snapshot tells whether the focused text owes a change event, and no other text owes one.
Snapped == focus \in Text => snap \in 0..1 /\ (focus \in owed <=> val[focus] # snap)
Owing == owed \cap live \subseteq {focus}

\* The focus is not moving: the old element is still the focused one, or the new one already is.
AtRest(t) == t # <<>> => /\ Head(t).k \notin {"unsnap", "focusSet", "focus", "focused"}
                         /\ ~(Head(t).k = "change" /\ Head(t).n \notin Ranges)

ShownInv ==
  ~lost /\ "nested" \notin odd =>
  /\ FocusForm(todo)
  /\ AtRest(todo) => Shown
  /\ ~AtRest(todo) => Dark
  /\ todo # <<>> /\ Head(todo).k \in {"focus", "focused"} /\ Head(todo).n \in live => focus = Head(todo).n
EditInv ==
  ~lost /\ odd = {} =>
  /\ AtRest(todo) => Snapped /\ Owing
  /\ ~AtRest(todo) => owed \cap live \subseteq IF Head(todo).k = "change" THEN {Head(todo).n} ELSE {}
FocusInv == ShownInv /\ EditInv

\* Without pieces of the focus it is not moving.
LEMMA RestIs ==
    ASSUME NEW t, Shape(t), NoPiece(t)
    PROVE  AtRest(t) /\ FocusForm(t) /\ (t # <<>> => Head(t).k \notin {"focus", "focused"})
<1>1. FocusForm(t)
  BY NoPieceForm
<1>2. ASSUME t # <<>>
      PROVE  /\ Head(t).k \notin {"unsnap", "focusSet", "focus", "focused"}
             /\ ~(Head(t).k = "change" /\ Head(t).n \notin Ranges)
  <2>1. t \in Seq(Items) /\ Len(t) \in Nat /\ 1 \in 1..Len(t) /\ t[1] = Head(t)
    BY <1>2 DEF Shape
  <2>2. Head(t).k \notin FocusPieces
    BY <2>1 DEF NoPiece
  <2>3. ~(Head(t).k = "focus" \/ (Head(t).k = "change" /\ Head(t).n \notin Ranges))
    <3>1. SUFFICES ASSUME Head(t).k = "focus" \/ (Head(t).k = "change" /\ Head(t).n \notin Ranges) PROVE FALSE
      OBVIOUS
    <3>2. Needs(t[1])
      BY <2>1, <3>1 DEF Needs
    <3>3. 1 + 1 \in 1..Len(t) /\ Mate(t[1], t[1 + 1])
      BY <2>1, <3>2 DEF Shape
    <3>4. t[1 + 1].k \in FocusPieces
      BY <2>1, <3>1, <3>3 DEF Mate, FocusPieces
    <3>. QED
      BY <3>3, <3>4 DEF NoPiece
  <2>. QED
    BY <2>2, <2>3 DEF FocusPieces
<1>. QED
  BY <1>1, <1>2 DEF AtRest

\* The goal of a step after which the focus does not move.
LEMMA RestThen ==
    ASSUME Shape(todo'),
           ~lost' /\ "nested" \notin odd' => NoPiece(todo') /\ Shown',
           ~lost' /\ odd' = {} => Snapped' /\ Owing'
    PROVE  FocusInv'
<1>1. ASSUME ~lost', "nested" \notin odd'
      PROVE  /\ AtRest(todo') /\ FocusForm(todo') /\ (todo' # <<>> => Head(todo').k \notin {"focus", "focused"})
             /\ Shown'
  BY <1>1, RestIs
<1>2. odd' = {} => "nested" \notin odd'
  OBVIOUS
<1>3. ShownInv'
  BY <1>1 DEF ShownInv, AtRest, FocusForm, Clear, Lead, FocusPieces
<1>4. EditInv'
  BY <1>1, <1>2 DEF EditInv, AtRest
<1>. QED
  BY <1>3, <1>4 DEF FocusInv

\* What is known while the focus does not move.
Still == todo # <<>> => /\ Top.k \notin {"blur", "blurred", "unsnap", "focusSet", "focus", "focused"}
                        /\ ~(Top.k = "change" /\ Top.n \notin Ranges)
\* Then no piece of the focus is in the list.
LEMMA RestHere ==
    ASSUME SoundInv, FocusInv, ~lost, Still, "nested" \notin odd
    PROVE  /\ NoPiece(todo) /\ Shown
           /\ todo # <<>> => NoPiece(Tail(todo))
           /\ odd = {} => Snapped /\ Owing
<1>1. FocusForm(todo) /\ Shape(todo)
  BY DEF FocusInv, ShownInv, SoundInv
<1>2. Lead(todo) = 0
  BY DEF Still, Lead, Top
<1>3. NoPiece(todo)
  <2>1. todo \in Seq(Items) /\ Len(todo) \in Nat
    BY <1>1 DEF Shape
  <2>2. \A p \in 1..Len(todo) : p > 0
    BY <2>1
  <2>. QED
    BY <1>1, <1>2, <2>2 DEF FocusForm, Clear, NoPiece
<1>4. AtRest(todo)
  BY DEF Still, AtRest, Top
<1>5. todo # <<>> => NoPiece(Tail(todo))
  BY <1>1, <1>3, ClearTail
<1>. QED
  BY <1>3, <1>4, <1>5 DEF FocusInv, ShownInv, EditInv

\* Steps of handlers that keep the focus, the values and the history of edits.
SameText == UNCHANGED <<live, focus, flag, val, snap, owed, odd>>
\* Then the focus goes on as it was.
LEMMA SameRest ==
    ASSUME SoundInv, FocusInv, DomNext, ~lost, Still, SameText,
           todo = <<>> => NoPiece(todo'), todo # <<>> /\ NoPiece(Tail(todo)) => NoPiece(todo')
    PROVE  FocusInv'
<1>1. Shape(todo')
  BY ShapeStep
<1>2. "nested" \notin odd => NoPiece(todo') /\ Shown'
  BY RestHere DEF SameText, Shown
<1>3. odd = {} => Snapped' /\ Owing'
  BY RestHere DEF SameText, Snapped, Owing
<1>4. odd' = odd
  BY DEF SameText
<1>. QED
  BY <1>1, <1>2, <1>3, <1>4, RestThen

\* The kinds of the items of the steps that are not about the focus.
LEMMA StillKinds ==
    ASSUME SoundInv, todo # <<>>, Passive(Top) \/ Top.k \in ActKinds \cup {"dndHit"}
    PROVE  Still
<1>1. CASE Passive(Top)
  BY <1>1 DEF Passive, Fronts, FocusPieces, Still
<1>2. CASE Top.k \in ActKinds \cup {"dndHit"}
  BY <1>2 DEF ActKinds, Still
<1>. QED
  BY <1>1, <1>2

\* Steps that keep everything that the focus is about.
LEMMA FocusSame ==
    ASSUME SoundInv, FocusInv, DomNext,
           \/ Hover \/ HoverSet \/ Touch \/ Clicked \/ Unclick \/ Unpress \/ Suppress \/ DndMove
           \/ Released \/ RangeEnd \/ Tab \/ Pressed \/ DndStarted \/ DndReset \/ DndAnswer
           \/ DndBegin \/ DndHit \/ DndOver \/ DndDrop \/ DragEnd
    PROVE  FocusInv'
<1>1. ~lost
  BY NotLost
<1>2. CASE Hover \/ HoverSet \/ Touch \/ Clicked \/ Unclick \/ Unpress \/ Suppress \/ DndMove
  <2>1. SameText
    BY <1>2 DEF Hover, HoverSet, Touch, Clicked, Unclick, Unpress, Suppress, DndMove, Step, SameText, kept,
                control, history
  <2>2. todo # <<>> /\ Passive(Top) /\ (NoPiece(Tail(todo)) => NoPiece(todo'))
    BY <1>2, QuietSteps DEF QuietStep
  <2>. QED
    BY <1>1, <2>1, <2>2, StillKinds, SameRest
<1>3. CASE Released \/ RangeEnd \/ Tab
  <2>1. SameText
    BY <1>3 DEF Released, RangeEnd, Tab, Step, SameText, kept, control, history
  <2>2. todo # <<>> /\ Passive(Top) /\ (NoPiece(Tail(todo)) => NoPiece(todo'))
    BY <1>3, ReleasedList, RangeEndList, TabList
  <2>. QED
    BY <1>1, <2>1, <2>2, StillKinds, SameRest
<1>4. CASE Pressed \/ DndStarted \/ DndReset \/ DndAnswer \/ DndBegin \/ DndHit \/ DndOver \/ DndDrop \/ DragEnd
  <2>1. SameText /\ Top.k \in ActKinds \cup {"dndHit"} /\ todo # <<>>
    BY <1>4 DEF Pressed, DndStarted, DndReset, DndAnswer, DndBegin, DndHit, DndOver, DndDrop, DragEnd, Step, At,
                Busy, ActKinds, SameText, kept, control, history
  <2>2. \/ \E K : Settles(todo, todo', K)
        \/ \E f, K : Turns(todo, todo', f, K)
    <3>1. CASE Pressed
      BY <3>1, PressedList
    <3>2. CASE DndStarted \/ DndReset \/ DndAnswer
      BY <3>2, SettledList
    <3>3. CASE DndBegin
      BY <3>3, DndBeginList
    <3>4. CASE DndHit
      BY <3>4, DndHitList
    <3>5. CASE DndOver \/ DndDrop \/ DragEnd
      BY <3>5, DndOverList, DndDropList, DragEndList
    <3>. QED
      BY <1>4, <3>1, <3>2, <3>3, <3>4, <3>5
  <2>3. NoPiece(Tail(todo)) => NoPiece(todo')
    BY <2>2 DEF Settles, Turns
  <2>. QED
    BY <1>1, <2>1, <2>3, StillKinds, SameRest
<1>. QED
  BY <1>2, <1>3, <1>4

\* Inputs, which come while the focus does not move.
LEMMA FocusInputs ==
    ASSUME SoundInv, FocusInv, User
    PROVE  FocusInv'
<1>1. ~lost /\ todo = <<>> /\ DomNext
  BY DEF User, Move, Press, PressScrollbar, Release, ReleaseCapture, DropFiles, KeyDown, Char, Handler, Input, Idle,
         DomNext
<1>2. Shape(todo') /\ NoPiece(todo')
  BY MoveList, PressList, ReleaseList, DropFilesList, OtherInputList DEF User, Fresh
<1>3. Still
  BY <1>1 DEF Still
<1>4. /\ focus \in MaybeNode /\ val \in [Fields -> 0..1] /\ owed \subseteq Text /\ Text \subseteq Fields
      /\ odd \subseteq {"nested", "mixed"} /\ NoNode \notin Nodes /\ Text \subseteq Nodes
  BY Tree, Controls DEF SoundInv, DomTypes, Fields
<1>5. /\ "nested" \notin odd => Shown
      /\ odd = {} => Snapped /\ Owing
  BY <1>1, <1>3, RestHere
<1>6. CASE \/ \E p \in Positions : Move(p)
           \/ \E b \in {"left", "right"} : Press(b) \/ Release(b)
           \/ PressScrollbar \/ DropFiles \/ \E key \in {"Tab", "-"} : KeyDown(key)
  <2>1. SameText
    BY <1>6 DEF Move, Press, Release, PressScrollbar, DropFiles, KeyDown, Handler, SameText, kept, control, history
  <2>. QED
    BY <1>1, <1>2, <1>3, <2>1, SameRest
<1>7. CASE ReleaseCapture
  <2>1. UNCHANGED <<live, focus, flag, val, owed>> /\ odd \subseteq odd'
        /\ (snap' = snap \/ focus \notin Text \/ "mixed" \in odd')
    BY <1>7 DEF ReleaseCapture, Handler
  <2>2. "nested" \notin odd' => Shown'
    BY <1>5, <2>1 DEF Shown
  <2>3. odd' = {} => Snapped' /\ Owing'
    BY <1>5, <2>1 DEF Snapped, Owing
  <2>. QED
    BY <1>2, <2>2, <2>3, RestThen
<1>8. CASE Char
  <2>1. UNCHANGED <<live, focus, flag, snap, odd>>
    BY <1>8 DEF Char, Handler, kept
  <2>2. \/ UNCHANGED <<val, owed>>
        \/ focus \in Text /\ Edited
    BY <1>8 DEF Char
  <2>3. odd' = {} => Snapped' /\ Owing'
    BY <1>4, <1>5, <2>1, <2>2 DEF Snapped, Owing, Edited
  <2>4. "nested" \notin odd' => Shown'
    BY <1>5, <2>1 DEF Shown
  <2>. QED
    BY <1>2, <2>3, <2>4, RestThen
<1>. QED
  BY <1>6, <1>7, <1>8 DEF User

\* Steps that change a value or the snapshot while the focus does not move.
LEMMA FocusValues ==
    ASSUME SoundInv, FocusInv, DomNext, RangeFollows \/ Default \/ RangeDone \/ Edit
    PROVE  FocusInv'
<1>1. ~lost /\ todo # <<>> /\ Shape(todo')
  BY NotLost, ShapeStep DEF RangeFollows, Default, RangeDone, Edit, Step, At, Busy
<1>2. Still /\ (NoPiece(Tail(todo)) => NoPiece(todo'))
  <2>1. CASE RangeFollows \/ RangeDone \/ Edit
    BY <1>1, <2>1, QuietSteps, StillKinds DEF QuietStep
  <2>2. CASE Default
    <3>1. Top.k \in ActKinds /\ Settles(todo, todo', {})
      BY <2>2, SettledList DEF ActKinds
    <3>. QED
      BY <1>1, <3>1, StillKinds DEF Settles
  <2>. QED
    BY <2>1, <2>2
<1>3. /\ "nested" \notin odd => NoPiece(todo') /\ Shown
      /\ odd = {} => Snapped /\ Owing
  BY <1>1, <1>2, RestHere
<1>4. /\ focus \in MaybeNode /\ val \in [Fields -> 0..1] /\ owed \subseteq Text /\ Text \subseteq Fields
      /\ odd \subseteq {"nested", "mixed"} /\ NoNode \notin Nodes /\ Text \subseteq Nodes
      /\ Text \cap Ranges = {} /\ Ranges \subseteq Fields
  BY Tree, Controls DEF SoundInv, DomTypes, Fields
<1>5. UNCHANGED <<live, focus, flag>> /\ odd \subseteq odd'
  BY DEF RangeFollows, Default, RangeDone, Edit, Step, kept, history
<1>6. "nested" \notin odd' => NoPiece(todo') /\ Shown'
  BY <1>3, <1>5 DEF Shown
<1>7. SUFFICES ASSUME odd' = {} PROVE Snapped' /\ Owing'
  BY <1>1, <1>6, RestThen
<1>8. Snapped /\ Owing /\ odd = {}
  BY <1>3, <1>5, <1>7
<1>9. CASE RangeFollows
  <2>1. Top.n \in Ranges /\ UNCHANGED <<snap, owed>>
    <3>1. Top.k = "range"
      BY <1>9 DEF RangeFollows, Step, At
    <3>2. NodeFits(Top)
      BY <1>1, TopFacts DEF SoundInv, Shape
    <3>. QED
      BY <1>9, <3>1, <3>2 DEF NodeFits, RangeFollows, history
  <2>2. val' = val \/ val' = [val EXCEPT ![Top.n] = 1 - @]
    BY <1>9 DEF RangeFollows, RangeMoves
  <2>3. focus \in Text => val'[focus] = val[focus]
    BY <1>4, <2>1, <2>2
  <2>. QED
    BY <1>5, <1>8, <2>1, <2>3 DEF Snapped, Owing
<1>10. CASE Default
  <2>1. owed' = owed
    BY <1>10 DEF Default
  <2>2. CASE Top.n \in Ranges
    <3>1. focus \notin Text
      BY <1>7, <1>10, <2>2 DEF Default
    <3>. QED
      BY <1>5, <1>8, <2>1, <3>1 DEF Snapped, Owing
  <2>3. CASE Top.n \notin Ranges
    <3>1. UNCHANGED <<snap, val>>
      BY <1>10, <2>3 DEF Default
    <3>. QED
      BY <1>5, <1>8, <2>1, <3>1 DEF Snapped, Owing
  <2>. QED
    BY <2>2, <2>3
<1>11. CASE RangeDone
  <2>1. focus \notin Text /\ owed' = owed
    BY <1>7, <1>11 DEF RangeDone
  <2>. QED
    BY <1>5, <1>8, <2>1 DEF Snapped, Owing
<1>12. CASE Edit
  <2>1. snap' = snap
    BY <1>12 DEF Edit
  <2>2. UNCHANGED <<val, owed>> \/ (focus \in Text /\ Edited)
    BY <1>12 DEF Edit
  <2>. QED
    BY <1>4, <1>5, <1>8, <2>1, <2>2 DEF Snapped, Owing, Edited
<1>. QED
  BY <1>9, <1>10, <1>11, <1>12

\* The goal of a step after which the focus moves.
LEMMA MovingThen ==
    ASSUME Shape(todo'), todo' # <<>>, ~AtRest(todo'),
           ~lost' /\ "nested" \notin odd' =>
             /\ FocusForm(todo') /\ Dark'
             /\ Head(todo').k \in {"focus", "focused"} /\ Head(todo').n \in live' => focus' = Head(todo').n,
           ~lost' /\ odd' = {} =>
             owed' \cap live' \subseteq IF Head(todo').k = "change" THEN {Head(todo').n} ELSE {}
    PROVE  FocusInv'
<1>1. ShownInv'
  BY DEF ShownInv, AtRest, FocusForm, Clear, Lead, FocusPieces
<1>2. EditInv'
  BY DEF EditInv, AtRest
<1>. QED
  BY <1>1, <1>2 DEF FocusInv

\* What is known while the focus moves.
LEMMA MovingHere ==
    ASSUME SoundInv, FocusInv, ~lost, "nested" \notin odd, todo # <<>>
    PROVE  /\ Top.k \in {"blurred", "focusSet", "focused"} => NoPiece(Tail(todo))
           /\ Top.k \in {"unsnap", "blur", "focus"} \/ (Top.k = "change" /\ Top.n \notin Ranges) =>
                /\ FocusForm(Tail(todo)) /\ Tail(todo) # <<>>
                /\ Top.k = "unsnap" => Head(Tail(todo)).k = "focusSet"
                /\ Top.k = "blur" => Head(Tail(todo)).k = "blurred"
                /\ Top.k = "focus" => Head(Tail(todo)).k = "focused" /\ Head(Tail(todo)).n = Top.n
                /\ Top.k = "change" => Head(Tail(todo)).k = "unsnap"
           /\ Top.k \in {"blur", "blurred"} => Shown /\ (odd = {} => Snapped /\ Owing)
           /\ Top.k \in {"unsnap", "focusSet", "focus", "focused"} => Dark /\ (odd = {} => owed \cap live = {})
           /\ Top.k = "change" /\ Top.n \notin Ranges => Dark /\ (odd = {} => owed \cap live \subseteq {Top.n})
           /\ Top.k \in {"focus", "focused"} /\ Top.n \in live => focus = Top.n
<1>1. FocusForm(todo) /\ Shape(todo) /\ Top = Head(todo)
  BY DEF FocusInv, ShownInv, SoundInv, Top
<1>2. ASSUME Top.k \in {"blurred", "focusSet", "focused"} PROVE NoPiece(Tail(todo))
  <2>1. Lead(todo) = 1
    BY <1>1, <1>2 DEF Lead
  <2>. QED
    BY <1>1, <2>1, ClearTail DEF FocusForm
<1>3. ASSUME Top.k \in {"unsnap", "blur", "focus"} \/ (Top.k = "change" /\ Top.n \notin Ranges)
      PROVE  /\ FocusForm(Tail(todo)) /\ Tail(todo) # <<>>
             /\ Top.k = "unsnap" => Head(Tail(todo)).k = "focusSet"
             /\ Top.k = "blur" => Head(Tail(todo)).k = "blurred"
             /\ Top.k = "focus" => Head(Tail(todo)).k = "focused" /\ Head(Tail(todo)).n = Top.n
             /\ Top.k = "change" => Head(Tail(todo)).k = "unsnap"
  <2>1. Needs(Head(todo))
    BY <1>1, <1>3 DEF Needs
  <2>2. Tail(todo) # <<>> /\ Mate(Head(todo), Head(Tail(todo)))
    BY <1>1, <2>1, TailShape
  <2>3. Top.k = "change" => Clear(todo, 2 + 1)
    BY <1>1, <1>3 DEF FocusForm, Lead
  <2>4. Top.k # "change" => Clear(todo, 1 + 1)
    BY <1>1, <1>3 DEF FocusForm, Lead
  <2>5. /\ Top.k = "change" => Clear(Tail(todo), 2)
        /\ Top.k # "change" => Clear(Tail(todo), 1)
    BY <1>1, <2>3, <2>4, ClearTail
  <2>6. /\ Top.k = "change" => Lead(Tail(todo)) = 2
        /\ Top.k # "change" => Lead(Tail(todo)) = 1
    BY <1>1, <1>3, <2>2 DEF Mate, Lead
  <2>7. FocusForm(Tail(todo))
    BY <2>5, <2>6 DEF FocusForm
  <2>. QED
    BY <1>1, <1>3, <2>2, <2>7 DEF Mate
<1>4. AtRest(todo) <=> /\ Top.k \notin {"unsnap", "focusSet", "focus", "focused"}
                       /\ ~(Top.k = "change" /\ Top.n \notin Ranges)
  BY <1>1 DEF AtRest
<1>5. Top.k \in {"blur", "blurred"} => Shown /\ (odd = {} => Snapped /\ Owing)
  BY <1>4 DEF FocusInv, ShownInv, EditInv
<1>6. Top.k \in {"unsnap", "focusSet", "focus", "focused"} => Dark /\ (odd = {} => owed \cap live = {})
  BY <1>1, <1>4 DEF FocusInv, ShownInv, EditInv
<1>7. Top.k = "change" /\ Top.n \notin Ranges => Dark /\ (odd = {} => owed \cap live \subseteq {Top.n})
  BY <1>1, <1>4 DEF FocusInv, ShownInv, EditInv
<1>8. Top.k \in {"focus", "focused"} /\ Top.n \in live => focus = Top.n
  BY <1>1 DEF FocusInv, ShownInv
<1>. QED
  BY <1>2, <1>3, <1>5, <1>6, <1>7, <1>8

\* The goal of a step after which the focus is about to move.
LEMMA LeavingThen ==
    ASSUME AtRest(todo'),
           ~lost' /\ "nested" \notin odd' => FocusForm(todo') /\ Shown',
           ~lost' /\ odd' = {} => Snapped' /\ Owing'
    PROVE  FocusInv'
<1>1. ShownInv'
  BY DEF ShownInv, AtRest, FocusForm, Clear, Lead, FocusPieces
<1>2. EditInv'
  BY DEF EditInv, AtRest
<1>. QED
  BY <1>1, <1>2 DEF FocusInv

\* focus() begins.
LEMMA FocusCalled ==
    ASSUME SoundInv, FocusInv, DomNext, Call
    PROVE  FocusInv'
<1>1. /\ ~lost /\ Shape(todo') /\ todo # <<>> /\ Top.k = "call" /\ live \subseteq Nodes /\ owed \subseteq Text
      /\ SameText
  BY NotLost, ShapeStep, CallList DEF SoundInv, DomTypes, Call, Step, SameText, kept, control, history
<1>2. Still
  BY <1>1 DEF Still
<1>3. /\ "nested" \notin odd => Shown /\ NoPiece(Tail(todo))
      /\ odd = {} => Snapped /\ Owing
  BY <1>1, <1>2, RestHere
<1>4. /\ "nested" \notin odd' => Shown' /\ NoPiece(Tail(todo))
      /\ odd' = {} => Snapped' /\ Owing'
  BY <1>1, <1>3 DEF SameText, Shown, Snapped, Owing
<1>5. "nested" \notin odd' => FocusForm(todo')
  BY <1>4, CallList
<1>6. CASE todo' = Tail(todo)
  BY <1>1, <1>4, <1>6, RestThen
<1>7. CASE todo' # <<>> /\ Head(todo').k = "focusSet" /\ focus = NoNode
  <2>1. ~AtRest(todo')
    BY <1>7 DEF AtRest
  <2>2. "nested" \notin odd' => Dark'
    BY <1>1, <1>4, <1>7, Tree DEF Shown, Dark, SameText
  <2>3. odd' = {} => owed' \cap live' \subseteq {}
    BY <1>1, <1>4, <1>7, Tree DEF Owing, SameText
  <2>. QED
    BY <1>1, <1>5, <1>7, <2>1, <2>2, <2>3, MovingThen
<1>8. CASE todo' # <<>> /\ Head(todo').k = "blur"
  <2>1. AtRest(todo')
    BY <1>8 DEF AtRest
  <2>. QED
    BY <1>4, <1>5, <2>1, LeavingThen
<1>. QED
  BY <1>6, <1>7, <1>8, CallList

\* The old element loses its state.
LEMMA FocusBlurred ==
    ASSUME SoundInv, FocusInv, DomNext, Blurred
    PROVE  FocusInv'
<1>1. /\ ~lost /\ Shape(todo') /\ todo # <<>> /\ Top.k = "blurred" /\ live \subseteq Nodes /\ owed \subseteq Text
      /\ UNCHANGED <<live, focus, val, snap, owed, odd>> /\ flag' = flag \ {focus} /\ todo' # <<>>
      /\ focus \in MaybeNode /\ Text \cap Ranges = {} /\ NoNode \notin Nodes \cup {0, 1} /\ Text \subseteq Nodes
  BY NotLost, ShapeStep, BlurredList, Tree, Controls DEF SoundInv, DomTypes, Blurred, Step, kept, history
<1>2. /\ "nested" \notin odd => Shown /\ NoPiece(Tail(todo))
      /\ odd = {} => Snapped /\ Owing
  BY <1>1, MovingHere
<1>3. "nested" \notin odd' => FocusForm(todo') /\ Dark'
  <2>1. "nested" \notin odd' => Dark'
    BY <1>1, <1>2 DEF Shown, Dark
  <2>. QED
    BY <1>1, <1>2, <2>1, BlurredList
<1>4. CASE Head(todo').k = "unsnap" /\ ~(focus \in Text /\ Changed(focus))
  <2>1. ~AtRest(todo')
    BY <1>1, <1>4 DEF AtRest
  <2>2. odd' = {} => owed' \cap live' \subseteq {}
    <3>1. SUFFICES ASSUME odd' = {} PROVE focus \notin owed
      BY <1>1, <1>2 DEF Owing
    <3>2. focus \in Text => snap \in 0..1 /\ (focus \in owed <=> val[focus] # snap)
      BY <1>1, <1>2, <3>1 DEF Snapped
    <3>3. focus \in Text => snap # NoNode
      BY <1>1, <3>2
    <3>. QED
      BY <1>1, <1>4, <3>2, <3>3 DEF Changed
  <2>. QED
    BY <1>1, <1>3, <1>4, <2>1, <2>2, MovingThen
<1>5. CASE Head(todo').k = "change" /\ Head(todo').n = focus /\ focus \in Text
  <2>1. ~AtRest(todo')
    BY <1>1, <1>5 DEF AtRest
  <2>2. odd' = {} => owed' \cap live' \subseteq {Head(todo').n}
    BY <1>1, <1>2, <1>5 DEF Owing
  <2>. QED
    BY <1>1, <1>3, <1>5, <2>1, <2>2, MovingThen
<1>. QED
  BY <1>4, <1>5, BlurredList

\* The snapshot is dropped, the new element is stored and gets its state.
LEMMA FocusLands ==
    ASSUME SoundInv, FocusInv, DomNext, Unsnap \/ FocusSet \/ Focused
    PROVE  FocusInv'
<1>1. /\ ~lost /\ Shape(todo') /\ todo # <<>> /\ live \subseteq Nodes /\ owed \subseteq Text
      /\ NoNode \notin Nodes \cup {0, 1} /\ Text \subseteq Fields /\ val \in [Fields -> 0..1]
      /\ Text \subseteq Nodes
  BY NotLost, ShapeStep, FocusEndList, FocusSetList, Tree, Controls DEF SoundInv, DomTypes, Fields
<1>2. UNCHANGED <<live, owed>> /\ odd \subseteq odd'
  BY DEF Unsnap, FocusSet, Focused, Step, history
<1>3. CASE Unsnap
  <2>1. Top.k = "unsnap" /\ todo' = Tail(todo) /\ UNCHANGED <<focus, flag, odd>>
    BY <1>3, FocusEndList DEF Unsnap, Step, At, kept, history
  <2>2. Tail(todo) # <<>> /\ Head(Tail(todo)).k = "focusSet"
    <3>1. Shape(todo) /\ Needs(Head(todo))
      BY <2>1 DEF Needs, Top, SoundInv
    <3>2. Tail(todo) # <<>> /\ Mate(Head(todo), Head(Tail(todo)))
      BY <1>1, <3>1, TailShape
    <3>. QED
      BY <2>1, <3>2 DEF Mate, Top
  <2>3. ~AtRest(todo')
    BY <2>1, <2>2 DEF AtRest
  <2>4. "nested" \notin odd' => FocusForm(todo') /\ Dark'
    BY <1>1, <1>2, <2>1, MovingHere DEF Dark
  <2>5. odd' = {} => owed' \cap live' \subseteq {}
    BY <1>1, <1>2, <2>1, MovingHere
  <2>. QED
    BY <1>1, <2>1, <2>2, <2>3, <2>4, <2>5, MovingThen
<1>4. CASE FocusSet
  <2>1. Top.k = "focusSet" /\ focus' = Top.n /\ UNCHANGED <<flag, odd>>
    BY <1>4 DEF FocusSet, Step, At, control, history
  <2>2. /\ "nested" \notin odd' => Dark' /\ NoPiece(Tail(todo))
        /\ odd' = {} => owed' \cap live' \subseteq {}
    BY <1>1, <1>2, <2>1, MovingHere DEF Dark
  <2>3. CASE todo' = Tail(todo) /\ Top.n = NoNode
    <3>1. "nested" \notin odd' => NoPiece(todo') /\ Shown'
      BY <1>1, <1>2, <2>1, <2>2, <2>3 DEF Dark, Shown
    <3>2. odd' = {} => Snapped' /\ Owing'
      BY <1>1, <2>1, <2>2, <2>3 DEF Snapped, Owing
    <3>. QED
      BY <1>1, <3>1, <3>2, RestThen
  <2>4. CASE todo' # <<>> /\ Head(todo').k = "focus" /\ Head(todo').n = Top.n
    <3>1. ~AtRest(todo')
      BY <2>4 DEF AtRest
    <3>2. "nested" \notin odd' => FocusForm(todo')
      BY <1>4, <2>2, FocusSetList
    <3>. QED
      BY <1>1, <2>1, <2>2, <2>4, <3>1, <3>2, MovingThen
  <2>. QED
    BY <1>4, <2>3, <2>4, FocusSetList
<1>5. CASE Focused
  <2>1. /\ Top.k = "focused" /\ todo' = Tail(todo) /\ UNCHANGED <<focus, val>> /\ flag' = flag \cup {Top.n}
        /\ snap' = IF Top.n \in Fields THEN val[Top.n] ELSE snap
    BY <1>5, FocusEndList DEF Focused, Step, At, kept
  <2>2. Top.n # NoNode /\ Top.n \in live
    <3>1. NodeFits(Top)
      BY <1>1, TopFacts DEF SoundInv, Shape
    <3>2. Top.n # NoNode
      BY <2>1, <3>1 DEF NodeFits
    <3>. QED
      BY <1>5, <2>1, <3>2 DEF Focused, Step, Readable, Reads
  <2>3. "nested" \notin odd' => NoPiece(todo') /\ Shown'
    <3>1. SUFFICES ASSUME "nested" \notin odd' PROVE NoPiece(todo') /\ Shown'
      OBVIOUS
    <3>2. Dark /\ focus = Top.n /\ NoPiece(Tail(todo))
      BY <1>1, <1>2, <2>1, <2>2, <3>1, MovingHere
    <3>. QED
      BY <1>2, <2>1, <2>2, <3>2 DEF Dark, Shown
  <2>4. odd' = {} => Snapped' /\ Owing'
    <3>1. SUFFICES ASSUME odd' = {} PROVE Snapped' /\ Owing'
      OBVIOUS
    <3>2. focus = Top.n /\ owed \cap live = {}
      BY <1>1, <1>2, <2>1, <2>2, <3>1, MovingHere
    <3>. QED
      BY <1>1, <1>2, <2>1, <2>2, <3>2 DEF Snapped, Owing
  <2>. QED
    BY <1>1, <2>3, <2>4, RestThen
<1>. QED
  BY <1>3, <1>4, <1>5

\* Listeners destroy nodes, or none: the focused one may be forgotten when it is among them.
Shrinks == /\ live' \subseteq live /\ (focus' = focus \/ (focus' = NoNode /\ focus \notin live'))
           /\ UNCHANGED <<flag, val, snap>> /\ odd \subseteq odd'
\* This is what the dispatches and the scripts do.
LEMMA ShrinkFacts ==
    ASSUME SoundInv, ~lost, Dispatch \/ DispatchFocuses \/ DispatchDestroys \/ Task
    PROVE  Shrinks
<1>2. CASE UNCHANGED <<live, focus, flag, val, snap>> /\ odd \subseteq odd'
  BY <1>2 DEF Shrinks
<1>3. ASSUME NEW dead \in Emptied, Destroyed(dead), UNCHANGED odd PROVE Shrinks
  <2>1. PICK heard \in BOOLEAN :
          /\ live' = live \ dead /\ UNCHANGED control
          /\ focus' = (IF heard /\ focus \in dead THEN NoNode ELSE focus)
    BY <1>3 DEF Destroyed
  <2>. QED
    BY <1>3, <2>1 DEF Shrinks, control
<1>. QED
  BY <1>2, <1>3 DEF Dispatch, DispatchFocuses, DispatchDestroys, Task, FocusCall, kept, control

\* What stays true of the focus and of the edits then.
LEMMA ShrinkKeeps ==
    ASSUME SoundInv, Shrinks
    PROVE  /\ Shown => Shown'
           /\ Dark => Dark'
           /\ Snapped /\ owed' = owed => Snapped'
           /\ Owing /\ owed' \subseteq owed => Owing'
<1>1. live \subseteq Nodes /\ NoNode \notin Nodes /\ Text \subseteq Nodes
  BY Tree, Controls DEF SoundInv, DomTypes
<1>2. Shown => Shown'
  BY <1>1 DEF Shown, Shrinks
<1>3. Dark => Dark'
  BY <1>1 DEF Dark, Shrinks
<1>4. Snapped /\ owed' = owed => Snapped'
  BY <1>1 DEF Snapped, Shrinks
<1>5. Owing /\ owed' \subseteq owed => Owing'
  BY <1>1 DEF Owing, Shrinks
<1>. QED
  BY <1>2, <1>3, <1>4, <1>5

\* The pieces of a list are those of its parts.
LEMMA NoPieceRest ==
    ASSUME NEW x \in Seq(Items), NEW r \in Seq(Items), NoPiece(x \o r)
    PROVE  NoPiece(r)
<1>1. ASSUME NEW q \in 1..Len(r) PROVE r[q].k \notin FocusPieces
  <2>1. Len(x) + q \in 1..Len(x \o r) /\ (x \o r)[Len(x) + q] = r[q]
    BY ConcatProperties
  <2>. QED
    BY <2>1 DEF NoPiece
<1>. QED
  BY <1>1 DEF NoPiece

\* An event that is not about the focus.
LEMMA EventStill ==
    ASSUME SoundInv, todo # <<>>, Top.k \in Events, NoPiece(Tail(todo))
    PROVE  Still
<1>1. SUFFICES ASSUME Top.k \in {"blur", "focus"} \/ (Top.k = "change" /\ Top.n \notin Ranges) PROVE FALSE
  BY DEF Still, Events
<1>2. Shape(todo) /\ Needs(Head(todo)) /\ Tail(todo) \in Seq(Items)
  BY <1>1, TopFacts DEF Needs, Top, SoundInv
<1>3. Tail(todo) # <<>> /\ Mate(Head(todo), Head(Tail(todo)))
  BY <1>2, TailShape
<1>4. Head(Tail(todo)).k \in FocusPieces
  BY <1>1, <1>3 DEF Mate, FocusPieces, Top
<1>5. 1 \in 1..Len(Tail(todo)) /\ Tail(todo)[1] = Head(Tail(todo))
  BY <1>2, <1>3
<1>. QED
  BY <1>4, <1>5 DEF NoPiece

\* Events: a listener that calls focus() while the focus moves nests the calls.
LEMMA FocusFires ==
    ASSUME SoundInv, FocusInv, DomNext, Dispatch \/ DispatchFocuses \/ DispatchDestroys
    PROVE  FocusInv'
<1>0. SUFFICES ASSUME ~lost' PROVE FocusInv'
  BY DEF FocusInv, ShownInv, EditInv
<1>1. /\ ~lost /\ todo # <<>> /\ Top.k \in Events /\ Top.n \in live /\ Shape(todo') /\ Shrinks
      /\ owed \subseteq Text /\ Text \cap Ranges = {} /\ Tail(todo) \in Seq(Items) /\ Shape(todo)
  BY FiresFacts, ShapeStep, ShrinkFacts, TopFacts, Controls DEF SoundInv, DomTypes
<1>2. odd' = {} => odd = {}
  BY <1>1 DEF Shrinks
<1>3. "nested" \notin odd' => "nested" \notin odd
  BY <1>1 DEF Shrinks
<1>4. CASE DispatchFocuses
  <2>1. PICK v \in BOOLEAN, m \in MaybeNode :
           /\ Told(Top, v) /\ FocusCall(m, After(Top, v) \o Tail(todo))
    <3>1. CanFocus \subseteq MaybeNode
      BY DEF CanFocus, SoundInv, DomTypes, MaybeNode
    <3>2. Prevents(Top) \subseteq BOOLEAN
      BY DEF Prevents
    <3>. QED
      BY <1>4, <3>1, <3>2 DEF DispatchFocuses
  <2>2. PICK x : x = After(Top, v)
    OBVIOUS
  <2>3. PICK y : y = x \o Tail(todo)
    OBVIOUS
  <2>4. Shape(x) /\ x \in Seq(Items) /\ y \in Seq(Items)
    <3>1. Shape(x)
      BY <1>1, <2>2, AfterFacts
    <3>2. x \in Seq(Items)
      BY <3>1 DEF Shape
    <3>. QED
      BY <1>1, <2>3, <3>1, <3>2
  <2>5. /\ todo' = <<Do("call", m)>> \o y
        /\ odd' = odd \cup IF \E p \in DOMAIN y : y[p].k \in FocusPieces THEN {"nested"} ELSE {}
    BY <2>1, <2>2, <2>3 DEF FocusCall
  <2>6. "nested" \notin odd' => NoPiece(Tail(todo))
    <3>1. SUFFICES ASSUME "nested" \notin odd' PROVE NoPiece(y)
      BY <1>1, <2>3, <2>4, NoPieceRest
    <3>2. DOMAIN y = 1..Len(y)
      BY <2>4
    <3>. QED
      BY <2>5, <3>1, <3>2 DEF NoPiece
  <2>7. "nested" \notin odd' => NoPiece(todo') /\ Still
    <3>1. NoPiece(Tail(todo)) => NoPiece(todo')
      BY <1>1, <2>2, <2>3, <2>5, FireList
    <3>. QED
      BY <1>1, <2>6, <3>1, EventStill
  <2>8. Still => owed' = owed
    BY <1>1, <2>1 DEF Told, Still
  <2>9. "nested" \notin odd' => Shown'
    BY <1>1, <1>3, <2>7, RestHere, ShrinkKeeps
  <2>10. odd' = {} => Snapped' /\ Owing'
    <3>1. SUFFICES ASSUME odd' = {} PROVE Snapped' /\ Owing'
      OBVIOUS
    <3>2. Still /\ Snapped /\ Owing
      BY <1>1, <1>2, <2>7, <3>1, RestHere
    <3>. QED
      BY <1>1, <2>8, <3>2, ShrinkKeeps
  <2>. QED
    BY <1>1, <2>7, <2>9, <2>10, RestThen
<1>5. CASE Dispatch \/ DispatchDestroys
  <2>1. PICK v \in BOOLEAN : Told(Top, v) /\ todo' = After(Top, v) \o Tail(todo)
    <3>1. Prevents(Top) \subseteq BOOLEAN
      BY DEF Prevents
    <3>. QED
      BY <1>0, <1>5, <3>1 DEF Dispatch, DispatchDestroys, Then
  <2>2. odd' = odd /\ owed' \subseteq owed
    BY <1>5, <2>1 DEF Dispatch, DispatchDestroys, Told
  <2>3. CASE Still
    <3>1. owed' = owed
      BY <1>1, <2>1, <2>3 DEF Told, Still
    <3>2. "nested" \notin odd' => NoPiece(todo') /\ Shown'
      <4>1. SUFFICES ASSUME "nested" \notin odd PROVE NoPiece(todo') /\ Shown'
        BY <2>2
      <4>2. NoPiece(Tail(todo)) /\ Shown
        BY <1>1, <2>3, <4>1, RestHere
      <4>. QED
        BY <1>1, <2>1, <4>2, FireList, ShrinkKeeps
    <3>3. odd' = {} => Snapped' /\ Owing'
      <4>1. SUFFICES ASSUME odd = {} PROVE Snapped' /\ Owing'
        BY <2>2
      <4>2. Snapped /\ Owing
        BY <1>1, <2>3, <4>1, RestHere
      <4>. QED
        BY <1>1, <3>1, <4>2, ShrinkKeeps
    <3>. QED
      BY <1>1, <3>2, <3>3, RestThen
  <2>4. CASE Top.k \in {"blur", "focus"} \/ (Top.k = "change" /\ Top.n \notin Ranges)
    <3>1. todo' = Tail(todo)
      <4>1. After(Top, v) = <<>>
        BY <1>1, <2>4, AfterFacts
      <4>. QED
        BY <1>1, <2>1, <4>1, ConcatEmptySeq
    <3>2. Tail(todo) # <<>> /\ Mate(Head(todo), Head(Tail(todo)))
      <4>1. Needs(Head(todo))
        BY <2>4 DEF Needs, Top
      <4>. QED
        BY <1>1, <4>1, TailShape
    <3>3. "nested" \notin odd' => FocusForm(todo')
      BY <1>1, <2>2, <2>4, <3>1, MovingHere
    <3>4. CASE Top.k = "blur"
      <4>1. Head(todo').k = "blurred" /\ AtRest(todo')
        BY <3>1, <3>2, <3>4 DEF Mate, Top, AtRest
      <4>2. owed' = owed
        BY <2>1, <3>4 DEF Told
      <4>3. "nested" \notin odd' => Shown'
        BY <1>1, <2>2, <3>4, MovingHere, ShrinkKeeps
      <4>4. odd' = {} => Snapped' /\ Owing'
        <5>1. odd' = {} => Snapped /\ Owing
          BY <1>1, <2>2, <3>4, MovingHere
        <5>. QED
          BY <1>1, <4>2, <5>1, ShrinkKeeps
      <4>. QED
        BY <3>3, <4>1, <4>3, <4>4, LeavingThen
    <3>5. CASE Top.k = "focus"
      <4>1. Head(todo').k = "focused" /\ Head(todo').n = Top.n /\ ~AtRest(todo')
        BY <3>1, <3>2, <3>5 DEF Mate, Top, AtRest
      <4>2. "nested" \notin odd' => Dark' /\ focus = Top.n
        BY <1>1, <2>2, <3>5, MovingHere, ShrinkKeeps
      <4>3. odd' = {} => owed' \cap live' \subseteq {}
        <5>1. odd' = {} => owed \cap live = {}
          BY <1>1, <2>2, <3>5, MovingHere
        <5>. QED
          BY <1>1, <2>2, <5>1 DEF Shrinks
      <4>4. Head(todo').n \in live' /\ focus = Top.n => focus' = Head(todo').n
        BY <1>1, <4>1 DEF Shrinks
      <4>. QED
        BY <1>1, <3>1, <3>2, <3>3, <4>1, <4>2, <4>3, <4>4, MovingThen
    <3>6. CASE Top.k = "change" /\ Top.n \notin Ranges
      <4>1. Head(todo').k = "unsnap" /\ ~AtRest(todo')
        BY <3>1, <3>2, <3>6 DEF Mate, Top, AtRest
      <4>2. "nested" \notin odd' => Dark'
        BY <1>1, <2>2, <3>6, MovingHere, ShrinkKeeps
      <4>3. odd' = {} => owed' \cap live' \subseteq {}
        <5>1. odd' = {} => owed \cap live \subseteq {Top.n}
          BY <1>1, <2>2, <3>6, MovingHere
        <5>2. owed' = owed \ {Top.n}
          BY <2>1, <3>6 DEF Told
        <5>. QED
          BY <1>1, <5>1, <5>2 DEF Shrinks
      <4>. QED
        BY <1>1, <3>1, <3>2, <3>3, <4>1, <4>2, <4>3, MovingThen
    <3>. QED
      BY <2>4, <3>4, <3>5, <3>6
  <2>5. Still \/ Top.k \in {"blur", "focus"} \/ (Top.k = "change" /\ Top.n \notin Ranges)
    BY <1>1 DEF Still, Events
  <2>. QED
    BY <2>3, <2>4, <2>5
<1>. QED
  BY <1>4, <1>5

\* Scripts between two inputs.
LEMMA FocusTask ==
    ASSUME SoundInv, FocusInv, DomNext, Task
    PROVE  FocusInv'
<1>1. ~lost /\ todo = <<>> /\ Shape(todo') /\ NoPiece(todo') /\ Shrinks /\ owed' = owed
  BY NotLost, TaskList, ShrinkFacts DEF Task
<1>2. Still
  BY <1>1 DEF Still
<1>3. "nested" \notin odd' => Shown'
  <2>1. "nested" \notin odd' => "nested" \notin odd
    BY <1>1 DEF Shrinks
  <2>. QED
    BY <1>1, <1>2, <2>1, RestHere, ShrinkKeeps
<1>4. odd' = {} => Snapped' /\ Owing'
  <2>1. odd' = {} => odd = {}
    BY <1>1 DEF Shrinks
  <2>2. odd = {} => Snapped /\ Owing
    BY <1>1, <1>2, RestHere
  <2>. QED
    BY <1>1, <2>1, <2>2, ShrinkKeeps
<1>. QED
  BY <1>1, <1>3, <1>4, RestThen

\* The focus is preserved by every step.
LEMMA FocusStep ==
    ASSUME SoundInv, FocusInv, [DomNext]_domVars
    PROVE  FocusInv'
<1>1. CASE UNCHANGED domVars
  <2>1. UNCHANGED <<todo, focus, flag, live, owed, odd, val, snap, lost>>
    BY <1>1 DEF domVars, kept, control, history
  <2>. QED
    BY <2>1 DEF FocusInv, ShownInv, EditInv, AtRest, Shown, Dark, Snapped, Owing, FocusForm, Clear, Lead, FocusPieces
<1>2. CASE DomNext
  <2>1. CASE User
    BY <2>1, FocusInputs
  <2>2. CASE Task
    BY <1>2, <2>2, FocusTask
  <2>3. CASE Dispatch \/ DispatchFocuses \/ DispatchDestroys
    BY <1>2, <2>3, FocusFires
  <2>4. CASE ReadsDestroyed
    BY <2>4 DEF ReadsDestroyed, FocusInv, ShownInv, EditInv
  <2>5. CASE \/ Hover \/ HoverSet \/ Touch \/ Clicked \/ Unclick \/ Unpress \/ Suppress \/ DndMove
             \/ Released \/ RangeEnd \/ Tab \/ Pressed \/ DndStarted \/ DndReset \/ DndAnswer
             \/ DndBegin \/ DndHit \/ DndOver \/ DndDrop \/ DragEnd
    BY <1>2, <2>5, FocusSame
  <2>6. CASE RangeFollows \/ Default \/ RangeDone \/ Edit
    BY <1>2, <2>6, FocusValues
  <2>7. CASE Call
    BY <1>2, <2>7, FocusCalled
  <2>8. CASE Blurred
    BY <1>2, <2>8, FocusBlurred
  <2>9. CASE Unsnap \/ FocusSet \/ Focused
    BY <1>2, <2>9, FocusLands
  <2>. QED
    BY <1>2, <2>1, <2>2, <2>3, <2>4, <2>5, <2>6, <2>7, <2>8, <2>9 DEF DomNext, Pointer, Button, Focusing
<1>. QED
  BY <1>1, <1>2

\* Focus and edits end up as the page was told: between inputs the focused node, unless it was
\* destroyed, is the one with the :focus state unless focus calls were nested, and a text the user
\* edited had its change event by the time it lost the focus unless they were or a range drag shared
\* its snapshot.
THEOREM FocusKeepsProtocol == DomSpec => []FocusProtocol
<1>1. DomInit => SoundInv /\ FocusInv
  <2>1. SUFFICES ASSUME DomInit PROVE SoundInv /\ FocusInv
    OBVIOUS
  <2>2. /\ todo = <<>> /\ flag = {} /\ focus = NoNode /\ owed = {}
    BY <2>1 DEF DomInit
  <2>3. FocusForm(todo)
    BY <2>2, EmptyShape, NoPieceForm
  <2>4. Shown /\ Snapped /\ Owing
    <3>1. NoNode \notin Text
      BY Tree, Controls
    <3>. QED
      BY <2>1, <2>2, <3>1, Tree DEF Shown, Snapped, Owing, DomInit
  <2>5. AtRest(todo)
    BY <2>2 DEF AtRest
  <2>. QED
    BY <2>1, <2>2, <2>3, <2>4, <2>5, SoundStart DEF FocusInv, ShownInv, EditInv
<1>2. SoundInv /\ FocusInv /\ [DomNext]_domVars => (SoundInv /\ FocusInv)'
  BY SoundStep, FocusStep
<1>3. SoundInv /\ FocusInv => FocusProtocol
  <2>1. SUFFICES ASSUME SoundInv, FocusInv PROVE FocusProtocol
    OBVIOUS
  <2>2. Idle => AtRest(todo) /\ ~lost
    BY DEF Idle, AtRest
  <2>. QED
    BY <2>1, <2>2 DEF FocusInv, ShownInv, EditInv, FocusProtocol, FocusIsShown, EditsAreReported, Shown, Owing
<1>. QED
  BY <1>1, <1>2, <1>3, PTL DEF DomSpec
=============================================================================
