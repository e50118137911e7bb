------------------------------ MODULE HostProofs ------------------------------
(***************************************************************************)
(* Proofs about the host's run loop with its windows (AppWindows) and the  *)
(* DevTools server that it polls (CdpServer).                              *)
(*                                                                         *)
(* AppWindows, for any number of windows and any set of stages of window   *)
(* creation that may fail.  WindowInv is the inductive invariant:          *)
(* Lifetimes is not inductive, because whether the last reference is       *)
(* dropped is decided by the counter, so the counter has to be tied to the *)
(* two holders (Counted), and a fresh id has to be unused (Fresh).         *)
(*                                                                         *)
(* CdpServer, for any number of slots and clients, whatever they send: see *)
(* the second part of the module.                                          *)
(***************************************************************************)
EXTENDS AppWindows, CdpServer, SeqFacts, FiniteSetTheorems, WellFoundedInduction, TLAPS

Holders(w) == (IF w \in listed THEN 1 ELSE 0) + (IF w \in wrapper THEN 1 ELSE 0)

\* The counter of a window is the number of its holders.
Counted == \A w \in Secondary : ref[w] = Holders(w)

\* An id that was not handed out is not used.
Fresh == \A w \in Secondary : w >= nextId => w \notin listed \cup wrapper \cup freed

\* The loops over the secondaries are at a window that is in the list.
AtListed == pc \in SecondaryPhases => idx \in listed \cap Secondary

\* Wrappers outlive the main bridge only together with a closure.
ClosureLeft ==
    pc \in {"dropList", "done"} /\ wrapper # {} =>
        outside \/ \E w \in Created : listeners[w] # "none"

EmptyAtEnd == pc = "done" => listed = {}

WindowInv ==
    /\ TypeOK /\ Counted /\ Fresh /\ Lifetimes
    /\ AtListed /\ ClosureLeft /\ EmptyAtEnd
    /\ SecondaryRendersItself

\* The smallest member of a set of naturals is a member.
LEMMA MinIsMember ==
    ASSUME NEW S, S \subseteq Nat, S # {}
    PROVE  Min(S) \in S
<1>1. PICK x \in S : \A y \in S : <<y, x>> \notin OpToRel(<, Nat)
  BY WFMin, NatLessThanWellFounded, Zenon
<1>2. \A y \in S : ~ (y < x)
  BY <1>1, Zenon DEF OpToRel
<1>3. \A y \in S : x =< y
  BY <1>2, SMT
<1> QED
  BY <1>3 DEF Min

\* The ids of the windows.
LEMMA ConstantFacts ==
    /\ MaxWindows \in Nat
    /\ Secondary = 1 .. MaxWindows /\ Secondary \subseteq Nat \ {0}
    /\ Primary = 0 /\ Primary \notin Secondary
BY WindowsAssumption DEF Secondary, Primary

-----------------------------------------------------------------------------
(* The initial state.                                                       *)

\* mini_app_create starts in the invariant.
LEMMA InitInv == Init => WindowInv
<1> SUFFICES ASSUME Init PROVE WindowInv
  OBVIOUS
<1> USE ConstantFacts DEF Init
<1>1. TypeOK
  <2>1. pc \in Phases /\ nextId \in 1 .. MaxWindows + 1
    BY DEF Phases, MainPhases
  <2>2. ref \in [Secondary -> 0 .. 2] /\ listeners \in [Secondary -> Tables]
    BY DEF Tables
  <2> QED
    BY <2>1, <2>2 DEF TypeOK
<1>2. Counted /\ Fresh
  BY DEF Counted, Holders, Fresh
<1>3. Lifetimes
  BY DEF Lifetimes, Created
<1>4. AtListed /\ ClosureLeft /\ EmptyAtEnd /\ SecondaryRendersItself
  BY DEF AtListed, ClosureLeft, EmptyAtEnd, SecondaryRendersItself,
         SecondaryPhases
<1> QED
  BY <1>1, <1>2, <1>3, <1>4 DEF WindowInv

-----------------------------------------------------------------------------
(* Steps that leave the windows' lifetimes alone.                           *)

\* What such a step leaves to be shown.
LEMMA LifetimeFrame ==
    ASSUME WindowInv, UNCHANGED lifetime, TypeOK', AtListed',
           SecondaryRendersItself',
           pc' \in {"dropList", "done"} => pc' = pc
    PROVE  WindowInv'
BY DEF WindowInv, lifetime, Counted, Holders, Fresh, Lifetimes, Created,
       ClosureLeft, EmptyAtEnd

\* The loops over the secondaries visit members of the list.
LEMMA WalkFacts ==
    ASSUME NEW ws, ws \subseteq {Primary} \cup Secondary,
           NEW i \in {0} \cup Secondary, NEW phase, NEW after,
           Walk(ws, i, phase, after)
    PROVE  LET rest == {w \in ws : w > i} IN
           \/ rest = {} /\ pc' = after /\ idx' = 0
           \/ /\ rest # {} /\ pc' = phase /\ idx' = Min(rest)
              /\ Min(rest) \in ws \cap Secondary
<1> DEFINE rest == {w \in ws : w > i}
<1>1. CASE rest = {}
  BY <1>1 DEF Walk
<1>2. CASE rest # {}
  <2>1. \A w \in ws : w > i => w \in Nat /\ w \in Secondary
    BY ConstantFacts
  <2>2. Min(rest) \in rest
    <3>1. rest \subseteq Nat
      BY <2>1
    <3> QED
      BY <1>2, <3>1, MinIsMember
  <2> QED
    BY <1>2, <2>1, <2>2 DEF Walk
<1> QED
  BY <1>1, <1>2

\* A step from one phase to the next.
LEMMA GotoInv ==
    ASSUME WindowInv, NEW from, NEW to, Goto(from, to),
           to \in Phases \ {"secRender", "dropList", "done"},
           to \in SecondaryPhases => from \in SecondaryPhases,
           activeDoc' \in {activeDoc, Primary, idx},
           activeBridge' \in {activeBridge, Primary, idx}
    PROVE  WindowInv'
<1>1. TypeOK'
  BY ConstantFacts DEF WindowInv, Goto, TypeOK, lifetime
<1>2. AtListed' /\ SecondaryRendersItself'
  BY DEF WindowInv, Goto, AtListed, SecondaryRendersItself, lifetime
<1> QED
  BY <1>1, <1>2, LifetimeFrame DEF Goto

\* The phases of the loop that only move on.
LEMMA PhaseSteps ==
    ASSUME WindowInv,
           \/ Loaded \/ LoopHead \/ PollDone \/ PumpDone \/ IpcDone
           \/ SecPumpDone \/ Gate \/ RafDone \/ QuitDone
    PROVE  WindowInv'
BY GotoInv DEF Loaded, LoopHead, PollDone, PumpDone, IpcDone, SecPumpDone,
               Gate, RafDone, QuitDone, active, Phases, MainPhases,
               SecondaryPhases

\* Scripts and input that touch flags only.
LEMMA FlagSteps ==
    ASSUME WindowInv,
           \/ AppQuit \/ UserCloses \/ NetEvents
           \/ \E w \in wrapper : CloseWindow(w)
           \/ \E w \in listed : Touch(w) \/ Input(w)
    PROVE  WindowInv'
<1>1. UNCHANGED <<pc, idx, lifetime, activeDoc>>
  BY DEF AppQuit, UserCloses, NetEvents, CloseWindow, Touch, Input, lifetime,
         active
<1>2. pc # "secRender" => activeBridge' \in {activeBridge, Primary}
  BY DEF AppQuit, UserCloses, NetEvents, CloseWindow, Touch, Input, active
<1>3. pc = "secRender" => activeBridge' = activeBridge
  BY DEF AppQuit, UserCloses, NetEvents, CloseWindow, Touch, Input, active
<1>4. closing' \subseteq {Primary} \cup Secondary /\ shouldClose' \in BOOLEAN
  BY DEF AppQuit, UserCloses, NetEvents, CloseWindow, Touch, Input, WindowInv,
         TypeOK, lifetime
<1>5. dirty' \subseteq {Primary} \cup Secondary
  BY DEF AppQuit, UserCloses, NetEvents, CloseWindow, Touch, Input, WindowInv,
         TypeOK
<1>6. TypeOK'
  BY <1>1, <1>2, <1>3, <1>4, <1>5 DEF WindowInv, TypeOK, lifetime
<1>7. AtListed' /\ SecondaryRendersItself'
  BY <1>1, <1>3 DEF WindowInv, AtListed, SecondaryRendersItself, lifetime
<1> QED
  BY <1>1, <1>6, <1>7, LifetimeFrame

\* The freed bridge is read.
LEMMA UseFreedBridgeInv ==
    ASSUME WindowInv, UseFreedBridge
    PROVE  WindowInv'
<1>1. TypeOK'
  BY DEF WindowInv, UseFreedBridge, TypeOK, lifetime, active, Phases
<1>2. AtListed' /\ SecondaryRendersItself'
  BY DEF UseFreedBridge, AtListed, SecondaryRendersItself, SecondaryPhases
<1> QED
  BY <1>1, <1>2, LifetimeFrame DEF UseFreedBridge

\* The loops that pump and drain the secondaries.
LEMMA PumpLoopSteps ==
    ASSUME WindowInv, NetDone \/ SecIpcDone
    PROVE  WindowInv'
<1>1. /\ listed \subseteq {Primary} \cup Secondary /\ 0 \in {0} \cup Secondary
      /\ idx \in {0} \cup Secondary
  BY DEF WindowInv, TypeOK
<1>2. PICK i \in {0, idx} : Walk(listed, i, "secPump", "gate")
  BY DEF NetDone, SecIpcDone
<1>3. UNCHANGED <<lifetime, closing, shouldClose, dirty, active>>
  BY DEF NetDone, SecIpcDone
<1>4. \/ pc' = "gate" /\ idx' = 0
      \/ pc' = "secPump" /\ idx' \in listed \cap Secondary
  BY <1>1, <1>2, WalkFacts
<1>5. TypeOK'
  BY <1>3, <1>4 DEF WindowInv, TypeOK, lifetime, active, Phases, SecondaryPhases
<1>6. AtListed' /\ SecondaryRendersItself'
  BY <1>3, <1>4 DEF AtListed, SecondaryRendersItself, lifetime, SecondaryPhases
<1> QED
  BY <1>3, <1>4, <1>5, <1>6, LifetimeFrame

\* The loop that renders the secondaries: the pointers move with the index.
LEMMA RenderLoopSteps ==
    ASSUME WindowInv, EndFrame \/ RenderDone
    PROVE  WindowInv'
<1> DEFINE open == listed \ closing
<1>1. /\ open \subseteq {Primary} \cup Secondary /\ 0 \in {0} \cup Secondary
      /\ idx \in {0} \cup Secondary
  BY DEF WindowInv, TypeOK
<1>2. PICK i \in {0, idx} : Walk(open, i, "secRender", "sweep") /\ EnterRender(i)
  BY DEF EndFrame, RenderDone
<1>3. /\ UNCHANGED <<lifetime, closing, shouldClose>>
      /\ dirty' \subseteq {Primary} \cup Secondary
  BY DEF EndFrame, RenderDone, WindowInv, TypeOK
<1>4. \/ pc' = "sweep" /\ idx' = 0 /\ activeDoc' = Primary /\ activeBridge' = Primary
      \/ /\ pc' = "secRender" /\ idx' \in listed \cap Secondary
         /\ activeDoc' = idx' /\ activeBridge' = idx'
  <2> DEFINE rest == {w \in open : w > i}
  <2>1. \/ rest = {} /\ pc' = "sweep" /\ idx' = 0
        \/ /\ rest # {} /\ pc' = "secRender" /\ idx' = Min(rest)
           /\ Min(rest) \in open \cap Secondary
    <3> HIDE DEF open
    <3> QED
      BY <1>1, <1>2, WalkFacts
  <2>2. IF rest = {} THEN activeDoc' = Primary /\ activeBridge' = Primary
        ELSE activeDoc' = Min(rest) /\ activeBridge' = Min(rest)
    BY <1>2 DEF EnterRender
  <2>3. open \cap Secondary \subseteq listed \cap Secondary
    OBVIOUS
  <2> HIDE DEF rest, open
  <2> QED
    BY <2>1, <2>2, <2>3
<1>5. TypeOK'
  BY <1>3, <1>4 DEF WindowInv, TypeOK, lifetime, Phases, SecondaryPhases
<1>6. AtListed'
  BY <1>3, <1>4 DEF AtListed, lifetime, SecondaryPhases
<1>7. \A w \in listed \cap Secondary : w \notin freed
  <2> TAKE w \in listed \cap Secondary
  <2>1. w \in Created
    BY ConstantFacts DEF WindowInv, Fresh, Created, TypeOK
  <2> QED
    BY <2>1 DEF WindowInv, Lifetimes
<1>8. SecondaryRendersItself'
  BY <1>3, <1>4, <1>7 DEF SecondaryRendersItself, lifetime
<1> QED
  BY <1>3, <1>4, <1>5, <1>6, <1>8, LifetimeFrame

-----------------------------------------------------------------------------
(* Steps that create, release or destroy windows.                           *)

\* A BrowserWindow is created.
LEMMA NewWindowInv ==
    ASSUME WindowInv, NewWindow
    PROVE  WindowInv'
<1> USE ConstantFacts DEF NewWindow, WindowInv
<1>1. pc \in MainPhases /\ pc' = pc /\ nextId \in Secondary
  BY DEF MainRuns
<1>2. nextId \notin listed \cup wrapper \cup freed
  BY <1>1 DEF Fresh
<1>3. TypeOK'
  BY DEF TypeOK
<1>4. Counted'
  BY <1>1, <1>2 DEF Counted, Holders, TypeOK
<1>5. Fresh'
  BY <1>1 DEF Fresh
<1>6. Lifetimes'
  BY <1>1, <1>2 DEF Lifetimes, Created
<1>7. AtListed' /\ ClosureLeft' /\ EmptyAtEnd' /\ SecondaryRendersItself'
  BY <1>1 DEF AtListed, ClosureLeft, EmptyAtEnd, SecondaryRendersItself,
              MainPhases, SecondaryPhases
<1> QED
  BY <1>3, <1>4, <1>5, <1>6, <1>7

\* Creation fails after any of its stages.
LEMMA NewWindowFailsInv ==
    ASSUME WindowInv, NEW stage \in FailAt, NewWindowFails(stage)
    PROVE  WindowInv'
<1> USE ConstantFacts DEF NewWindowFails, WindowInv
<1>1. pc \in MainPhases /\ pc' = pc /\ UNCHANGED <<listed, ref, wrapper, listeners>>
  BY DEF MainRuns
<1>2. \/ nextId' = nextId /\ freed' = freed
      \/ nextId \in Secondary /\ nextId' = nextId + 1 /\ freed' = freed \cup {nextId}
  OBVIOUS
<1>3. TypeOK'
  BY <1>1, <1>2 DEF TypeOK
<1>4. Counted'
  BY <1>1 DEF Counted, Holders
<1>5. Fresh'
  BY <1>1, <1>2 DEF Fresh
<1>6. Lifetimes'
  BY <1>1, <1>2 DEF Lifetimes, Created, Fresh
<1>7. AtListed' /\ ClosureLeft' /\ EmptyAtEnd' /\ SecondaryRendersItself'
  BY <1>1 DEF AtListed, ClosureLeft, EmptyAtEnd, SecondaryRendersItself,
              MainPhases, SecondaryPhases
<1> QED
  BY <1>3, <1>4, <1>5, <1>6, <1>7

\* Listeners are added and removed.
LEMMA ListenerSteps ==
    ASSUME WindowInv, NEW w \in wrapper, AddListener(w) \/ RemoveListeners(w)
    PROVE  WindowInv'
<1> USE DEF AddListener, RemoveListeners, WindowInv
<1>1. /\ pc \in MainPhases
      /\ UNCHANGED <<pc, idx, nextId, listed, ref, wrapper, freed, closing,
                     shouldClose, dirty, activeDoc, activeBridge, outside>>
  BY DEF MainRuns, active
<1>2. listeners' \in [Secondary -> Tables]
  BY DEF TypeOK, Tables
<1>3. TypeOK'
  BY <1>1, <1>2 DEF TypeOK
<1>4. Counted' /\ Fresh' /\ Lifetimes'
  BY <1>1 DEF Counted, Holders, Fresh, Lifetimes, Created
<1>5. AtListed' /\ ClosureLeft' /\ EmptyAtEnd' /\ SecondaryRendersItself'
  BY <1>1 DEF AtListed, ClosureLeft, EmptyAtEnd, SecondaryRendersItself,
              MainPhases, SecondaryPhases
<1> QED
  BY <1>3, <1>4, <1>5

\* ActiveAfterFree keeps the active pointers typed.
LEMMA ActiveTyped ==
    ASSUME TypeOK, NEW ws, ActiveAfterFree(ws)
    PROVE  /\ activeDoc' \in {Nil, Dangling, Primary} \cup Secondary
           /\ activeBridge' \in {Nil, Dangling, Primary} \cup Secondary
BY DEF TypeOK, ActiveAfterFree

\* A window is freed together with its last reference.
LEMMA FinalizeInv ==
    ASSUME WindowInv, NEW w \in wrapper, Finalize(w)
    PROVE  WindowInv'
<1> DEFINE dead == {v \in {w} : ref[v] - 1 <= 0}
<1> USE ConstantFacts DEF WindowInv
<1>1. /\ pc \in MainPhases /\ pc' = pc /\ w \in Secondary
      /\ wrapper' = wrapper \ {w} /\ ref' = [ref EXCEPT ![w] = @ - 1]
      /\ listeners' = [listeners EXCEPT ![w] = "none"]
      /\ freed' = freed \cup dead /\ listed' = listed \ dead
      /\ ActiveAfterFree(dead)
      /\ UNCHANGED <<idx, nextId, closing, shouldClose, dirty, outside>>
  BY DEF Finalize, MainRuns, TypeOK
<1>2. ref[w] = IF w \in listed THEN 2 ELSE 1
  BY <1>1 DEF Counted, Holders
<1>3. dead = IF w \in listed THEN {} ELSE {w}
  BY <1>2
<1> HIDE DEF dead
<1>4. listed' = listed
  BY <1>1, <1>3
<1>5. TypeOK'
  <2>1. ref' \in [Secondary -> 0 .. 2] /\ listeners' \in [Secondary -> Tables]
    BY <1>1, <1>2 DEF TypeOK, Tables
  <2> QED
    BY <1>1, <1>3, <1>4, <2>1, ActiveTyped DEF TypeOK
<1>6. Counted'
  BY SMTT(30), <1>1, <1>2, <1>4 DEF Counted, Holders, TypeOK
<1>7. Fresh'
  BY <1>1, <1>3, <1>4 DEF Fresh
<1>8. Lifetimes'
  BY <1>1, <1>3, <1>4 DEF Lifetimes, Created
<1>9. AtListed' /\ ClosureLeft' /\ EmptyAtEnd' /\ SecondaryRendersItself'
  BY <1>1 DEF AtListed, ClosureLeft, EmptyAtEnd, SecondaryRendersItself,
              MainPhases, SecondaryPhases
<1> QED
  BY <1>5, <1>6, <1>7, <1>8, <1>9

\* mini_window_sweep_closed drops the list's references.
LEMMA SweepInv ==
    ASSUME WindowInv, Sweep
    PROVE  WindowInv'
<1> DEFINE kill == (listed \cap closing) \ {Primary}
           dead == {w \in kill : ref[w] - 1 <= 0}
<1> USE ConstantFacts DEF WindowInv
<1>1. /\ pc' = "head" /\ listed' = listed \ kill
      /\ ref' = [w \in Secondary |-> IF w \in kill THEN ref[w] - 1 ELSE ref[w]]
      /\ freed' = freed \cup dead /\ ActiveAfterFree(dead)
      /\ dirty' \subseteq {Primary} \cup Secondary
      /\ UNCHANGED <<idx, nextId, wrapper, listeners, closing, shouldClose, outside>>
  BY DEF Sweep, TypeOK
<1>2. kill \subseteq Secondary /\ kill \subseteq listed
  BY DEF TypeOK
<1>3. \A w \in Secondary : ref[w] = Holders(w) /\ ref[w] \in 0 .. 2
  BY DEF Counted, TypeOK
<1>4. dead = kill \ wrapper
  BY <1>2, <1>3 DEF Holders
<1> HIDE DEF kill, dead
<1>5. TypeOK'
  <2>1. ref' \in [Secondary -> 0 .. 2]
    BY <1>1, <1>2, <1>3 DEF Holders
  <2> QED
    BY <1>1, <1>2, <1>4, <2>1, ActiveTyped DEF TypeOK, Phases
<1>6. Counted'
  BY <1>1, <1>2, <1>3 DEF Counted, Holders
<1>7. Fresh'
  BY <1>1, <1>2, <1>4 DEF Fresh
<1>8. Lifetimes'
  BY <1>1, <1>2, <1>4 DEF Lifetimes, Created
<1>9. AtListed' /\ ClosureLeft' /\ EmptyAtEnd' /\ SecondaryRendersItself'
  BY <1>1 DEF AtListed, ClosureLeft, EmptyAtEnd, SecondaryRendersItself,
              SecondaryPhases
<1> QED
  BY <1>5, <1>6, <1>7, <1>8, <1>9

\* mini_app_destroy frees the main bridge and the wrappers that nothing keeps.
LEMMA DestroyMainBridgeInv ==
    ASSUME WindowInv, DestroyMainBridge
    PROVE  WindowInv'
<1> DEFINE tables == [w \in Secondary |-> IF w \in listed THEN "none" ELSE listeners[w]]
<1> USE ConstantFacts DEF WindowInv
<1>1. PICK kept \in SUBSET wrapper :
        /\ kept # {} => outside' \/ \E w \in wrapper : tables[w] # "none"
        /\ wrapper' = kept
        /\ ref' = [w \in Secondary |->
                    IF w \in wrapper \ kept THEN ref[w] - 1 ELSE ref[w]]
        /\ freed' = freed \cup {w \in wrapper \ kept : ref[w] - 1 <= 0}
        /\ listed' = listed \ {w \in wrapper \ kept : ref[w] - 1 <= 0}
        /\ ActiveAfterFree({w \in wrapper \ kept : ref[w] - 1 <= 0} \cup {Primary})
  BY DEF DestroyMainBridge
<1>2. /\ pc' = "dropList" /\ listeners' = tables /\ outside' \in BOOLEAN
      /\ UNCHANGED <<idx, nextId, closing, shouldClose, dirty>>
  BY DEF DestroyMainBridge
<1> DEFINE fin == wrapper \ kept
           dead == {w \in fin : ref[w] - 1 <= 0}
<1>3. fin \subseteq Secondary /\ wrapper' = wrapper \ fin /\ fin \subseteq wrapper
  BY <1>1 DEF TypeOK
<1>4. \A w \in Secondary : ref[w] = Holders(w) /\ ref[w] \in 0 .. 2
  BY DEF Counted, TypeOK
<1>5. dead = fin \ listed
  BY <1>3, <1>4 DEF Holders
<1>6. /\ ref' = [w \in Secondary |-> IF w \in fin THEN ref[w] - 1 ELSE ref[w]]
      /\ freed' = freed \cup dead /\ listed' = listed \ dead
      /\ ActiveAfterFree(dead \cup {Primary})
  BY <1>1
<1>7. tables \in [Secondary -> Tables]
  BY DEF TypeOK, Tables
<1>8. ClosureLeft'
  <2>1. \A w \in wrapper : w \in Created
    BY DEF Fresh, Created, TypeOK
  <2>2. Created' = Created
    BY <1>2 DEF Created
  <2> HIDE DEF tables
  <2> QED
    BY <1>1, <1>2, <2>1, <2>2 DEF ClosureLeft
<1> HIDE DEF tables, fin, dead
<1>9. listed' = listed
  BY <1>5, <1>6
<1>10. TypeOK'
  <2>1. ref' \in [Secondary -> 0 .. 2]
    BY SMTT(30), <1>3, <1>4, <1>6 DEF Holders
  <2>2. listeners' \in [Secondary -> Tables]
    BY <1>2, <1>7
  <2> QED
    BY <1>2, <1>3, <1>5, <1>6, <1>9, <2>1, <2>2, ActiveTyped DEF TypeOK, Phases
<1>11. Counted'
  BY <1>3, <1>4, <1>6, <1>9 DEF Counted, Holders
<1>12. Fresh'
  BY <1>2, <1>3, <1>5, <1>6, <1>9 DEF Fresh
<1>13. Lifetimes'
  BY <1>2, <1>3, <1>5, <1>6, <1>9 DEF Lifetimes, Created
<1>14. AtListed' /\ EmptyAtEnd' /\ SecondaryRendersItself'
  BY <1>2 DEF AtListed, EmptyAtEnd, SecondaryRendersItself, SecondaryPhases
<1> QED
  BY <1>8, <1>10, <1>11, <1>12, <1>13, <1>14

\* mini_app_destroy drops what the list still holds.
LEMMA DropListInv ==
    ASSUME WindowInv, DropList
    PROVE  WindowInv'
<1> DEFINE dead == {w \in listed \ {Primary} : ref[w] - 1 <= 0}
<1> USE ConstantFacts DEF WindowInv
<1>1. /\ pc = "dropList" /\ pc' = "done" /\ listed' = {}
      /\ ref' = [w \in Secondary |-> IF w \in listed THEN ref[w] - 1 ELSE ref[w]]
      /\ freed' = freed \cup dead /\ ActiveAfterFree(dead)
      /\ UNCHANGED <<idx, nextId, wrapper, listeners, closing, shouldClose, dirty,
                     outside>>
  BY DEF DropList
<1>2. \A w \in listed \ {Primary} : w \in Secondary
  BY DEF TypeOK
<1>3. \A w \in Secondary : ref[w] = Holders(w) /\ ref[w] \in 0 .. 2
  BY DEF Counted, TypeOK
<1>4. dead = (listed \ {Primary}) \ wrapper
  BY <1>2, <1>3 DEF Holders
<1> HIDE DEF dead
<1>5. TypeOK'
  <2>1. ref' \in [Secondary -> 0 .. 2]
    BY <1>1, <1>3 DEF Holders
  <2> QED
    BY <1>1, <1>2, <1>4, <2>1, ActiveTyped DEF TypeOK, Phases
<1>6. Counted'
  BY <1>1, <1>3 DEF Counted, Holders
<1>7. Fresh'
  BY <1>1, <1>4 DEF Fresh
<1>8. Lifetimes'
  BY <1>1, <1>4 DEF Lifetimes, Created
<1>9. AtListed' /\ ClosureLeft' /\ EmptyAtEnd' /\ SecondaryRendersItself'
  BY <1>1 DEF AtListed, ClosureLeft, EmptyAtEnd, SecondaryRendersItself,
              SecondaryPhases, Created
<1> QED
  BY <1>5, <1>6, <1>7, <1>8, <1>9

-----------------------------------------------------------------------------
(* The invariant and what follows from it.                                  *)

\* Every step keeps the invariant.
LEMMA StepInv == WindowInv /\ [Next]_vars => WindowInv'
<1> SUFFICES ASSUME WindowInv, [Next]_vars PROVE WindowInv'
  OBVIOUS
<1>1. CASE NewWindow
  BY <1>1, NewWindowInv
<1>2. CASE \E stage \in FailAt : NewWindowFails(stage)
  BY <1>2, NewWindowFailsInv
<1>3. CASE \E w \in wrapper : AddListener(w) \/ RemoveListeners(w)
  BY <1>3, ListenerSteps
<1>4. CASE \E w \in wrapper : Finalize(w)
  BY <1>4, FinalizeInv
<1>5. CASE \/ AppQuit \/ UserCloses \/ NetEvents
           \/ \E w \in wrapper : CloseWindow(w)
           \/ \E w \in listed : Touch(w) \/ Input(w)
  BY <1>5, FlagSteps
<1>6. CASE \/ Loaded \/ LoopHead \/ PollDone \/ PumpDone \/ IpcDone
           \/ SecPumpDone \/ Gate \/ RafDone \/ QuitDone
  BY <1>6, PhaseSteps
<1>7. CASE NetDone \/ SecIpcDone
  BY <1>7, PumpLoopSteps
<1>8. CASE EndFrame \/ RenderDone
  BY <1>8, RenderLoopSteps
<1>9. CASE Sweep
  BY <1>9, SweepInv
<1>10. CASE DestroyMainBridge
  BY <1>10, DestroyMainBridgeInv
<1>11. CASE DropList
  BY <1>11, DropListInv
<1>12. CASE UseFreedBridge
  BY <1>12, UseFreedBridgeInv
<1>13. CASE UNCHANGED vars
  <2>1. /\ UNCHANGED <<pc, idx, nextId, listed, ref, wrapper, listeners, closing>>
        /\ UNCHANGED <<shouldClose, dirty, freed, activeDoc, activeBridge, outside>>
    BY <1>13 DEF vars
  <2> QED
    BY <2>1 DEF WindowInv, TypeOK, Counted, Holders, Fresh, Lifetimes, Created,
                AtListed, ClosureLeft, EmptyAtEnd, SecondaryRendersItself
<1> QED
  BY <1>1, <1>2, <1>3, <1>4, <1>5, <1>6, <1>7, <1>8, <1>9, <1>10, <1>11, <1>12, <1>13
     DEF Next, Script, MainScript, LoopStep

(* The inductive invariant holds in every reachable state of the run loop   *)
(* and the teardown (main.c, mini_window.c, mini_native.c).                 *)
THEOREM WindowInvariant == Spec => []WindowInv
<1>1. Init => WindowInv
  BY InitInv
<1>2. WindowInv /\ [Next]_vars => WindowInv'
  BY StepInv
<1> QED
  BY <1>1, <1>2, PTL DEF Spec

(* The state of the window manager keeps its types: in particular the       *)
(* reference counter of a window never leaves 0 .. 2, so no sweep,          *)
(* finalizer or teardown drops a reference that is not there.               *)
THEOREM WindowTypes == Spec => []TypeOK
<1>1. WindowInv => TypeOK
  BY DEF WindowInv
<1> QED
  BY <1>1, WindowInvariant, PTL

(* A window is destroyed exactly when neither the list nor a BrowserWindow  *)
(* wrapper holds it (mini_window_sweep_closed, js_bw_finalizer,             *)
(* mini_app_destroy).                                                       *)
THEOREM LifetimesHold == Spec => []Lifetimes
<1>1. WindowInv => Lifetimes
  BY DEF WindowInv
<1> QED
  BY <1>1, WindowInvariant, PTL

(* mini_window_render_frame works on the document and the bridge of the     *)
(* window it draws, which is in the list and not destroyed.                 *)
THEOREM RenderIsOnItself == Spec => []SecondaryRendersItself
<1>1. WindowInv => SecondaryRendersItself
  BY DEF WindowInv
<1> QED
  BY <1>1, WindowInvariant, PTL

(* After mini_app_destroy every window is destroyed, unless a closure that   *)
(* teardown does not free, in the table of a swept window or in a native    *)
(* object of another kind, outlived the main bridge.                        *)
THEOREM TeardownIsComplete == Spec => []TeardownFreesWindows
<1>1. WindowInv => TeardownFreesWindows
  BY DEF WindowInv, TeardownFreesWindows, ClosureLeft, EmptyAtEnd, Lifetimes
<1> QED
  BY <1>1, WindowInvariant, PTL

\* A listed secondary window has not been destroyed.
LEMMA ListedIsLive ==
    ASSUME WindowInv, NEW w \in listed \cap Secondary
    PROVE  w \notin freed
<1>1. w \in Created
  BY ConstantFacts DEF WindowInv, Fresh, Created, TypeOK
<1> QED
  BY <1>1 DEF WindowInv, Lifetimes

\* mini_window_destroy leaves no active pointer behind.
LEMMA FreeingKeepsActive ==
    ASSUME ActiveIsLive, TypeOK', NEW ws, freed' \subseteq freed \cup ws,
           ActiveAfterFree(ws), pc' \in {pc, "head", "dropList", "done"}
    PROVE  ActiveIsLive'
<1>1. Nil \notin freed' /\ Nil # Dangling
  BY ConstantFacts DEF TypeOK, Nil, Dangling
<1> QED
  BY <1>1 DEF ActiveIsLive, ActiveAfterFree

(* g_active_doc and g_active_js_bridge never point at a window that was      *)
(* destroyed, whichever stage of window creation fails and whoever drops    *)
(* the last reference.  The bridge that a failed JS_NewRuntime or           *)
(* JS_NewContext leaves there never meets a secondary's IPC drain, a render *)
(* or the sweep.                                                            *)
THEOREM ActivePointersLive == Spec => []ActiveIsLive
<1>1. Init => ActiveIsLive
  BY DEF Init, ActiveIsLive, Primary, Dangling
<1>2. ActiveIsLive /\ WindowInv /\ [Next]_vars => ActiveIsLive'
  <2> SUFFICES ASSUME ActiveIsLive, WindowInv, [Next]_vars
               PROVE  ActiveIsLive'
    OBVIOUS
  <2> USE DEF ActiveIsLive
  <2>0. /\ Primary \notin freed \cup {Dangling} /\ Nil \notin freed \cup {Dangling}
        /\ Dangling \notin Secondary /\ freed \subseteq Secondary
    BY ConstantFacts DEF WindowInv, TypeOK, Primary, Nil, Dangling
  <2>a. TypeOK'
    BY StepInv DEF WindowInv
  <2>1. CASE NewWindow
    BY <2>0, <2>1 DEF NewWindow, WindowInv, Fresh, TypeOK
  <2>2. CASE \E stage \in FailAt : NewWindowFails(stage)
    <3>1. PICK stage \in FailAt : NewWindowFails(stage)
      BY <2>2
    <3>2. pc' = pc /\ pc \notin {"secIpc", "secRender", "sweep"}
      BY <3>1 DEF NewWindowFails, MainRuns, MainPhases
    <3>3. CASE stage = "wrapper"
      <4>1. freed' \subseteq Secondary
        BY <2>0, <3>1, <3>3 DEF NewWindowFails
      <4>2. activeDoc' = Nil /\ activeBridge' = Nil
        BY <3>1, <3>3 DEF NewWindowFails
      <4> QED
        BY <3>2, <4>1, <4>2, ConstantFacts DEF Nil, Dangling
    <3>4. CASE stage # "wrapper"
      <4>1. freed' = freed /\ activeDoc' \in {activeDoc, Nil}
        BY <3>1, <3>4 DEF NewWindowFails
      <4>2. \/ activeBridge' \in {activeBridge, Nil}
            \/ stage = "runtime" /\ activeBridge' = Dangling
        BY <3>1 DEF NewWindowFails
      <4> QED
        BY <2>0, <3>2, <4>1, <4>2
    <3> QED
      BY <3>3, <3>4
  <2>3. CASE \E w \in wrapper : AddListener(w) \/ RemoveListeners(w)
    BY <2>3 DEF AddListener, RemoveListeners, active
  <2>4. CASE \E w \in wrapper : Finalize(w)
    <3>1. PICK ws : freed' \subseteq freed \cup ws /\ ActiveAfterFree(ws)
      BY <2>4 DEF Finalize
    <3>2. pc' = pc
      BY <2>4 DEF Finalize
    <3> QED
      BY <2>a, <3>1, <3>2, FreeingKeepsActive
  <2>5. CASE \/ AppQuit \/ UserCloses \/ NetEvents
             \/ \E w \in wrapper : CloseWindow(w)
             \/ \E w \in listed : Touch(w) \/ Input(w)
    BY <2>0, <2>5 DEF AppQuit, UserCloses, NetEvents, CloseWindow, Touch, Input,
                      active, lifetime
  <2>6. CASE Loaded \/ LoopHead \/ PollDone \/ PumpDone \/ IpcDone \/ Gate
             \/ RafDone \/ QuitDone
    BY <2>0, <2>6 DEF Loaded, LoopHead, PollDone, PumpDone, IpcDone, Gate,
                      RafDone, QuitDone, Goto, active, lifetime
  <2>7. CASE SecPumpDone
    <3>1. idx \in listed \cap Secondary
      BY <2>7 DEF SecPumpDone, Goto, WindowInv, AtListed, SecondaryPhases
    <3> QED
      BY <2>0, <2>7, <3>1, ListedIsLive DEF SecPumpDone, Goto, lifetime
  <2>8. CASE NetDone \/ SecIpcDone
    BY <2>8 DEF NetDone, SecIpcDone, Walk, active, lifetime
  <2>9. CASE EndFrame \/ RenderDone
    <3>1. WindowInv'
      BY <2>9, RenderLoopSteps
    <3>2. freed' = freed
      BY <2>9 DEF EndFrame, RenderDone, lifetime
    <3>3. \/ activeDoc' = Primary /\ activeBridge' = Primary
          \/ pc' = "secRender"
      BY <2>9 DEF EndFrame, RenderDone, EnterRender, Walk
    <3>4. pc' = "secRender" => activeDoc' \in Secondary /\ activeDoc' \notin freed
                               /\ activeBridge' = activeDoc'
      BY <3>1, <3>2 DEF WindowInv, SecondaryRendersItself, AtListed, SecondaryPhases
    <3> QED
      BY <2>0, <3>2, <3>3, <3>4
  <2>10. CASE Sweep \/ DestroyMainBridge \/ DropList
    <3>1. PICK ws : freed' \subseteq freed \cup ws /\ ActiveAfterFree(ws)
      BY <2>10 DEF Sweep, DestroyMainBridge, DropList
    <3>2. pc' \in {"head", "dropList", "done"}
      BY <2>10 DEF Sweep, DestroyMainBridge, DropList
    <3> QED
      BY <2>a, <3>1, <3>2, FreeingKeepsActive
  <2>11. CASE UseFreedBridge
    BY <2>11 DEF UseFreedBridge, active, lifetime
  <2>12. CASE UNCHANGED vars
    BY <2>12 DEF vars
  <2> QED
    BY <2>1, <2>2, <2>3, <2>4, <2>5, <2>6, <2>7, <2>8, <2>9, <2>10, <2>11, <2>12
       DEF Next, Script, MainScript, LoopStep
<1> QED
  BY <1>1, <1>2, WindowInvariant, PTL DEF Spec

-----------------------------------------------------------------------------
(***************************************************************************)
(* The DevTools server.  CdpInv says where connections, pauses and answers *)
(* may be: it shows that a stopped script goes on only when it was asked   *)
(* to.  StreamInv says that the bytes of every client are a piece of its   *)
(* script, from the item that is decoded next to the last one sent: it     *)
(* shows that messages are dispatched whole and in order.  UniqueInv says  *)
(* that a message was dispatched before it is evaluated or answered, and   *)
(* is only one of the two, once: with StreamInv, by which a dispatched     *)
(* message is new, it shows that nothing is answered twice.                *)
(***************************************************************************)

Client0 == [fd : Conns \cup {NoConn}, upgraded : BOOLEAN, rx : Seq(Items), frag : Seq(Items)]
Pair == [of : Conns, n : Nat]

\* A call in progress: a poll that serves a client is at its slot, and so is a
\* script that a client asked for.
Calls ==
  {f \in [call : {"poll", "script", "pause"}, n : Nat, i : Slots \cup {0},
          at : {"", "serve", "frames", "flush", "asked", "inner"},
          of : Conns \cup {NoConn}] :
     /\ f.call = "poll" => f.at \in {"serve", "frames", "flush"}
     /\ f.call = "poll" /\ f.at # "flush" => f.i \in Slots
     /\ f.call = "script" /\ f.of # NoConn => f.i \in Slots}

CdpTypes ==
  /\ script \in [Conns -> Seq(Items)] /\ sent \in [Conns -> Nat]
  /\ peer \in [Conns -> {"new", "open", "gone"}]
  /\ backlog \in Seq(Conns) /\ wire \in [Conns -> Seq(Items)]
  /\ slot \in [Slots -> Client0] /\ stack \in Seq(Calls)
  /\ paused \in BOOLEAN /\ attached \in BOOLEAN /\ runs \in Nat
  /\ got \in [Conns -> Seq(Seq(Items))] /\ answers \in [Conns -> Seq(Pair)]
  /\ held \subseteq Pair /\ cut \in [Conns -> {"no", "checked", "unchecked"}]
  /\ mixed \subseteq Conns

\* The flag is set only in a pause, and a pause that nobody has ended yet, if no
\* other is inside it, has it set.
PauseOK(stk, flag) ==
  /\ flag => \E p \in 1..Len(stk) : stk[p].call = "pause"
  /\ \A p \in 1..Len(stk) :
       stk[p].call = "pause" /\ stk[p].at = "" /\ (\A q \in 1..p - 1 : stk[q].call # "pause")
         => flag

\* A connection is in one place, and only after it was opened.
PlaceInv ==
  /\ \A i \in Slots : slot[i].fd = NoConn => slot[i] = NoClient
  /\ \A i, j \in Slots : slot[i].fd = slot[j].fd /\ slot[i].fd # NoConn => i = j
  /\ \A p, q \in 1..Len(backlog) : backlog[p] = backlog[q] => p = q
  /\ \A p \in 1..Len(backlog), i \in Slots : slot[i].fd # backlog[p]
  /\ \A i \in Slots : slot[i].fd # NoConn => peer[slot[i].fd] # "new"
  /\ \A p \in 1..Len(backlog) : peer[backlog[p]] # "new"

\* A connection that was dropped, and does not come back.
Left(k) == /\ peer[k] # "new" /\ \A i \in Slots : slot[i].fd # k
           /\ \A p \in 1..Len(backlog) : backlog[p] # k

CutInv ==
  /\ \A k \in Conns : cut[k] = "checked" => Left(k)
  /\ \A k \in mixed : cut[k] = "unchecked"

\* A script that a client asked for still has its client in the slot, unless it
\* was stopped and the client has left.
Asks(f) == f.call = "script" /\ f.of # NoConn
Asked0(f) == [of |-> f.of, n |-> f.n]
AskInv ==
  \A p \in 1..Len(stack) : Asks(stack[p]) =>
     /\ slot[stack[p].i].fd = stack[p].of \/ (Left(stack[p].of) /\ Asked0(stack[p]) \in held)
     /\ p > 1 => Asked0(stack[p]) \in held

AnswerInv ==
  \A k \in Conns : \A p \in 1..Len(answers[k]) :
     \/ answers[k][p].of = k
     \/ answers[k][p] \in held /\ Left(answers[k][p].of)

CdpInv == CdpTypes /\ PauseOK(stack, paused) /\ PlaceInv /\ CutInv /\ AskInv /\ AnswerInv

-----------------------------------------------------------------------------

\* A call is put on top of the stack.
LEMMA PushFacts0 ==
    ASSUME NEW S, NEW s \in Seq(S), NEW f \in S
    PROVE  /\ <<f>> \o s \in Seq(S) /\ Len(<<f>> \o s) = Len(s) + 1 /\ Len(s) \in Nat
           /\ (<<f>> \o s)[1] = f /\ \A p \in 1..Len(s) : (<<f>> \o s)[p + 1] = s[p]
           /\ \A p \in 2..Len(s) + 1 : (<<f>> \o s)[p] = s[p - 1]
           /\ <<f>> \o s # <<>> /\ Head(<<f>> \o s) = f /\ Tail(<<f>> \o s) = s
OBVIOUS

\* The call on top of the stack returns.
LEMMA PopFacts ==
    ASSUME NEW S, NEW s \in Seq(S), s # <<>>
    PROVE  /\ Tail(s) \in Seq(S) /\ Len(Tail(s)) = Len(s) - 1 /\ Len(s) \in Nat \ {0}
           /\ Head(s) = s[1] /\ Head(s) \in S
           /\ \A p \in 1..Len(s) - 1 : Tail(s)[p] = s[p + 1]
OBVIOUS

\* A call that is not a pause begins: what is said of the pauses stays true.
LEMMA PausePushed ==
    ASSUME NEW stk \in Seq(Calls), NEW flag \in BOOLEAN, PauseOK(stk, flag),
           NEW f \in Calls, f.call # "pause"
    PROVE  PauseOK(<<f>> \o stk, flag)
<1>. DEFINE s == <<f>> \o stk
<1>1. /\ Len(s) = Len(stk) + 1 /\ Len(stk) \in Nat
      /\ s[1] = f /\ \A p \in 1..Len(stk) : s[p + 1] = stk[p]
      /\ \A p \in 2..Len(stk) + 1 : s[p] = stk[p - 1]
  BY PushFacts0
<1>. HIDE DEF s
<1>2. flag => \E p \in 1..Len(s) : s[p].call = "pause"
  BY <1>1 DEF PauseOK
<1>3. ASSUME NEW p \in 1..Len(s), s[p].call = "pause", s[p].at = "",
             \A q \in 1..p - 1 : s[q].call # "pause"
      PROVE  flag
  <2>0. p # 1
    BY <1>1, <1>3
  <2>a. p \in 2..Len(stk) + 1 /\ p - 1 \in 1..Len(stk)
    BY <1>1, <2>0
  <2>1. s[p] = stk[p - 1]
    BY <1>1, <2>a
  <2>2. \A q \in 1..(p - 1) - 1 : q + 1 \in 1..p - 1 /\ q \in 1..Len(stk)
    BY <2>a
  <2>3. \A q \in 1..(p - 1) - 1 : stk[q].call # "pause"
    BY <2>2, <1>3, <1>1
  <2>. QED
    BY <2>1, <2>a, <2>3, <1>3 DEF PauseOK
<1>. QED
  BY <1>2, <1>3 DEF PauseOK, s

\* A call that is not a pause returns: what is said of the pauses stays true.
LEMMA PausePopped ==
    ASSUME NEW stk \in Seq(Calls), NEW flag \in BOOLEAN, PauseOK(stk, flag),
           stk # <<>>, Head(stk).call # "pause"
    PROVE  PauseOK(Tail(stk), flag)
<1>. DEFINE s == Tail(stk)
<1>1. /\ Len(s) = Len(stk) - 1 /\ Len(stk) \in Nat \ {0} /\ stk[1].call # "pause"
      /\ \A p \in 1..Len(s) : s[p] = stk[p + 1]
  BY PopFacts
<1>. HIDE DEF s
<1>2. flag => \E p \in 1..Len(s) : s[p].call = "pause"
  <2>1. ASSUME flag PROVE \E p \in 1..Len(s) : s[p].call = "pause"
    <3>1. PICK p \in 1..Len(stk) : stk[p].call = "pause"
      BY <2>1 DEF PauseOK
    <3>2. p # 1 /\ p - 1 \in 1..Len(s) /\ s[p - 1] = stk[(p - 1) + 1]
      BY <3>1, <1>1
    <3>3. (p - 1) + 1 = p
      BY <1>1
    <3>. QED
      BY <3>1, <3>2, <3>3
  <2>. QED
    BY <2>1
<1>3. ASSUME NEW p \in 1..Len(s), s[p].call = "pause", s[p].at = "",
             \A q \in 1..p - 1 : s[q].call # "pause"
      PROVE  flag
  <2>1. p + 1 \in 1..Len(stk) /\ s[p] = stk[p + 1]
    BY <1>1
  <2>2. \A q \in 1..(p + 1) - 1 : q = 1 \/ (q - 1 \in 1..p - 1 /\ q - 1 \in 1..Len(s) /\ (q - 1) + 1 = q)
    BY <1>1
  <2>3. ASSUME NEW q \in 1..(p + 1) - 1 PROVE stk[q].call # "pause"
    <3>1. CASE q = 1
      BY <3>1, <1>1
    <3>2. CASE q # 1
      <4>1. q - 1 \in 1..p - 1 /\ q - 1 \in 1..Len(s) /\ (q - 1) + 1 = q
        BY <2>2, <3>2
      <4>2. s[q - 1] = stk[q] /\ s[q - 1].call # "pause"
        BY <4>1, <1>1, <1>3
      <4>. QED
        BY <4>2
    <3>. QED
      BY <3>1, <3>2
  <2>. QED
    BY <2>1, <2>3, <1>3 DEF PauseOK
<1>. QED
  BY <1>2, <1>3 DEF PauseOK, s

\* MarkPause changes a pause at most.
LEMMA MarkFacts ==
    ASSUME NEW stk \in Seq(Calls), NEW why \in {"asked", "inner"}
    PROVE  /\ MarkPause(stk, why) \in Seq(Calls) /\ Len(MarkPause(stk, why)) = Len(stk)
           /\ \A p \in 1..Len(stk) :
                /\ MarkPause(stk, why)[p].call = stk[p].call
                /\ stk[p].call # "pause" => MarkPause(stk, why)[p] = stk[p]
           /\ PauseOK(MarkPause(stk, why), FALSE)
<1>. DEFINE P == {p \in DOMAIN stk : stk[p].call = "pause"}
<1>1. Pause(why) \in Calls /\ Pause(why).call = "pause" /\ Pause(why).at = why
  BY DEF Calls, Pause
<1>2. CASE P = {}
  <2>1. MarkPause(stk, why) = stk
    BY <1>2 DEF MarkPause
  <2>2. \A p \in 1..Len(stk) : stk[p].call # "pause"
    BY <1>2
  <2>. QED
    BY <2>1, <2>2 DEF PauseOK
<1>3. CASE P # {}
  <2>1. P \subseteq Nat
    OBVIOUS
  <2>2. PICK m \in P : \A q \in P : m <= q
    BY <1>3, <2>1, LeastNat
  <2>3. PICK c : c = CHOOSE p \in P : \A q \in P : p <= q
    OBVIOUS
  <2>4. c \in P /\ \A q \in P : c <= q
    BY <2>2, <2>3
  <2>5. MarkPause(stk, why) = [stk EXCEPT ![c] = Pause(why)]
    BY <1>3, <2>3 DEF MarkPause
  <2>. DEFINE s == [stk EXCEPT ![c] = Pause(why)]
  <2>6. s \in Seq(Calls) /\ Len(s) = Len(stk) /\ c \in 1..Len(stk)
    BY <2>4, <1>1
  <2>7. \A p \in 1..Len(stk) : s[p] = IF p = c THEN Pause(why) ELSE stk[p]
    BY <2>4
  <2>8. \A p \in 1..Len(stk) : s[p].call = stk[p].call /\ (stk[p].call # "pause" => s[p] = stk[p])
    BY <2>7, <2>4, <1>1
  <2>9. ASSUME NEW p \in 1..Len(s), s[p].call = "pause", s[p].at = "",
               \A q \in 1..p - 1 : s[q].call # "pause"
        PROVE  FALSE
    <3>1. p # c
      BY <2>7, <2>9, <1>1, <2>6
    <3>2. p \in P
      <4>1. p \in 1..Len(stk)
        BY <2>6
      <4>2. stk[p].call = "pause"
        BY <4>1, <2>8, <2>9
      <4>. QED
        BY <4>1, <4>2
    <3>3. c < p
      BY <3>1, <3>2, <2>4, <2>6
    <3>4. c \in 1..p - 1 /\ s[c].call = "pause"
      BY <3>3, <2>6, <2>7, <1>1
    <3>. QED
      BY <3>4, <2>9
  <2>10. \A p \in 1..Len(s) :
            s[p].call = "pause" /\ s[p].at = "" /\ (\A q \in 1..p - 1 : s[q].call # "pause") => FALSE
    BY <2>6, <2>9
  <2>. QED
    BY ZenonT(30), <2>5, <2>6, <2>8, <2>10 DEF PauseOK
<1>. QED
  BY <1>2, <1>3
-----------------------------------------------------------------------------

\* The slots are numbered from 1.
LEMMA SlotFacts ==
    /\ Slots \subseteq Nat \ {0} /\ Slots # {} /\ 0 \notin Slots
    /\ Cardinality(Slots) \in Nat /\ Slots = 1..Cardinality(Slots)
<1>1. Cardinality(Slots) \in Nat
  BY SlotsAreIndices, FS_CardinalityType
<1>. QED
  BY <1>1, SlotsAreIndices

\* A free slot.
LEMMA NoClientType ==
    NoClient \in Client0 /\ NoClient.fd = NoConn /\ NoClient.upgraded = FALSE
    /\ NoClient.rx = <<>> /\ NoClient.frag = <<>>
BY DEF NoClient, Client0

\* The clients that s has were there, in the same slots.
Kept(s) == /\ s \in [Slots -> Client0]
           /\ \A j \in Slots : s[j] = NoClient \/ (s[j].fd = slot[j].fd /\ slot[j].fd # NoConn)

\* What becomes of the connections when slots are only emptied.
Leaves == \A k \in Conns :
            /\ Left(k) => Left(k)'
            /\ \A j \in Slots : slot[j].fd = k => slot'[j].fd = k \/ Left(k)'

\* When slots are only emptied or changed in place, connections stay where
\* they are or leave, and those that left stay away.
LEMMA SlotsShrink ==
    ASSUME CdpTypes, PlaceInv, Kept(slot'), UNCHANGED backlog,
           \A k \in Conns : peer'[k] = "new" <=> peer[k] = "new"
    PROVE  PlaceInv' /\ Leaves
<1>1. \A j \in Slots : slot'[j].fd # NoConn => slot'[j].fd = slot[j].fd
  BY NoClientType DEF Kept
<1>2. \A j \in Slots : slot[j].fd \in Conns \cup {NoConn}
  BY DEF CdpTypes, Client0
<1>3. \A p \in 1..Len(backlog) : backlog[p] \in Conns
  BY DEF CdpTypes
<1>a. \A p \in 1..Len(backlog), i \in Slots : slot'[i].fd # backlog[p]
  BY <1>1, <1>3, Connections DEF PlaceInv
<1>b. \A j \in Slots : slot'[j].fd # NoConn => slot'[j].fd \in Conns /\ peer[slot'[j].fd] # "new"
  BY <1>1, <1>2 DEF PlaceInv
<1>c. \A j \in Slots : slot'[j].fd = NoConn => slot'[j] = NoClient
  BY DEF Kept
<1>d. \A i, j \in Slots : slot'[i].fd = slot'[j].fd /\ slot'[i].fd # NoConn => i = j
  BY <1>1 DEF PlaceInv
<1>4. PlaceInv'
  BY <1>a, <1>b, <1>c, <1>d, <1>3 DEF PlaceInv
<1>5. ASSUME NEW k \in Conns, Left(k) PROVE Left(k)'
  BY <1>5, <1>1, Connections DEF Left
<1>6. ASSUME NEW k \in Conns, NEW j \in Slots, slot[j].fd = k, slot'[j].fd # k
      PROVE  Left(k)'
  <2>1. k # NoConn /\ slot'[j].fd = NoConn
    BY <1>1, <1>6, Connections
  <2>2. \A i \in Slots : slot'[i].fd # k
    BY <1>1, <1>6, <2>1 DEF PlaceInv
  <2>3. peer'[k] # "new" /\ \A p \in 1..Len(backlog) : backlog[p] # k
    BY <1>6, <2>1 DEF PlaceInv
  <2>. QED
    BY <2>2, <2>3 DEF Left
<1>. QED
  BY <1>4, <1>5, <1>6 DEF Leaves

\* When the slots stay as they are.
LEMMA SlotsSame ==
    ASSUME CdpTypes, PlaceInv, UNCHANGED <<slot, backlog>>,
           \A k \in Conns : peer'[k] = "new" <=> peer[k] = "new"
    PROVE  PlaceInv' /\ Leaves
<1>1. Kept(slot')
  BY DEF Kept, PlaceInv, CdpTypes
<1>. QED
  BY <1>1, SlotsShrink

\* cdp_drop_client of the connections in F.
LEMMA DropFacts ==
    ASSUME CdpTypes, PlaceInv, NEW s, Kept(s), NEW F, F \subseteq Conns
    PROVE  /\ Kept(Dropping(s, F))
           /\ \A k \in F : \A j \in Slots : Dropping(s, F)[j].fd # k
           /\ Upgraded(s) \subseteq Conns
           /\ \A k \in Upgraded(s) : \E j \in Slots : slot[j].fd = k
<1>1. \A j \in Slots : s[j].upgraded => s[j].fd = slot[j].fd /\ slot[j].fd # NoConn
  BY NoClientType DEF Kept
<1>2. \A j \in Slots : slot[j].fd \in Conns \cup {NoConn}
  BY DEF CdpTypes, Client0
<1>3. \A k \in Upgraded(s) : \E j \in Slots : slot[j].fd = k /\ k \in Conns
  BY <1>1, <1>2 DEF Upgraded
<1>4. \A j \in Slots : Dropping(s, F)[j] = IF s[j].fd \in F THEN NoClient ELSE s[j]
  BY DEF Dropping
<1>5. Dropping(s, F) \in [Slots -> Client0]
  BY NoClientType DEF Dropping, Kept
<1>6. Kept(Dropping(s, F))
  BY <1>4, <1>5 DEF Kept
<1>7. \A k \in F : \A j \in Slots : Dropping(s, F)[j].fd # k
  BY <1>4, NoClientType, Connections
<1>. QED
  BY <1>3, <1>6, <1>7

\* A write to connected clients, of which those that fail are dropped when the
\* result is looked at.
LEMMA WriteFacts ==
    ASSUME CdpTypes, CutInv, Leaves, NEW S, NEW F, F \subseteq S, S \subseteq Conns,
           \A k \in S : \E j \in Slots : slot[j].fd = k,
           NEW how \in {"checked", "unchecked"}, how = "checked" => \A k \in F : Left(k)',
           Write(S, F, how)
    PROVE  /\ CutInv' /\ mixed' \subseteq Conns
           /\ cut' \in [Conns -> {"no", "checked", "unchecked"}]
<1>1. \A k \in Conns : cut'[k] = IF k \in F /\ cut[k] = "no" THEN how ELSE cut[k]
  BY DEF Write
<1>2. /\ cut' \in [Conns -> {"no", "checked", "unchecked"}] /\ mixed' \subseteq Conns
      /\ mixed' = mixed \cup {k \in S : cut[k] # "no"}
  BY DEF Write, CdpTypes
<1>3. ASSUME NEW k \in Conns, cut'[k] = "checked" PROVE Left(k)'
  BY <1>1, <1>3 DEF CutInv, Leaves
<1>4. ASSUME NEW k \in mixed' PROVE cut'[k] = "unchecked"
  <2>0. k \in Conns /\ mixed \subseteq Conns /\ cut[k] \in {"no", "checked", "unchecked"}
    BY <1>2 DEF CdpTypes
  <2>1. cut[k] = "unchecked"
    <3>1. CASE k \in mixed
      BY <3>1 DEF CutInv
    <3>2. CASE k \in S /\ cut[k] # "no"
      <4>1. ~Left(k)
        BY <3>2 DEF Left
      <4>. QED
        BY <4>1, <3>2, <2>0 DEF CutInv
    <3>. QED
      BY <3>1, <3>2, <1>2
  <2>. QED
    BY <2>0, <2>1, <1>1
<1>. QED
  BY <1>2, <1>3, <1>4 DEF CutInv

\* mini_cdp_broadcast.
LEMMA BroadcastFacts ==
    ASSUME CdpTypes, PlaceInv, CutInv, NEW s, Kept(s), Broadcast(s),
           UNCHANGED <<backlog, peer>>
    PROVE  /\ Kept(slot') /\ PlaceInv' /\ Leaves /\ CutInv' /\ mixed' \subseteq Conns
           /\ cut' \in [Conns -> {"no", "checked", "unchecked"}]
<1>1. PICK F \in SUBSET (Flaky \cap Upgraded(s)) :
         slot' = Dropping(s, F) /\ Write(Upgraded(s), F, "checked")
  BY DEF Broadcast
<1>2. F \subseteq Conns /\ F \subseteq Upgraded(s)
  BY Connections
<1>3. /\ Kept(slot') /\ \A k \in F : \A j \in Slots : slot'[j].fd # k
      /\ Upgraded(s) \subseteq Conns /\ \A k \in Upgraded(s) : \E j \in Slots : slot[j].fd = k
  BY <1>1, <1>2, DropFacts
<1>4. PlaceInv' /\ Leaves
  BY <1>3, SlotsShrink
<1>5. \A k \in F : Left(k)'
  BY <1>2, <1>3, <1>4 DEF Leaves
<1>. QED
  BY <1>1, <1>2, <1>3, <1>4, <1>5, WriteFacts

\* mini_cdp_send_client.
LEMMA ReplyFacts ==
    ASSUME CdpTypes, PlaceInv, CutInv, NEW s, Kept(s), NEW i \in Slots, NEW k \in Conns,
           NEW n \in Nat, Reply(s, i, k, n), UNCHANGED <<backlog, peer>>
    PROVE  /\ Kept(slot') /\ PlaceInv' /\ Leaves /\ CutInv' /\ mixed' \subseteq Conns
           /\ cut' \in [Conns -> {"no", "checked", "unchecked"}]
           /\ \/ answers' = answers
              \/ /\ n # 0 /\ slot[i].fd \in Conns
                 /\ answers' = [answers EXCEPT ![slot[i].fd] = Append(@, [of |-> k, n |-> n])]
<1>1. CASE ~s[i].upgraded
  <2>1. slot' = s /\ UNCHANGED <<answers, cut, mixed>>
    BY <1>1 DEF Reply
  <2>2. PlaceInv' /\ Leaves
    BY <2>1, SlotsShrink
  <2>. QED
    BY <2>1, <2>2 DEF CutInv, CdpTypes, Leaves
<1>2. CASE s[i].upgraded
  <2>1. PICK F \in SUBSET (Flaky \cap {s[i].fd}) :
            /\ slot' = Dropping(s, F)
            /\ Write({s[i].fd}, F, "checked")
            /\ answers' = IF F # {} \/ n = 0 THEN answers
                          ELSE [answers EXCEPT ![s[i].fd] = Append(@, [of |-> k, n |-> n])]
    BY <1>2 DEF Reply
  <2>2. F \subseteq Conns /\ F \subseteq {s[i].fd}
    BY Connections
  <2>3. /\ Kept(slot') /\ \A l \in F : \A j \in Slots : slot'[j].fd # l
    BY <2>1, <2>2, DropFacts
  <2>4. s[i].fd = slot[i].fd /\ slot[i].fd \in Conns
    BY <1>2, NoClientType DEF Kept, CdpTypes, Client0
  <2>5. PlaceInv' /\ Leaves
    BY <2>3, SlotsShrink
  <2>6. \A l \in F : Left(l)'
    BY <2>2, <2>3, <2>4, <2>5 DEF Leaves
  <2>7. /\ CutInv' /\ mixed' \subseteq Conns
        /\ cut' \in [Conns -> {"no", "checked", "unchecked"}]
    BY <2>1, <2>2, <2>4, <2>5, <2>6, WriteFacts
  <2>. QED
    BY <2>1, <2>3, <2>4, <2>5, <2>7
<1>. QED
  BY <1>1, <1>2
-----------------------------------------------------------------------------

\* The scripts in progress that clients asked for were so before, below the top.
OldAsks == \A p \in 1..Len(stack') : Asks(stack'[p]) => \E q \in 2..Len(stack) : stack[q] = stack'[p]

\* The fields of a call.
LEMMA CallTypes ==
    ASSUME NEW f \in Calls
    PROVE  /\ f.of \in Conns \cup {NoConn} /\ f.n \in Nat /\ f.i \in Slots \cup {0}
           /\ f.call \in {"poll", "script", "pause"}
           /\ f.at \in {"", "serve", "frames", "flush", "asked", "inner"}
           /\ Asks(f) => f.of \in Conns /\ f.i \in Slots /\ Asked0(f) \in Pair
           /\ f.call = "poll" => f.at \in {"serve", "frames", "flush"}
           /\ f.call = "poll" /\ f.at # "flush" => f.i \in Slots
BY DEF Calls, Asks, Asked0, Pair

\* Every evaluation in progress was one below the top, hence was stopped.
LEMMA AskOld ==
    ASSUME CdpTypes, AskInv, Leaves, held \subseteq held', OldAsks
    PROVE  AskInv'
<1>1. ASSUME NEW p \in 1..Len(stack'), NEW f, f = stack'[p], Asks(f)
      PROVE  /\ slot'[f.i].fd = f.of \/ (Left(f.of)' /\ Asked0(f) \in held')
             /\ Asked0(f) \in held'
  <2>1. PICK q \in 2..Len(stack) : stack[q] = f
    BY <1>1 DEF OldAsks
  <2>2. q \in 1..Len(stack) /\ q > 1 /\ stack[q] \in Calls
    BY DEF CdpTypes
  <2>3. /\ slot[f.i].fd = f.of \/ (Left(f.of) /\ Asked0(f) \in held)
        /\ Asked0(f) \in held
    BY <1>1, <2>1, <2>2 DEF AskInv
  <2>4. f.of \in Conns /\ f.i \in Slots
    BY <1>1, <2>1, <2>2, CallTypes
  <2>. QED
    BY <2>3, <2>4 DEF Leaves
<1>2. \A p \in 1..Len(stack') : \A f : f = stack'[p] /\ Asks(f) =>
             /\ slot'[f.i].fd = f.of \/ (Left(f.of)' /\ Asked0(f) \in held')
             /\ Asked0(f) \in held'
  BY <1>1
<1>. QED
  BY <1>2 DEF AskInv, Asks, Asked0, Left

\* The stack and the slots are as they were.
LEMMA AskSame ==
    ASSUME CdpTypes, AskInv, Leaves, UNCHANGED <<slot, stack, held>>
    PROVE  AskInv'
<1>1. \A p \in 1..Len(stack) : Asks(stack[p]) => stack[p].of \in Conns
  <2>1. \A p \in 1..Len(stack) : stack[p] \in Calls
    BY DEF CdpTypes
  <2>. QED
    BY <2>1, CallTypes
<1>2. \A p \in 1..Len(stack) : \A f : f = stack[p] /\ Asks(f) =>
             /\ slot[f.i].fd = f.of \/ (Left(f.of)' /\ Asked0(f) \in held)
             /\ p > 1 => Asked0(f) \in held
  BY <1>1 DEF AskInv, Leaves
<1>. QED
  BY <1>2 DEF AskInv, Asks, Asked0, Left

\* An answer names a connection and a message.
LEMMA AnswerTypes ==
    ASSUME CdpTypes, NEW k \in Conns, NEW p \in 1..Len(answers[k])
    PROVE  /\ answers[k][p] \in Pair /\ answers[k][p].of \in Conns
<1>1. answers[k] \in Seq(Pair)
  BY DEF CdpTypes
<1>2. answers[k][p] \in Pair
  BY <1>1
<1>. QED
  BY <1>2 DEF Pair

\* Nothing is answered.
LEMMA AnswerSame ==
    ASSUME CdpTypes, AnswerInv, Leaves, held \subseteq held', UNCHANGED answers
    PROVE  AnswerInv'
BY AnswerTypes DEF AnswerInv, Leaves

\* An answer is written to the client that asked, or after it left.
LEMMA AnswerNew ==
    ASSUME CdpTypes, AnswerInv, Leaves, held \subseteq held',
           NEW l \in Conns, NEW k \in Conns, NEW n \in Nat,
           l = k \/ ([of |-> k, n |-> n] \in held' /\ Left(k)'),
           answers' = [answers EXCEPT ![l] = Append(@, [of |-> k, n |-> n])]
    PROVE  AnswerInv' /\ answers' \in [Conns -> Seq(Pair)]
<1>. DEFINE e == [of |-> k, n |-> n]
<1>1. e \in Pair /\ e.of = k
  BY DEF Pair
<1>2. answers[l] \in Seq(Pair)
  BY DEF CdpTypes
<1>. HIDE DEF e
<1>3. answers' = [answers EXCEPT ![l] = Append(answers[l], e)]
  BY DEF e
<1>4. /\ answers'[l] = Append(answers[l], e) /\ \A j \in Conns : j # l => answers'[j] = answers[j]
  BY <1>3 DEF CdpTypes
<1>5. answers' \in [Conns -> Seq(Pair)]
  BY SMTT(30), <1>1, <1>2, <1>3 DEF CdpTypes
<1>6. /\ Len(answers'[l]) = Len(answers[l]) + 1 /\ answers'[l][Len(answers[l]) + 1] = e
      /\ Len(answers[l]) \in Nat
      /\ \A p \in 1..Len(answers[l]) : answers'[l][p] = answers[l][p]
  BY <1>1, <1>2, <1>4
<1>7. ASSUME NEW j \in Conns, NEW p \in 1..Len(answers'[j]),
             NEW a, a = answers'[j][p]
      PROVE  a.of = j \/ (a \in held' /\ Left(a.of)')
  <2>1. CASE j = l /\ p = Len(answers[l]) + 1
    BY <2>1, <1>6, <1>1, <1>7 DEF e
  <2>2. CASE ~(j = l /\ p = Len(answers[l]) + 1)
    <3>1. p \in 1..Len(answers[j]) /\ a = answers[j][p]
      BY <2>2, <1>4, <1>6, <1>7
    <3>2. a.of \in Conns
      BY <3>1, AnswerTypes
    <3>3. a.of = j \/ (a \in held /\ Left(a.of))
      BY <3>1 DEF AnswerInv
    <3>. QED
      BY <3>2, <3>3 DEF Leaves
  <2>. QED
    BY <2>1, <2>2
<1>8. \A j \in Conns : \A p \in 1..Len(answers'[j]) : \A a : a = answers'[j][p] =>
           a.of = j \/ (a \in held' /\ Left(a.of)')
  BY <1>7
<1>. QED
  BY <1>5, <1>8 DEF AnswerInv, Left

\* What a poll goes on with is a poll.
LEMMA NextClientType ==
    ASSUME NEW s, NEW i \in Slots \cup {0}
    PROVE  NextClient(s, i) \in Calls /\ NextClient(s, i).call = "poll"
<1>. DEFINE R == {j \in Slots : j > i /\ s[j].fd # NoConn}
<1>1. CASE R = {}
  <2>1. NextClient(s, i) = Poll("flush", 0)
    BY <1>1 DEF NextClient
  <2>. QED
    BY <2>1 DEF Poll, Calls
<1>2. CASE R # {}
  <2>1. PICK m \in R : \A q \in R : m <= q
    BY <1>2, LeastNat, SlotFacts
  <2>2. PICK c : c = CHOOSE j \in R : \A q \in R : j <= q
    OBVIOUS
  <2>3. c \in Slots
    BY <2>1, <2>2
  <2>4. NextClient(s, i) = Poll("serve", c)
    BY <1>2, <2>2 DEF NextClient
  <2>. QED
    BY <2>3, <2>4 DEF Poll, Calls
<1>. QED
  BY <1>1, <1>2

\* The innermost call is replaced, or returns, or makes another.
LEMMA BecomeFacts ==
    ASSUME CdpTypes, PauseOK(stack, paused), stack # <<>>, Top.call # "pause",
           NEW f \in Calls, f.call = "poll", Become(f)
    PROVE  stack' \in Seq(Calls) /\ PauseOK(stack', paused) /\ OldAsks
<1>1. /\ stack \in Seq(Calls) /\ paused \in BOOLEAN
  BY DEF CdpTypes
<1>2. /\ Tail(stack) \in Seq(Calls) /\ Len(Tail(stack)) = Len(stack) - 1 /\ Len(stack) \in Nat \ {0}
      /\ \A p \in 1..Len(stack) - 1 : Tail(stack)[p] = stack[p + 1]
  BY <1>1, PopFacts
<1>3. PauseOK(Tail(stack), paused)
  BY <1>1, PausePopped DEF Top
<1>4. /\ stack' \in Seq(Calls) /\ Len(stack') = Len(stack) /\ stack'[1] = f
      /\ \A p \in 2..Len(stack) : stack'[p] = Tail(stack)[p - 1]
  BY <1>2, PushFacts0 DEF Become
<1>5. PauseOK(stack', paused)
  BY <1>1, <1>2, <1>3, PausePushed DEF Become
<1>6. \A p \in 2..Len(stack) : p - 1 \in 1..Len(stack) - 1 /\ (p - 1) + 1 = p
  BY <1>2
<1>7. \A p \in 2..Len(stack) : stack'[p] = stack[p]
  BY <1>2, <1>4, <1>6
<1>8. \A p \in 1..Len(stack') : p = 1 \/ p \in 2..Len(stack)
  BY <1>2, <1>4
<1>9. ~Asks(stack'[1])
  BY <1>4 DEF Asks
<1>. QED
  BY <1>4, <1>5, <1>7, <1>8, <1>9 DEF OldAsks

\* A call that is not a pause returns.
LEMMA ReturnFacts ==
    ASSUME CdpTypes, PauseOK(stack, paused), stack # <<>>, Top.call # "pause", Return
    PROVE  stack' \in Seq(Calls) /\ PauseOK(stack', paused) /\ OldAsks
<1>1. /\ stack \in Seq(Calls) /\ paused \in BOOLEAN
  BY DEF CdpTypes
<1>2. /\ stack' \in Seq(Calls) /\ Len(stack') = Len(stack) - 1 /\ Len(stack) \in Nat \ {0}
      /\ \A p \in 1..Len(stack) - 1 : stack'[p] = stack[p + 1]
  BY <1>1, PopFacts DEF Return
<1>3. PauseOK(stack', paused)
  BY <1>1, PausePopped DEF Top, Return
<1>4. \A p \in 1..Len(stack') : p + 1 \in 2..Len(stack) /\ p \in 1..Len(stack) - 1
  BY <1>2
<1>. QED
  BY <1>2, <1>3, <1>4 DEF OldAsks

\* The stack stays, and no evaluation is on top of it.
LEMMA SameFacts ==
    ASSUME CdpTypes, ~Asks(stack[1]), UNCHANGED stack
    PROVE  OldAsks
<1>1. \A p \in 1..Len(stack) : p = 1 \/ p \in 2..Len(stack)
  BY DEF CdpTypes
<1>. QED
  BY <1>1 DEF OldAsks

\* A call begins.
LEMMA PushedFacts ==
    ASSUME CdpTypes, NEW f \in Calls, Call(f)
    PROVE  /\ stack' \in Seq(Calls) /\ Len(stack') = Len(stack) + 1 /\ Len(stack) \in Nat
           /\ stack'[1] = f /\ \A p \in 2..Len(stack') : p - 1 \in 1..Len(stack) /\ stack'[p] = stack[p - 1]
           /\ PauseOK(stack, paused) /\ f.call # "pause" => PauseOK(stack', paused)
<1>1. /\ stack \in Seq(Calls) /\ paused \in BOOLEAN
  BY DEF CdpTypes
<1>2. /\ stack' \in Seq(Calls) /\ Len(stack') = Len(stack) + 1 /\ Len(stack) \in Nat
      /\ stack'[1] = f /\ \A p \in 2..Len(stack) + 1 : stack'[p] = stack[p - 1]
  BY <1>1, PushFacts0 DEF Call
<1>3. \A p \in 2..Len(stack') : p - 1 \in 1..Len(stack) /\ p \in 2..Len(stack) + 1
  BY <1>2
<1>4. PauseOK(stack, paused) /\ f.call # "pause" => PauseOK(stack', paused)
  BY <1>1, PausePushed DEF Call
<1>. QED
  BY <1>2, <1>3, <1>4

\* The number of a free slot is its own.
LEMMA RankFacts ==
    ASSUME NEW T, T \subseteq Nat, IsFiniteSet(T)
    PROVE  /\ Cardinality(T) \in Nat
           /\ \A i \in T : Cardinality({j \in T : j <= i}) \in 1..Cardinality(T)
           /\ \A i, h \in T : Cardinality({j \in T : j <= i}) = Cardinality({j \in T : j <= h}) => i = h
<1>. DEFINE U(i) == {j \in T : j <= i}
<1>1. Cardinality(T) \in Nat
  BY FS_CardinalityType
<1>2. ASSUME NEW i \in T PROVE IsFiniteSet(U(i)) /\ Cardinality(U(i)) \in 1..Cardinality(T)
  <2>1. U(i) \subseteq T /\ i \in U(i)
    OBVIOUS
  <2>2. IsFiniteSet(U(i)) /\ Cardinality(U(i)) <= Cardinality(T)
    BY <2>1, FS_Subset
  <2>3. Cardinality(U(i)) \in Nat /\ Cardinality(U(i)) # 0
    BY <2>1, <2>2, FS_CardinalityType, FS_EmptySet
  <2>. QED
    BY <1>1, <2>2, <2>3
<1>3. ASSUME NEW i \in T, NEW h \in T, i < h PROVE Cardinality(U(i)) # Cardinality(U(h))
  <2>1. U(i) \subseteq U(h) /\ h \in U(h) /\ h \notin U(i)
    <3>1. i \in Nat /\ h \in Nat /\ \A j \in T : j \in Nat
      OBVIOUS
    <3>2. \A j \in T : j <= i => j <= h
      BY <3>1, <1>3
    <3>3. h <= h /\ ~(h <= i)
      BY <3>1, <1>3
    <3>. QED
      BY <3>2, <3>3
  <2>2. IsFiniteSet(U(h))
    BY <1>2
  <2>3. Cardinality(U(i)) = Cardinality(U(h)) => U(i) = U(h)
    BY <2>1, <2>2, FS_Subset
  <2>. QED
    BY <2>1, <2>3
<1>4. \A i, h \in T : i = h \/ i < h \/ h < i
  OBVIOUS
<1>. QED
  BY <1>1, <1>2, <1>3, <1>4
-----------------------------------------------------------------------------

\* CdpInv holds at the start.
LEMMA CdpInitInv == CdpInit => CdpInv
<1>. SUFFICES ASSUME CdpInit PROVE CdpInv
  OBVIOUS
<1>. USE DEF CdpInit
<1>1. CdpTypes
  <2>1. script \in [Conns -> Seq(Items)] /\ runs \in Nat
    BY ScenariosAreScripts
  <2>2. slot \in [Slots -> Client0]
    BY NoClientType
  <2>3. sent \in [Conns -> Nat] /\ peer \in [Conns -> {"new", "open", "gone"}] /\ wire \in [Conns -> Seq(Items)]
    OBVIOUS
  <2>4. got \in [Conns -> Seq(Seq(Items))] /\ answers \in [Conns -> Seq(Pair)]
    OBVIOUS
  <2>5. cut \in [Conns -> {"no", "checked", "unchecked"}] /\ held \subseteq Pair /\ mixed \subseteq Conns
    OBVIOUS
  <2>6. backlog \in Seq(Conns) /\ stack \in Seq(Calls)
    OBVIOUS
  <2>7. paused \in BOOLEAN /\ attached \in BOOLEAN
    OBVIOUS
  <2>. QED
    BY <2>1, <2>2, <2>3, <2>4, <2>5, <2>6, <2>7, Zenon DEF CdpTypes
<1>2. PauseOK(stack, paused)
  BY DEF PauseOK
<1>3. \A i \in Slots : slot[i] = NoClient /\ slot[i].fd = NoConn
  BY NoClientType
<1>4. PlaceInv
  BY <1>3 DEF PlaceInv
<1>5. CutInv /\ AskInv /\ AnswerInv
  BY DEF CutInv, AskInv, AnswerInv
<1>. QED
  BY <1>1, <1>2, <1>4, <1>5 DEF CdpInv

\* A client connects.
LEMMA PeerConnectsInv ==
    ASSUME CdpInv, NEW k \in Conns, PeerConnects(k)
    PROVE  CdpInv'
<1>. USE DEF CdpInv, PeerConnects, history
<1>1. /\ backlog \in Seq(Conns) /\ peer' = [peer EXCEPT ![k] = "open"]
      /\ backlog' = Append(backlog, k)
  BY DEF CdpTypes
<1>2. /\ Len(backlog') = Len(backlog) + 1 /\ backlog'[Len(backlog) + 1] = k /\ Len(backlog) \in Nat
      /\ \A p \in 1..Len(backlog) : backlog'[p] = backlog[p]
  BY <1>1
<1>3. CdpTypes'
  BY <1>1 DEF CdpTypes
<1>4. \A j \in Conns : peer'[j] = IF j = k THEN "open" ELSE peer[j]
  BY DEF CdpTypes
<1>5. /\ \A i \in Slots : slot[i].fd # k /\ slot[i].fd \in Conns \cup {NoConn}
      /\ \A p \in 1..Len(backlog) : backlog[p] # k /\ backlog[p] \in Conns
  <2>0. peer[k] = "new" /\ k # NoConn
    BY Connections
  <2>1. \A i \in Slots : slot[i].fd \in Conns \cup {NoConn}
    BY DEF CdpTypes, Client0
  <2>2. \A p \in 1..Len(backlog) : backlog[p] \in Conns
    BY DEF CdpTypes
  <2>. QED
    BY <2>0, <2>1, <2>2 DEF PlaceInv
<1>6. \A p \in 1..Len(backlog') : p \in 1..Len(backlog) \/ (p = Len(backlog) + 1 /\ p \notin 1..Len(backlog))
  BY <1>2
<1>7. PlaceInv'
  BY <1>2, <1>4, <1>5, <1>6 DEF PlaceInv
<1>8. Leaves
  <2>1. ASSUME NEW j \in Conns, Left(j) PROVE Left(j)'
    <3>1. j # k
      BY <2>1 DEF Left
    <3>. QED
      BY <2>1, <3>1, <1>2, <1>4, <1>6 DEF Left
  <2>. QED
    BY <2>1 DEF Leaves
<1>9. CutInv'
  BY <1>8 DEF CutInv, Leaves
<1>. QED
  BY <1>3, <1>7, <1>8, <1>9, AskSame, AnswerSame

\* Steps of a client that leave slots and queue alone.
LEMMA PeerQuiet ==
    ASSUME CdpInv, CdpTypes', UNCHANGED <<backlog, slot, stack, paused, history>>,
           \A k \in Conns : peer'[k] = "new" <=> peer[k] = "new"
    PROVE  CdpInv'
<1>. USE DEF CdpInv, history
<1>1. PlaceInv' /\ Leaves
  BY SlotsSame
<1>2. CutInv'
  BY <1>1 DEF CutInv, Leaves
<1>. QED
  BY <1>1, <1>2, AskSame, AnswerSame

\* The resume of a front end is an item.
LEMMA ResumeType == Resume \in Items
<1>1. 1 \in 0..MaxFrag
  BY Bounds
<1>. QED
  BY <1>1 DEF Resume, Items, Frames, Methods

\* A client sends, resumes a script or leaves.
LEMMA PeerInv ==
    ASSUME CdpInv, NEW k \in Conns, PeerSends(k) \/ PeerResumes(k) \/ PeerLeaves(k)
    PROVE  CdpInv'
<1>. USE DEF history
<1>1. CdpTypes
  BY DEF CdpInv
<1>2. CASE PeerSends(k)
  <2>1. /\ sent' = [sent EXCEPT ![k] = sent[k] + 1] /\ sent[k] < Len(script[k])
        /\ wire' = [wire EXCEPT ![k] = Append(wire[k], script[k][sent'[k]])]
        /\ UNCHANGED <<script, peer, backlog, slot, stack, paused, attached, runs, history>>
    BY <1>2 DEF PeerSends
  <2>2. /\ sent[k] \in Nat /\ script[k] \in Seq(Items) /\ wire[k] \in Seq(Items)
        /\ sent'[k] = sent[k] + 1
    BY <1>1, <2>1 DEF CdpTypes
  <2>3. script[k][sent'[k]] \in Items
    BY <2>1, <2>2
  <2>4. CdpTypes'
    BY SMTT(30), <1>1, <2>1, <2>2, <2>3 DEF CdpTypes
  <2>. QED
    BY <2>1, <2>4, PeerQuiet
<1>3. CASE PeerResumes(k)
  <2>1. /\ wire' = [wire EXCEPT ![k] = Append(wire[k], Resume)] /\ wire[k] \in Seq(Items)
        /\ UNCHANGED <<script, sent, peer, backlog, slot, stack, paused, attached, runs, history>>
    BY <1>1, <1>3 DEF PeerResumes, CdpTypes
  <2>2. CdpTypes'
    BY <1>1, <2>1, ResumeType DEF CdpTypes
  <2>. QED
    BY <2>1, <2>2, PeerQuiet
<1>4. CASE PeerLeaves(k)
  <2>1. /\ peer' = [peer EXCEPT ![k] = "gone"] /\ peer[k] = "open"
        /\ UNCHANGED <<script, sent, wire, backlog, slot, stack, paused, attached, runs, history>>
    BY <1>4 DEF PeerLeaves
  <2>2. CdpTypes' /\ \A j \in Conns : peer'[j] = "new" <=> peer[j] = "new"
    BY <1>1, <2>1 DEF CdpTypes
  <2>. QED
    BY <2>1, <2>2, PeerQuiet
<1>. QED
  BY <1>2, <1>3, <1>4

\* mini_cdp_poll accepts: a connection moves from the queue to a slot, or is closed.
LEMMA AcceptFacts ==
    ASSUME CdpTypes, PlaceInv, PollStarts
    PROVE  /\ slot' \in [Slots -> Client0] /\ backlog' \in Seq(Conns) /\ PlaceInv' /\ Leaves
           /\ \A i \in Slots :
                \/ slot'[i] = slot[i]
                \/ /\ slot[i].fd = NoConn
                   /\ \E p \in 1..Len(backlog) : slot'[i] = [NoClient EXCEPT !.fd = backlog[p]]
<1>. DEFINE Free == {i \in Slots : slot[i].fd = NoConn}
            Rank(i) == Cardinality({j \in Free : j <= i})
            taken == IF Len(backlog) > Cardinality(Free) THEN Cardinality(Free) + 1 ELSE Len(backlog)
<1>1. /\ slot' = [i \in Slots |-> IF i \in Free /\ Rank(i) <= Len(backlog)
                                  THEN [NoClient EXCEPT !.fd = backlog[Rank(i)]] ELSE slot[i]]
      /\ backlog' = SubSeq(backlog, taken + 1, Len(backlog))
      /\ UNCHANGED peer
  BY DEF PollStarts
<1>2. IsFiniteSet(Free) /\ Free \subseteq Nat
  BY SlotFacts, SlotsAreIndices, FS_Subset
<1>3. /\ Cardinality(Free) \in Nat /\ \A i \in Free : Rank(i) \in 1..Cardinality(Free)
      /\ \A i, h \in Free : Rank(i) = Rank(h) => i = h
  BY <1>2, RankFacts
<1>4. backlog \in Seq(Conns) /\ Len(backlog) \in Nat
  BY DEF CdpTypes
<1>5. /\ taken \in 0..Len(backlog)
      /\ \A i \in Free : Rank(i) <= Len(backlog) => Rank(i) \in 1..taken
  <2>1. PICK c \in Nat : c = Cardinality(Free)
    BY <1>3
  <2>2. PICK m \in Nat : m = Len(backlog)
    BY <1>4
  <2>3. taken = IF m > c THEN c + 1 ELSE m
    BY <2>1, <2>2
  <2>4. taken \in 0..m /\ \A r \in 1..c : r <= m => r \in 1..taken
    <3>. HIDE DEF taken
    <3>. QED
      BY <2>3
  <2>. QED
    <3>. HIDE DEF taken, Rank
    <3>. QED
      BY <2>1, <2>2, <2>4, <1>3
<1>. HIDE DEF Free, Rank, taken
<1>6. /\ backlog' \in Seq(Conns) /\ Len(backlog') = Len(backlog) - taken
      /\ \A p \in 1..Len(backlog') : backlog'[p] = backlog[p + taken] /\ p + taken \in 1..Len(backlog)
  BY SMTT(30), <1>1, <1>4, <1>5
<1>7. \A i \in Slots : \/ slot'[i] = slot[i]
                       \/ /\ i \in Free /\ Rank(i) \in 1..Len(backlog) /\ Rank(i) \in 1..taken
                          /\ slot'[i] = [NoClient EXCEPT !.fd = backlog[Rank(i)]]
                          /\ slot'[i].fd = backlog[Rank(i)] /\ slot'[i] \in Client0
  <2>1. ASSUME NEW i \in Slots, i \in Free, Rank(i) <= Len(backlog)
        PROVE  /\ Rank(i) \in 1..Len(backlog) /\ Rank(i) \in 1..taken
               /\ slot'[i] = [NoClient EXCEPT !.fd = backlog[Rank(i)]]
               /\ slot'[i].fd = backlog[Rank(i)] /\ slot'[i] \in Client0
    <3>1. Rank(i) \in 1..Len(backlog) /\ Rank(i) \in 1..taken
      BY <2>1, <1>3, <1>4, <1>5
    <3>2. backlog[Rank(i)] \in Conns
      BY <3>1, <1>4
    <3>3. slot'[i] = [NoClient EXCEPT !.fd = backlog[Rank(i)]]
      BY <2>1, <1>1
    <3>4. PICK b \in Conns : b = backlog[Rank(i)]
      BY <3>2
    <3>5. [NoClient EXCEPT !.fd = b] \in Client0 /\ [NoClient EXCEPT !.fd = b].fd = b
      <4>1. PICK c \in Client0 : c = NoClient
        BY NoClientType
      <4>2. [c EXCEPT !.fd = b] \in Client0 /\ [c EXCEPT !.fd = b].fd = b
        BY DEF Client0
      <4>. QED
        BY <4>1, <4>2
    <3>. QED
      BY <3>1, <3>3, <3>4, <3>5
  <2>2. ASSUME NEW i \in Slots, ~(i \in Free /\ Rank(i) <= Len(backlog)) PROVE slot'[i] = slot[i]
    BY <2>2, <1>1
  <2>. QED
    BY <2>1, <2>2
<1>8. slot' \in [Slots -> Client0]
  <2>1. \A i \in Slots : slot'[i] \in Client0
    BY <1>7 DEF CdpTypes
  <2>. QED
    BY <2>1, <1>1
<1>9. \A i \in Slots : i \in Free <=> slot[i].fd = NoConn
  BY DEF Free
<1>10. \A p \in 1..Len(backlog) : backlog[p] \in Conns /\ backlog[p] # NoConn
  BY <1>4, Connections
<1>11. PlaceInv'
  <2>1. \A i \in Slots : slot'[i].fd = NoConn => slot'[i] = NoClient
    <3>1. ASSUME NEW i \in Slots, slot'[i].fd = NoConn PROVE slot'[i] = slot[i]
      BY <3>1, <1>7, <1>10
    <3>. QED
      BY <3>1 DEF PlaceInv
  <2>a. \A i \in Slots : slot'[i] # slot[i] =>
           i \in Free /\ Rank(i) \in 1..Len(backlog) /\ slot'[i].fd = backlog[Rank(i)]
    BY <1>7
  <2>2. ASSUME NEW i \in Slots, NEW j \in Slots, slot'[i].fd = slot'[j].fd, slot'[i].fd # NoConn
        PROVE  i = j
    <3>1. CASE slot'[i] = slot[i] /\ slot'[j] = slot[j]
      BY <3>1, <2>2 DEF PlaceInv
    <3>2. CASE slot'[i] # slot[i] /\ slot'[j] # slot[j]
      <4>1. Rank(i) = Rank(j)
        BY <3>2, <2>2, <2>a DEF PlaceInv
      <4>. QED
        BY <4>1, <3>2, <2>a, <1>3
    <3>3. CASE slot'[i] = slot[i] /\ slot'[j] # slot[j]
      BY <3>3, <2>2, <2>a DEF PlaceInv
    <3>4. CASE slot'[i] # slot[i] /\ slot'[j] = slot[j]
      BY <3>4, <2>2, <2>a DEF PlaceInv
    <3>. QED
      BY <3>1, <3>2, <3>3, <3>4
  <2>3. \A p, q \in 1..Len(backlog') : backlog'[p] = backlog'[q] => p = q
    <3>1. \A p, q \in 1..Len(backlog') : backlog'[p] = backlog'[q] => p + taken = q + taken
      BY <1>6 DEF PlaceInv
    <3>. QED
      BY SMTT(30), <3>1, <1>5, <1>6, <1>4
  <2>4. ASSUME NEW p \in 1..Len(backlog'), NEW i \in Slots, slot'[i].fd = backlog'[p] PROVE FALSE
    <3>1. p + taken \in 1..Len(backlog) /\ slot'[i].fd = backlog[p + taken]
      BY <2>4, <1>6
    <3>2. slot'[i] # slot[i]
      BY <3>1 DEF PlaceInv
    <3>3. Rank(i) \in 1..taken /\ Rank(i) \in 1..Len(backlog) /\ backlog[Rank(i)] = backlog[p + taken]
      BY <3>1, <3>2, <1>7
    <3>4. Rank(i) = p + taken
      BY <3>1, <3>3 DEF PlaceInv
    <3>. QED
      BY <3>3, <3>4, <1>4, <1>5
  <2>5. \A i \in Slots : slot'[i].fd # NoConn => peer[slot'[i].fd] # "new"
    <3>1. ASSUME NEW i \in Slots, slot'[i].fd # NoConn, slot'[i] # slot[i] PROVE peer[slot'[i].fd] # "new"
      <4>1. PICK p \in 1..Len(backlog) : slot'[i].fd = backlog[p]
        BY <3>1, <2>a
      <4>. QED
        BY <4>1 DEF PlaceInv
    <3>2. ASSUME NEW i \in Slots, slot'[i].fd # NoConn, slot'[i] = slot[i] PROVE peer[slot'[i].fd] # "new"
      BY <3>2 DEF PlaceInv
    <3>. QED
      BY <3>1, <3>2
  <2>6. \A p \in 1..Len(backlog') : peer[backlog'[p]] # "new"
    BY <1>6 DEF PlaceInv
  <2>. QED
    BY <2>1, <2>2, <2>3, <2>4, <2>5, <2>6, <1>1 DEF PlaceInv
<1>12. Leaves
  <2>1. ASSUME NEW k \in Conns, Left(k) PROVE Left(k)'
    <3>1. \A i \in Slots : slot'[i].fd # k
      BY <2>1, <1>7 DEF Left
    <3>2. \A p \in 1..Len(backlog') : backlog'[p] # k
      BY <2>1, <1>6 DEF Left
    <3>. QED
      BY <2>1, <3>1, <3>2, <1>1 DEF Left
  <2>2. \A k \in Conns, j \in Slots : slot[j].fd = k => slot'[j].fd = k
    BY <1>7, <1>9, Connections
  <2>. QED
    BY <2>1, <2>2 DEF Leaves
<1>13. \A i \in Slots :
                \/ slot'[i] = slot[i]
                \/ /\ slot[i].fd = NoConn
                   /\ \E p \in 1..Len(backlog) : slot'[i] = [NoClient EXCEPT !.fd = backlog[p]]
  BY <1>7, <1>9
<1>. QED
  BY <1>6, <1>8, <1>11, <1>12, <1>13
-----------------------------------------------------------------------------

\* The innermost call.
LEMMA TopFacts ==
    ASSUME CdpTypes, stack # <<>>
    PROVE  /\ Top = stack[1] /\ Top \in Calls /\ Len(stack) \in Nat \ {0} /\ 1 \in 1..Len(stack)
           /\ Top.call # "script" => ~Asks(stack[1])
<1>1. stack \in Seq(Calls)
  BY DEF CdpTypes
<1>2. Top = stack[1] /\ Top \in Calls /\ Len(stack) \in Nat \ {0}
  BY <1>1, PopFacts DEF Top
<1>. QED
  BY <1>2 DEF Asks

\* A poll that serves a client is at its slot.
LEMMA PollFacts ==
    ASSUME CdpTypes, NEW at \in {"serve", "frames"}, In("poll", at)
    PROVE  /\ stack # <<>> /\ Top.call = "poll" /\ Top.call # "pause" /\ Top.i \in Slots
           /\ ~Asks(stack[1]) /\ slot[Top.i] \in Client0
<1>1. stack # <<>> /\ Top.call = "poll" /\ Top.at = at
  BY DEF In
<1>2. Top \in Calls /\ ~Asks(stack[1])
  BY <1>1, TopFacts
<1>3. Top.i \in Slots
  BY <1>1, <1>2, CallTypes
<1>. QED
  BY <1>1, <1>2, <1>3 DEF CdpTypes

\* Nothing is written.
LEMMA CutSame ==
    ASSUME CutInv, Leaves, UNCHANGED <<cut, mixed>>
    PROVE  CutInv'
BY DEF CutInv, Leaves

\* The other parts of CdpInv follow.
LEMMA Settled ==
    ASSUME CdpInv, CdpTypes', PauseOK(stack', paused'), PlaceInv', Leaves, CutInv',
           OldAsks, held \subseteq held', AnswerInv'
    PROVE  CdpInv'
<1>1. AskInv'
  BY AskOld DEF CdpInv
<1>. QED
  BY <1>1 DEF CdpInv

\* A poll begins and accepts.
LEMMA PollStartsInv == ASSUME CdpInv, PollStarts PROVE CdpInv'
<1>. USE DEF history
<1>1. CdpTypes /\ PauseOK(stack, paused) /\ PlaceInv /\ CutInv /\ AskInv /\ AnswerInv
  BY DEF CdpInv
<1>2. /\ stack # <<>> => Top.call = "pause"
      /\ Call(NextClient(slot', 0))
      /\ UNCHANGED <<script, sent, peer, wire, paused, attached, runs, got, answers, held, cut, mixed>>
  BY DEF PollStarts
<1>3. slot' \in [Slots -> Client0] /\ backlog' \in Seq(Conns) /\ PlaceInv' /\ Leaves
  BY <1>1, AcceptFacts
<1>4. PICK f : f = NextClient(slot', 0)
  OBVIOUS
<1>5. f \in Calls /\ f.call = "poll" /\ Call(f)
  BY <1>2, <1>4, NextClientType
<1>6. /\ stack' \in Seq(Calls) /\ PauseOK(stack', paused) /\ stack'[1] = f
      /\ \A p \in 2..Len(stack') : p - 1 \in 1..Len(stack) /\ stack'[p] = stack[p - 1]
      /\ Len(stack') = Len(stack) + 1 /\ Len(stack) \in Nat
  BY <1>1, <1>5, PushedFacts
<1>7. stack # <<>> => ~Asks(stack[1])
  BY <1>1, <1>2, TopFacts
<1>8. OldAsks
  <2>1. ASSUME NEW p \in 1..Len(stack'), Asks(stack'[p])
        PROVE  \E q \in 2..Len(stack) : stack[q] = stack'[p]
    <3>1. p # 1
      BY <2>1, <1>5, <1>6 DEF Asks
    <3>2. p \in 2..Len(stack')
      BY <3>1, <1>6
    <3>3. p - 1 \in 1..Len(stack) /\ stack'[p] = stack[p - 1]
      BY <3>2, <1>6
    <3>4. stack # <<>>
      BY <3>3, <1>1 DEF CdpTypes
    <3>5. p - 1 # 1
      BY <3>3, <3>4, <1>7, <2>1
    <3>. QED
      BY <3>3, <3>5, <1>6
  <2>. QED
    BY <2>1 DEF OldAsks
<1>9. CdpTypes'
  BY <1>1, <1>2, <1>3, <1>6 DEF CdpTypes
<1>10. CutInv' /\ AnswerInv'
  BY <1>1, <1>2, <1>3, CutSame, AnswerSame
<1>. QED
  BY <1>2, <1>3, <1>6, <1>8, <1>9, <1>10, Settled

\* The poll goes on with the next client after a change of its slot.
LEMMA ServedInv ==
    ASSUME CdpInv, NEW at \in {"serve", "frames"}, In("poll", at), Kept(slot'),
           NEW f \in Calls, f.call = "poll", Become(f),
           wire' \in [Conns -> Seq(Items)], Leaves => CutInv',
           cut' \in [Conns -> {"no", "checked", "unchecked"}], mixed' \subseteq Conns,
           UNCHANGED <<script, sent, peer, backlog, paused, attached, runs, got, answers, held>>
    PROVE  CdpInv'
<1>1. CdpTypes /\ PauseOK(stack, paused) /\ PlaceInv /\ CutInv /\ AskInv /\ AnswerInv
  BY DEF CdpInv
<1>2. PlaceInv' /\ Leaves /\ slot' \in [Slots -> Client0]
  BY <1>1, SlotsShrink DEF Kept
<1>3. stack' \in Seq(Calls) /\ PauseOK(stack', paused) /\ OldAsks
  BY <1>1, PollFacts, BecomeFacts
<1>4. CdpTypes'
  BY <1>1, <1>2, <1>3 DEF CdpTypes
<1>5. CutInv' /\ AnswerInv'
  BY <1>1, <1>2, AnswerSame
<1>. QED
  BY <1>2, <1>3, <1>4, <1>5, Settled

\* A slot is emptied.
LEMMA EmptiedKept ==
    ASSUME CdpTypes, PlaceInv, NEW i \in Slots
    PROVE  Kept([slot EXCEPT ![i] = NoClient])
<1>1. slot \in [Slots -> Client0]
  BY DEF CdpTypes
<1>2. [slot EXCEPT ![i] = NoClient] \in [Slots -> Client0]
  BY <1>1, NoClientType
<1>3. \A j \in Slots : [slot EXCEPT ![i] = NoClient][j] = IF j = i THEN NoClient ELSE slot[j]
  BY <1>1
<1>. QED
  BY <1>2, <1>3 DEF Kept, PlaceInv

\* A slot whose client stays.
LEMMA UpdatedKept ==
    ASSUME CdpTypes, PlaceInv, NEW i \in Slots, slot[i].fd # NoConn,
           NEW c \in Client0, c.fd = slot[i].fd
    PROVE  Kept([slot EXCEPT ![i] = c])
<1>1. slot \in [Slots -> Client0]
  BY DEF CdpTypes
<1>2. [slot EXCEPT ![i] = c] \in [Slots -> Client0]
  BY <1>1
<1>3. \A j \in Slots : [slot EXCEPT ![i] = c][j] = IF j = i THEN c ELSE slot[j]
  BY <1>1
<1>. QED
  BY <1>2, <1>3 DEF Kept, PlaceInv

\* Everything that has arrived is received.
LEMMA WireEmptied ==
    ASSUME CdpTypes, NEW k
    PROVE  [wire EXCEPT ![k] = <<>>] \in [Conns -> Seq(Items)]
<1>1. wire \in [Conns -> Seq(Items)] /\ <<>> \in Seq(Items)
  BY DEF CdpTypes
<1>. QED
  BY <1>1

\* recv() says that the client is gone.
LEMMA EndedInv == ASSUME CdpInv, Ended PROVE CdpInv'
<1>. USE DEF history
<1>1. CdpTypes /\ PlaceInv /\ CutInv
  BY DEF CdpInv
<1>2. /\ In("poll", "serve") /\ slot[Top.i].fd # NoConn
      /\ wire' = [wire EXCEPT ![slot[Top.i].fd] = <<>>]
      /\ slot' = [slot EXCEPT ![Top.i] = NoClient]
      /\ Become(NextClient(slot, Top.i))
      /\ UNCHANGED <<script, sent, peer, backlog, paused, attached, runs, got, answers, held, cut, mixed>>
  BY DEF Ended
<1>3. Top.i \in Slots
  BY <1>1, <1>2, PollFacts
<1>4. Kept(slot')
  BY <1>1, <1>2, <1>3, EmptiedKept
<1>5. wire' \in [Conns -> Seq(Items)]
  BY <1>1, <1>2, WireEmptied
<1>6. NextClient(slot, Top.i) \in Calls /\ NextClient(slot, Top.i).call = "poll"
  BY <1>3, NextClientType
<1>7. Leaves => CutInv'
  BY <1>1, <1>2, CutSame
<1>8. cut' \in [Conns -> {"no", "checked", "unchecked"}] /\ mixed' \subseteq Conns
  BY <1>1, <1>2 DEF CdpTypes
<1>. QED
  BY <1>2, <1>4, <1>5, <1>6, <1>7, <1>8, ServedInv

\* The items behind the first.
LEMMA TailType ==
    ASSUME NEW s \in Seq(Items), s # <<>>
    PROVE  Head(s) \in Items /\ Tail(s) \in Seq(Items)
OBVIOUS

\* What was received, and what is received now.
LEMMA JoinType ==
    ASSUME NEW s \in Seq(Items), NEW t \in Seq(Items)
    PROVE  s \o t \in Seq(Items)
OBVIOUS

\* A client is read, and its request head answered.
LEMMA ServeInv == ASSUME CdpInv, Serve PROVE CdpInv'
<1>. USE DEF history
<1>1. CdpTypes /\ PlaceInv /\ CutInv
  BY DEF CdpInv
<1>2. In("poll", "serve") /\ slot[Top.i].fd # NoConn
  BY DEF Serve
<1>3. PICK i \in Slots : i = Top.i
  BY <1>1, <1>2, PollFacts
<1>4. PICK k \in Conns : k = slot[i].fd
  BY <1>1, <1>2, <1>3 DEF CdpTypes, Client0
<1>5. slot[i] \in Client0 /\ slot[i].rx \in Seq(Items) /\ wire[k] \in Seq(Items) /\ slot \in [Slots -> Client0]
  BY <1>1 DEF CdpTypes, Client0
<1>6. PICK rx \in Seq(Items) : rx = slot[i].rx \o wire[k]
  BY <1>5, JoinType
<1>7. PICK request : request = IF slot[i].upgraded THEN "none" ELSE RequestHead(rx)
  OBVIOUS
<1>8. /\ wire' = [wire EXCEPT ![k] = <<>>]
      /\ \/ /\ request = "none"
            /\ slot' = [slot EXCEPT ![i].rx = rx]
            /\ Become(IF rx = <<>> THEN NextClient(slot, i) ELSE Poll("frames", i))
         \/ /\ request = "partial"
            /\ slot' = [slot EXCEPT ![i].rx = rx]
            /\ Become(NextClient(slot, i))
         \/ /\ request = "upgrade"
            /\ slot' = [slot EXCEPT ![i].rx = BehindHead(rx), ![i].upgraded = TRUE]
            /\ Become(Poll("frames", i))
         \/ /\ request = "other" \/ (request = "upgrade" /\ k \in Flaky)
            /\ slot' = [slot EXCEPT ![i] = NoClient]
            /\ Become(NextClient(slot, i))
      /\ UNCHANGED <<script, sent, peer, backlog, paused, attached, runs, got, answers, held, cut, mixed>>
  BY <1>3, <1>4, <1>6, <1>7 DEF Serve
<1>9. wire' \in [Conns -> Seq(Items)]
  BY <1>1, <1>8, WireEmptied
<1>10. NextClient(slot, i) \in Calls /\ NextClient(slot, i).call = "poll"
  BY NextClientType
<1>11. Poll("frames", i) \in Calls /\ Poll("frames", i).call = "poll"
  BY DEF Poll, Calls
<1>12. \E f \in Calls : f.call = "poll" /\ Become(f)
  BY <1>8, <1>10, <1>11
<1>13. Kept(slot')
  <2>1. CASE slot' = [slot EXCEPT ![i].rx = rx]
    <3>1. [slot[i] EXCEPT !.rx = rx] \in Client0 /\ [slot[i] EXCEPT !.rx = rx].fd = slot[i].fd
      BY <1>5 DEF Client0
    <3>2. slot' = [slot EXCEPT ![i] = [slot[i] EXCEPT !.rx = rx]]
      BY <2>1
    <3>. QED
      BY <3>1, <3>2, <1>1, <1>2, <1>3, UpdatedKept
  <2>2. CASE request = "upgrade" /\ slot' = [slot EXCEPT ![i].rx = BehindHead(rx), ![i].upgraded = TRUE]
    <3>1. rx # <<>>
      BY <2>2, <1>7 DEF RequestHead
    <3>2. BehindHead(rx) \in Seq(Items)
      <4>1. rx[1].op = "upgrade" => BehindHead(rx) = Tail(rx)
        BY DEF BehindHead
      <4>2. rx[1].op # "upgrade" => BehindHead(rx) = SubSeq(rx, 3, Len(rx))
        BY DEF BehindHead
      <4>3. Tail(rx) \in Seq(Items)
        BY <3>1, TailType
      <4>4. SubSeq(rx, 3, Len(rx)) \in Seq(Items)
        OBVIOUS
      <4>. QED
        BY <4>1, <4>2, <4>3, <4>4
    <3>3. PICK b \in Seq(Items) : b = BehindHead(rx)
      BY <3>2
    <3>4. [slot[i] EXCEPT !.rx = b, !.upgraded = TRUE] \in Client0
          /\ [slot[i] EXCEPT !.rx = b, !.upgraded = TRUE].fd = slot[i].fd
      BY <1>5 DEF Client0
    <3>5. slot' = [slot EXCEPT ![i] = [slot[i] EXCEPT !.rx = b, !.upgraded = TRUE]]
      BY <2>2, <3>3, <1>5
    <3>. QED
      BY <3>4, <3>5, <1>1, <1>2, <1>3, UpdatedKept
  <2>3. CASE slot' = [slot EXCEPT ![i] = NoClient]
    BY <2>3, <1>1, EmptiedKept
  <2>. QED
    BY <2>1, <2>2, <2>3, <1>8
<1>14. Leaves => CutInv'
  BY <1>1, <1>8, CutSame
<1>15. cut' \in [Conns -> {"no", "checked", "unchecked"}] /\ mixed' \subseteq Conns
  BY <1>1, <1>8 DEF CdpTypes
<1>. QED
  BY SMTT(30), <1>2, <1>8, <1>9, <1>12, <1>13, <1>14, <1>15, ServedInv

\* The slot that a frame is decoded in.
LEMMA DecodingFacts ==
    ASSUME CdpInv, Decoding
    PROVE  /\ In("poll", "frames") /\ stack # <<>> /\ Top.call = "poll" /\ ~Asks(stack[1])
           /\ Top.i \in Slots /\ slot \in [Slots -> Client0] /\ slot[Top.i] \in Client0
           /\ slot[Top.i].rx \in Seq(Items) /\ slot[Top.i].rx # <<>>
           /\ slot[Top.i].frag \in Seq(Items) /\ slot[Top.i].fd \in Conns /\ slot[Top.i].fd # NoConn
           /\ Item \in Items /\ Tail(slot[Top.i].rx) \in Seq(Items)
<1>1. In("poll", "frames") /\ slot[Top.i].rx # <<>>
  BY DEF Decoding
<1>2. CdpTypes /\ PlaceInv
  BY DEF CdpInv
<1>3. Top.i \in Slots /\ stack # <<>> /\ Top.call = "poll" /\ ~Asks(stack[1]) /\ slot[Top.i] \in Client0
  BY <1>1, <1>2, PollFacts
<1>4. /\ slot \in [Slots -> Client0] /\ slot[Top.i].rx \in Seq(Items)
      /\ slot[Top.i].frag \in Seq(Items) /\ slot[Top.i].fd \in Conns \cup {NoConn}
  BY <1>2, <1>3 DEF CdpTypes, Client0
<1>5. slot[Top.i].fd # NoConn
  BY <1>1, <1>2, <1>3, NoClientType DEF PlaceInv
<1>6. Item \in Items /\ Tail(slot[Top.i].rx) \in Seq(Items)
  BY <1>1, <1>4, TailType DEF Item
<1>. QED
  BY <1>1, <1>3, <1>4, <1>5, <1>6

\* The first item of a slot is consumed.
LEMMA ConsumedFacts ==
    ASSUME CdpInv, Decoding
    PROVE  /\ Consumed = [slot EXCEPT ![Top.i] = [slot[Top.i] EXCEPT !.rx = Tail(slot[Top.i].rx)]]
           /\ Kept(Consumed) /\ \A j \in Slots : j # Top.i => Consumed[j] = slot[j]
           /\ \A g \in Seq(Items) : Kept([Consumed EXCEPT ![Top.i].frag = g])
<1>1. CdpTypes /\ PlaceInv
  BY DEF CdpInv
<1>2. PICK i \in Slots : i = Top.i
  BY DecodingFacts
<1>3. /\ slot \in [Slots -> Client0] /\ slot[i] \in Client0 /\ Tail(slot[i].rx) \in Seq(Items)
      /\ slot[i].fd # NoConn
  BY <1>2, DecodingFacts
<1>4. PICK t \in Seq(Items) : t = Tail(slot[i].rx)
  BY <1>3
<1>5. Consumed = [slot EXCEPT ![i] = [slot[i] EXCEPT !.rx = t]]
  BY <1>2, <1>4 DEF Consumed
<1>6. [slot[i] EXCEPT !.rx = t] \in Client0 /\ [slot[i] EXCEPT !.rx = t].fd = slot[i].fd
  BY <1>3 DEF Client0
<1>7. Kept(Consumed)
  BY <1>1, <1>3, <1>5, <1>6, UpdatedKept
<1>8. ASSUME NEW g \in Seq(Items) PROVE Kept([Consumed EXCEPT ![i].frag = g])
  <2>1. PICK c \in Client0 : c = [slot[i] EXCEPT !.rx = t]
    BY <1>6
  <2>2. [c EXCEPT !.frag = g] \in Client0 /\ [c EXCEPT !.frag = g].fd = c.fd
    BY DEF Client0
  <2>3. Consumed = [slot EXCEPT ![i] = c]
    BY <1>5, <2>1
  <2>4. [Consumed EXCEPT ![i].frag = g] = [slot EXCEPT ![i] = [c EXCEPT !.frag = g]]
    BY <2>3, <1>3
  <2>. QED
    BY <1>1, <1>3, <1>6, <2>1, <2>2, <2>4, UpdatedKept
<1>9. \A j \in Slots : j # i => Consumed[j] = slot[j]
  BY <1>3, <1>5
<1>. QED
  BY <1>2, <1>4, <1>5, <1>7, <1>8, <1>9

\* The fragment buffer holds items.
LEMMA FragAppendType ==
    ASSUME NEW parts \in Seq(Items), NEW item \in Items
    PROVE  FragAppend(parts, item) \in Seq(Items)
<1>1. Append(parts, item) \in Seq(Items) /\ <<>> \in Seq(Items)
  OBVIOUS
<1>2. FragAppend(parts, item) \in {parts, <<>>, Append(parts, item)}
  BY DEF FragAppend
<1>. QED
  BY <1>1, <1>2

\* A frame is decoded and the poll stays where it is.
LEMMA DecodedInv ==
    ASSUME CdpInv, Decoding, Kept(slot'), Leaves => CutInv',
           cut' \in [Conns -> {"no", "checked", "unchecked"}], mixed' \subseteq Conns,
           UNCHANGED <<peers, stack, paused, attached, runs, answers, held>>,
           got' \in [Conns -> Seq(Seq(Items))]
    PROVE  CdpInv'
<1>1. CdpTypes /\ PauseOK(stack, paused) /\ PlaceInv /\ CutInv /\ AskInv /\ AnswerInv
  BY DEF CdpInv
<1>2. ~Asks(stack[1])
  BY DecodingFacts
<1>3. UNCHANGED <<script, sent, peer, backlog, wire>>
  BY DEF peers
<1>4. PlaceInv' /\ Leaves /\ slot' \in [Slots -> Client0]
  BY <1>1, <1>3, SlotsShrink DEF Kept
<1>5. OldAsks
  BY <1>1, <1>2, SameFacts
<1>6. CdpTypes'
  BY <1>1, <1>3, <1>4 DEF CdpTypes
<1>7. CutInv' /\ AnswerInv'
  BY <1>1, <1>4, AnswerSame
<1>. QED
  BY <1>1, <1>4, <1>5, <1>6, <1>7, Settled

\* A ping is decoded.
LEMMA DecodePingInv == ASSUME CdpInv, DecodePing PROVE CdpInv'
<1>1. CdpTypes /\ CutInv /\ got \in [Conns -> Seq(Seq(Items))]
  BY DEF CdpInv, CdpTypes
<1>2. /\ Decoding /\ slot' = Consumed
      /\ UNCHANGED <<peers, stack, paused, attached, runs, got, answers, held>>
  BY DEF DecodePing
<1>3. PICK F \in SUBSET (Flaky \cap {slot[Top.i].fd}) : Write({slot[Top.i].fd}, F, "unchecked")
  BY DEF DecodePing
<1>4. Kept(slot')
  BY <1>2, ConsumedFacts
<1>5. PICK k \in Conns : k = slot[Top.i].fd /\ Top.i \in Slots
  BY <1>2, DecodingFacts
<1>6. F \subseteq {k} /\ {k} \subseteq Conns /\ Write({k}, F, "unchecked")
      /\ \A l \in {k} : \E j \in Slots : slot[j].fd = l
  BY <1>3, <1>5
<1>7. /\ Leaves => CutInv' 
      /\ Leaves => cut' \in [Conns -> {"no", "checked", "unchecked"}] /\ mixed' \subseteq Conns
  BY <1>1, <1>6, WriteFacts
<1>8. Leaves
  BY <1>1, <1>2, <1>4, SlotsShrink DEF CdpInv, peers
<1>. QED
  BY <1>1, <1>2, <1>4, <1>7, <1>8, DecodedInv

\* A close or a frame too large is decoded.
LEMMA DecodeLastInv == ASSUME CdpInv, DecodeLast PROVE CdpInv'
<1>1. CdpTypes /\ PlaceInv /\ CutInv
  BY DEF CdpInv
<1>2. /\ Decoding /\ slot' = [slot EXCEPT ![Top.i] = NoClient]
      /\ Become(NextClient(slot, Top.i))
      /\ UNCHANGED <<script, sent, peer, backlog, wire, paused, attached, runs, got, answers, held>>
  BY DEF DecodeLast, peers
<1>3. PICK k \in Conns : k = slot[Top.i].fd /\ Top.i \in Slots /\ In("poll", "frames")
  BY <1>2, DecodingFacts
<1>4. Kept(slot')
  BY <1>1, <1>2, <1>3, EmptiedKept
<1>5. Leaves
  BY <1>1, <1>2, <1>4, SlotsShrink
<1>6. CutInv' /\ cut' \in [Conns -> {"no", "checked", "unchecked"}] /\ mixed' \subseteq Conns
  <2>1. CASE Item.op = "close"
    <3>1. PICK F \in SUBSET (Flaky \cap {slot[Top.i].fd}) : Write({slot[Top.i].fd}, F, "unchecked")
      BY <2>1 DEF DecodeLast
    <3>2. F \subseteq {k} /\ {k} \subseteq Conns /\ Write({k}, F, "unchecked")
          /\ \A l \in {k} : \E j \in Slots : slot[j].fd = l
      BY <3>1, <1>3
    <3>. QED
      BY <1>1, <1>5, <3>2, WriteFacts
  <2>2. CASE Item.op # "close"
    <3>1. UNCHANGED <<cut, mixed>>
      BY <2>2 DEF DecodeLast
    <3>. QED
      BY <3>1, <1>1, <1>5, CutSame DEF CdpTypes
  <2>. QED
    BY <2>1, <2>2
<1>7. NextClient(slot, Top.i) \in Calls /\ NextClient(slot, Top.i).call = "poll"
  BY <1>3, NextClientType
<1>8. wire' \in [Conns -> Seq(Items)]
  BY <1>1, <1>2 DEF CdpTypes
<1>. QED
  BY <1>2, <1>3, <1>4, <1>6, <1>7, <1>8, ServedInv

\* A fragment is decoded.
LEMMA DecodeFragmentInv == ASSUME CdpInv, DecodeFragment PROVE CdpInv'
<1>1. CdpTypes /\ CutInv /\ got \in [Conns -> Seq(Seq(Items))]
      /\ cut \in [Conns -> {"no", "checked", "unchecked"}] /\ mixed \subseteq Conns
  BY DEF CdpInv, CdpTypes
<1>2. /\ Decoding
      /\ slot' = [Consumed EXCEPT ![Top.i].frag =
                    FragAppend(IF Item.op = "text" THEN <<>> ELSE @, Item)]
      /\ UNCHANGED <<peers, stack, paused, attached, runs, got, answers, held, cut, mixed>>
  BY DEF DecodeFragment, history
<1>3. PICK g \in Seq(Items) : slot' = [Consumed EXCEPT ![Top.i].frag = g]
  <2>1. PICK p : p = IF Item.op = "text" THEN <<>> ELSE Consumed[Top.i].frag
    OBVIOUS
  <2>2. slot' = [Consumed EXCEPT ![Top.i].frag = FragAppend(p, Item)]
    BY <1>2, <2>1
  <2>3. Consumed[Top.i].frag \in Seq(Items) /\ <<>> \in Seq(Items)
    <3>1. Consumed[Top.i] \in Client0
      BY <1>2, ConsumedFacts, DecodingFacts DEF Kept
    <3>. QED
      BY <3>1 DEF Client0
  <2>4. p \in Seq(Items) /\ Item \in Items
    BY <2>1, <2>3, <1>2, DecodingFacts
  <2>. QED
    BY <2>2, <2>4, FragAppendType
<1>4. Kept(slot')
  BY <1>2, <1>3, ConsumedFacts
<1>5. Leaves => CutInv'
  BY <1>1, <1>2, CutSame
<1>. QED
  BY <1>1, <1>2, <1>4, <1>5, DecodedInv

\* The start of a request head is taken for a frame.
LEMMA DecodeHeadInv == ASSUME CdpInv, DecodeHead PROVE CdpInv'
<1>1. CdpTypes /\ CutInv /\ PlaceInv /\ got \in [Conns -> Seq(Seq(Items))]
      /\ cut \in [Conns -> {"no", "checked", "unchecked"}] /\ mixed \subseteq Conns
      /\ wire \in [Conns -> Seq(Items)]
  BY DEF CdpInv, CdpTypes
<1>2. /\ Decoding
      /\ UNCHANGED <<peers, paused, attached, runs, got, answers, held, cut, mixed>>
  BY DEF DecodeHead, history
<1>3. Leaves => CutInv'
  BY <1>1, <1>2, CutSame
<1>4. CASE slot' = [Consumed EXCEPT ![Top.i].frag = FragAppend(@, Item)] /\ UNCHANGED stack
  <2>1. Consumed[Top.i].frag \in Seq(Items) /\ Item \in Items
    <3>1. Consumed[Top.i] \in Client0
      BY <1>2, ConsumedFacts, DecodingFacts DEF Kept
    <3>. QED
      BY <3>1, <1>2, DecodingFacts DEF Client0
  <2>2. PICK g \in Seq(Items) : g = FragAppend(Consumed[Top.i].frag, Item)
    BY <2>1, FragAppendType
  <2>3. slot' = [Consumed EXCEPT ![Top.i].frag = g]
    BY <1>4, <2>2
  <2>4. Kept(slot')
    BY <1>2, <2>3, ConsumedFacts
  <2>. QED
    BY <1>1, <1>2, <1>3, <1>4, <2>4, DecodedInv
<1>5. CASE slot' = slot /\ Become(NextClient(slot, Top.i))
  <2>1. Kept(slot')
    BY <1>1, <1>5 DEF Kept, PlaceInv, CdpTypes
  <2>2. In("poll", "frames") /\ Top.i \in Slots
    BY <1>2, DecodingFacts
  <2>3. NextClient(slot, Top.i) \in Calls /\ NextClient(slot, Top.i).call = "poll"
    BY <2>2, NextClientType
  <2>. QED
    BY <1>1, <1>2, <1>3, <1>5, <2>1, <2>2, <2>3, ServedInv DEF peers
<1>. QED
  BY <1>4, <1>5 DEF DecodeHead

\* A client has no complete frame left.
LEMMA FramesDoneInv == ASSUME CdpInv, FramesDone PROVE CdpInv'
<1>1. CdpTypes /\ CutInv /\ PlaceInv
      /\ cut \in [Conns -> {"no", "checked", "unchecked"}] /\ mixed \subseteq Conns
      /\ wire \in [Conns -> Seq(Items)]
  BY DEF CdpInv, CdpTypes
<1>2. /\ In("poll", "frames") /\ Become(NextClient(slot, Top.i)) /\ UNCHANGED slot
      /\ UNCHANGED <<script, sent, peer, backlog, wire, paused, attached, runs, got, answers, held, cut, mixed>>
  BY DEF FramesDone, history, peers
<1>3. Leaves => CutInv'
  BY <1>1, <1>2, CutSame
<1>4. Kept(slot')
  BY <1>1, <1>2 DEF Kept, PlaceInv, CdpTypes
<1>5. Top.i \in Slots
  BY <1>1, <1>2, PollFacts
<1>6. NextClient(slot, Top.i) \in Calls /\ NextClient(slot, Top.i).call = "poll"
  BY <1>5, NextClientType
<1>. QED
  BY <1>1, <1>2, <1>3, <1>4, <1>6, ServedInv

\* A poll ends.
LEMMA FlushInv == ASSUME CdpInv, Flush PROVE CdpInv'
<1>1. CdpTypes /\ PauseOK(stack, paused) /\ PlaceInv /\ CutInv /\ AskInv /\ AnswerInv
  BY DEF CdpInv
<1>2. /\ stack # <<>> /\ Top.call # "pause" /\ Return
      /\ Broadcast(slot) \/ UNCHANGED <<slot, cut, mixed>>
      /\ UNCHANGED <<script, sent, peer, backlog, wire, paused, attached, runs, got, answers, held>>
  BY DEF Flush, In, peers
<1>3. Kept(slot)
  BY <1>1 DEF Kept, PlaceInv, CdpTypes
<1>4. Kept(slot') /\ PlaceInv' /\ Leaves /\ CutInv' /\ mixed' \subseteq Conns
      /\ cut' \in [Conns -> {"no", "checked", "unchecked"}]
  <2>1. CASE Broadcast(slot)
    BY <2>1, <1>1, <1>2, <1>3, BroadcastFacts
  <2>2. CASE UNCHANGED <<slot, cut, mixed>>
    <3>1. PlaceInv' /\ Leaves
      BY <2>2, <1>1, <1>2, SlotsSame
    <3>. QED
      BY <3>1, <2>2, <1>1, <1>3, CutSame DEF CdpTypes, Kept
  <2>. QED
    BY <2>1, <2>2, <1>2
<1>5. stack' \in Seq(Calls) /\ PauseOK(stack', paused) /\ OldAsks
  BY <1>1, <1>2, ReturnFacts
<1>6. CdpTypes'
  BY <1>1, <1>2, <1>4, <1>5 DEF CdpTypes, Kept
<1>7. AnswerInv'
  BY <1>1, <1>2, <1>4, AnswerSame
<1>. QED
  BY <1>2, <1>4, <1>5, <1>6, <1>7, Settled

\* A call is made: the script below it, if a client asked for it, is held.
LEMMA AskPushed ==
    ASSUME CdpTypes, AskInv, Leaves, held \subseteq held', NEW f \in Calls, Call(f),
           Asks(f) => slot'[f.i].fd = f.of,
           stack # <<>> /\ Asks(stack[1]) => Asked0(stack[1]) \in held'
    PROVE  AskInv'
<1>1. /\ Len(stack') = Len(stack) + 1 /\ Len(stack) \in Nat /\ stack'[1] = f
      /\ \A p \in 2..Len(stack') : p - 1 \in 1..Len(stack) /\ stack'[p] = stack[p - 1]
  BY PushedFacts
<1>2. ASSUME NEW p \in 1..Len(stack'), NEW g, g = stack'[p], Asks(g)
      PROVE  /\ slot'[g.i].fd = g.of \/ (Left(g.of)' /\ Asked0(g) \in held')
             /\ p > 1 => Asked0(g) \in held'
  <2>1. CASE p = 1
    BY <2>1, <1>1, <1>2
  <2>2. CASE p # 1
    <3>1. p \in 2..Len(stack')
      BY <2>2, <1>1
    <3>2. PICK q \in 1..Len(stack) : g = stack[q]
      BY <3>1, <1>1, <1>2
    <3>3. g \in Calls /\ stack # <<>>
      BY <3>2 DEF CdpTypes
    <3>4. g.of \in Conns /\ g.i \in Slots
      BY <1>2, <3>3, CallTypes
    <3>5. /\ slot[g.i].fd = g.of \/ (Left(g.of) /\ Asked0(g) \in held)
          /\ q > 1 => Asked0(g) \in held
      BY <1>2, <3>2 DEF AskInv
    <3>6. Asked0(g) \in held'
      <4>1. CASE q = 1
        BY <4>1, <1>2, <3>2, <3>3
      <4>2. CASE q # 1
        BY <4>2, <3>5, <3>2
      <4>. QED
        BY <4>1, <4>2
    <3>. QED
      BY <3>4, <3>5, <3>6 DEF Leaves
  <2>. QED
    BY <2>1, <2>2
<1>3. \A p \in 1..Len(stack') : \A g : g = stack'[p] /\ Asks(g) =>
             /\ slot'[g.i].fd = g.of \/ (Left(g.of)' /\ Asked0(g) \in held')
             /\ p > 1 => Asked0(g) \in held'
  BY <1>2
<1>. QED
  BY <1>3 DEF AskInv, Asks, Asked0, Left

\* The page runs a script.
LEMMA PageScriptInv == ASSUME CdpInv, PageScript PROVE CdpInv'
<1>1. CdpTypes /\ PauseOK(stack, paused) /\ PlaceInv /\ CutInv /\ AskInv /\ AnswerInv
  BY DEF CdpInv
<1>2. /\ stack = <<>> /\ runs > 0 /\ runs' = runs - 1 /\ Call(ScriptCall(0, NoConn, 0))
      /\ UNCHANGED <<script, sent, peer, backlog, wire, slot, paused, attached, got, answers, held, cut, mixed>>
  BY DEF PageScript, peers, history
<1>3. PICK f \in Calls : f = ScriptCall(0, NoConn, 0) /\ f.call # "pause" /\ ~Asks(f)
  <2>1. ScriptCall(0, NoConn, 0) \in Calls
    BY DEF ScriptCall, Calls
  <2>2. ScriptCall(0, NoConn, 0).call = "script" /\ ScriptCall(0, NoConn, 0).of = NoConn
    BY DEF ScriptCall
  <2>. QED
    BY <2>1, <2>2 DEF Asks
<1>4. PlaceInv' /\ Leaves
  BY <1>1, <1>2, SlotsSame
<1>5. stack' \in Seq(Calls) /\ PauseOK(stack', paused)
  BY <1>1, <1>2, <1>3, PushedFacts
<1>6. CdpTypes'
  BY <1>1, <1>2, <1>5 DEF CdpTypes
<1>7. CutInv' /\ AnswerInv'
  BY <1>1, <1>2, <1>4, CutSame, AnswerSame
<1>8. AskInv'
  BY <1>1, <1>2, <1>3, <1>4, AskPushed
<1>. QED
  BY <1>2, <1>4, <1>5, <1>6, <1>7, <1>8 DEF CdpInv

\* A script writes a line to the console.
LEMMA ScriptLogsInv == ASSUME CdpInv, ScriptLogs PROVE CdpInv'
<1>1. CdpTypes /\ PauseOK(stack, paused) /\ PlaceInv /\ CutInv /\ AskInv /\ AnswerInv
  BY DEF CdpInv
<1>2. UNCHANGED <<script, sent, peer, backlog, wire, slot, stack, paused, attached, runs, got, answers, held>>
  BY DEF ScriptLogs, peers
<1>3. PICK F \in SUBSET (Flaky \cap Upgraded(slot)) : Write(Upgraded(slot), F, "unchecked")
  BY DEF ScriptLogs
<1>4. Kept(slot)
  BY <1>1 DEF Kept, PlaceInv, CdpTypes
<1>5. PlaceInv' /\ Leaves
  BY <1>1, <1>2, SlotsSame
<1>6. Upgraded(slot) \subseteq Conns /\ \A k \in Upgraded(slot) : \E j \in Slots : slot[j].fd = k
  BY <1>1, <1>4, DropFacts
<1>7. F \subseteq Upgraded(slot)
  OBVIOUS
<1>8. CutInv' /\ mixed' \subseteq Conns /\ cut' \in [Conns -> {"no", "checked", "unchecked"}]
  BY <1>1, <1>3, <1>5, <1>6, <1>7, WriteFacts
<1>9. CdpTypes'
  BY <1>1, <1>2, <1>8 DEF CdpTypes
<1>10. AskInv' /\ AnswerInv'
  BY <1>1, <1>2, <1>5, AskSame, AnswerSame
<1>11. PauseOK(stack', paused')
  BY <1>1, <1>2
<1>. QED
  BY <1>5, <1>8, <1>9, <1>10, <1>11 DEF CdpInv

\* A pause on top of the stack has the flag set.
LEMMA PauseBegun ==
    ASSUME NEW stk \in Seq(Calls), NEW f \in Calls, f.call = "pause"
    PROVE  PauseOK(<<f>> \o stk, TRUE)
<1>1. Len(<<f>> \o stk) = Len(stk) + 1 /\ Len(stk) \in Nat /\ (<<f>> \o stk)[1] = f
  BY PushFacts0
<1>2. 1 \in 1..Len(<<f>> \o stk)
  BY <1>1
<1>. QED
  BY <1>1, <1>2 DEF PauseOK

\* A script stops.
LEMMA ScriptPausesInv == ASSUME CdpInv, ScriptPauses PROVE CdpInv'
<1>1. CdpTypes /\ PauseOK(stack, paused) /\ PlaceInv /\ CutInv /\ AskInv /\ AnswerInv
  BY DEF CdpInv
<1>2. /\ stack # <<>> /\ paused' = TRUE /\ Broadcast(slot) /\ Call(Pause(""))
      /\ held' = IF Top.of = NoConn THEN held ELSE held \cup {[of |-> Top.of, n |-> Top.n]}
      /\ UNCHANGED <<script, sent, peer, backlog, wire, attached, runs, got, answers>>
  BY DEF ScriptPauses, In, peers
<1>3. Top = stack[1] /\ Top \in Calls
  BY <1>1, <1>2, TopFacts
<1>4. Kept(slot)
  BY <1>1 DEF Kept, PlaceInv, CdpTypes
<1>5. Kept(slot') /\ PlaceInv' /\ Leaves /\ CutInv' /\ mixed' \subseteq Conns
      /\ cut' \in [Conns -> {"no", "checked", "unchecked"}]
  BY <1>1, <1>2, <1>4, BroadcastFacts
<1>6. PICK f \in Calls : f = Pause("") /\ f.call = "pause" /\ ~Asks(f)
  <2>1. Pause("") \in Calls
    BY DEF Pause, Calls
  <2>2. Pause("").call = "pause"
    BY DEF Pause
  <2>. QED
    BY <2>1, <2>2 DEF Asks
<1>7. stack' \in Seq(Calls) /\ PauseOK(stack', paused')
  <2>1. stack \in Seq(Calls) /\ stack' = <<f>> \o stack
    BY <1>1, <1>2, <1>6 DEF CdpTypes, Call
  <2>. QED
    BY <2>1, <1>2, <1>6, PauseBegun, PushFacts0
<1>8. held \subseteq held' /\ held' \subseteq Pair /\ (Asks(stack[1]) => Asked0(stack[1]) \in held')
  <2>1. held \subseteq Pair
    BY <1>1 DEF CdpTypes
  <2>2. CASE Top.of = NoConn
    BY <2>1, <2>2, <1>2, <1>3 DEF Asks
  <2>3. CASE Top.of # NoConn
    <3>1. Top.of \in Conns /\ Top.n \in Nat
      BY <2>3, <1>3, CallTypes
    <3>2. [of |-> Top.of, n |-> Top.n] \in Pair
      BY <3>1 DEF Pair
    <3>3. Asked0(stack[1]) = [of |-> Top.of, n |-> Top.n]
      BY <1>3 DEF Asked0
    <3>. QED
      BY <2>1, <2>3, <3>2, <3>3, <1>2
  <2>. QED
    BY <2>2, <2>3
<1>9. CdpTypes'
  <2>1. paused' \in BOOLEAN
    BY <1>2
  <2>. QED
    BY <1>1, <1>2, <1>5, <1>7, <1>8, <2>1 DEF CdpTypes, Kept
<1>10. AskInv'
  BY <1>1, <1>2, <1>5, <1>6, <1>8, AskPushed
<1>11. AnswerInv'
  BY <1>1, <1>2, <1>5, <1>8, AnswerSame
<1>. QED
  BY <1>5, <1>7, <1>9, <1>10, <1>11 DEF CdpInv

\* A stopped script goes on.
LEMMA PauseEndsInv == ASSUME CdpInv, PauseEnds PROVE CdpInv'
<1>1. CdpTypes /\ PauseOK(stack, paused) /\ PlaceInv /\ CutInv /\ AskInv /\ AnswerInv
  BY DEF CdpInv
<1>2. /\ stack # <<>> /\ paused' = FALSE /\ Broadcast(slot)
      /\ stack' = MarkPause(Tail(stack), "inner")
      /\ UNCHANGED <<script, sent, peer, backlog, wire, attached, runs, got, answers, held>>
  BY DEF PauseEnds, peers
<1>3. Kept(slot)
  BY <1>1 DEF Kept, PlaceInv, CdpTypes
<1>4. Kept(slot') /\ PlaceInv' /\ Leaves /\ CutInv' /\ mixed' \subseteq Conns
      /\ cut' \in [Conns -> {"no", "checked", "unchecked"}]
  BY <1>1, <1>2, <1>3, BroadcastFacts
<1>5. PICK t \in Seq(Calls) : /\ t = Tail(stack) /\ Len(t) = Len(stack) - 1 /\ Len(stack) \in Nat \ {0}
                              /\ \A p \in 1..Len(stack) - 1 : t[p] = stack[p + 1]
  BY <1>1, <1>2, PopFacts DEF CdpTypes
<1>6. /\ stack' \in Seq(Calls) /\ Len(stack') = Len(t) /\ PauseOK(stack', FALSE)
      /\ \A p \in 1..Len(t) : stack'[p].call = t[p].call /\ (t[p].call # "pause" => stack'[p] = t[p])
  BY <1>2, <1>5, MarkFacts
<1>7. OldAsks
  <2>1. ASSUME NEW p \in 1..Len(stack'), Asks(stack'[p])
        PROVE  \E q \in 2..Len(stack) : stack[q] = stack'[p]
    <3>1. p \in 1..Len(t) /\ stack'[p].call = "script"
      BY <2>1, <1>6 DEF Asks
    <3>2. stack'[p] = t[p]
      BY <3>1, <1>6
    <3>3. p \in 1..Len(stack) - 1 /\ p + 1 \in 2..Len(stack)
      BY <3>1, <1>5
    <3>. QED
      BY <3>2, <3>3, <1>5
  <2>. QED
    BY <2>1 DEF OldAsks
<1>8. CdpTypes'
  <2>1. paused' \in BOOLEAN
    BY <1>2
  <2>. QED
    BY <1>1, <1>2, <1>4, <1>6, <2>1 DEF CdpTypes, Kept
<1>9. AnswerInv'
  BY <1>1, <1>2, <1>4, AnswerSame
<1>. QED
  BY <1>2, <1>4, <1>6, <1>7, <1>8, <1>9, Settled

\* A script ends, and is answered for.
LEMMA ScriptEndsInv == ASSUME CdpInv, ScriptEnds PROVE CdpInv'
<1>1. CdpTypes /\ PauseOK(stack, paused) /\ PlaceInv /\ CutInv /\ AskInv /\ AnswerInv
  BY DEF CdpInv
<1>2. /\ stack # <<>> /\ Top.call = "script" /\ Top.call # "pause" /\ Return
      /\ UNCHANGED <<script, sent, peer, backlog, wire, paused, attached, runs, got, held>>
  BY DEF ScriptEnds, In, peers
<1>3. Top = stack[1] /\ Top \in Calls /\ 1 \in 1..Len(stack)
  BY <1>1, <1>2, TopFacts
<1>4. stack' \in Seq(Calls) /\ PauseOK(stack', paused) /\ OldAsks
  BY <1>1, <1>2, ReturnFacts
<1>5. CASE Top.of = NoConn
  <2>1. UNCHANGED <<slot, answers, cut, mixed>>
    BY <1>5 DEF ScriptEnds
  <2>2. PlaceInv' /\ Leaves
    BY <1>1, <1>2, <2>1, SlotsSame
  <2>3. CutInv' /\ AnswerInv'
    BY <1>1, <1>2, <2>1, <2>2, CutSame, AnswerSame
  <2>4. CdpTypes'
    BY <1>1, <1>2, <1>4, <2>1 DEF CdpTypes
  <2>. QED
    BY <1>2, <1>4, <2>2, <2>3, <2>4, Settled
<1>6. CASE Top.of # NoConn
  <2>1. Asks(stack[1])
    BY <1>2, <1>3, <1>6 DEF Asks
  <2>2. PICK i \in Slots, k \in Conns, n \in Nat : i = Top.i /\ k = Top.of /\ n = Top.n
    BY <1>3, <2>1, CallTypes
  <2>3. Reply(slot, i, k, n)
    BY <1>6, <2>2 DEF ScriptEnds
  <2>4. Kept(slot)
    BY <1>1 DEF Kept, PlaceInv, CdpTypes
  <2>5. /\ Kept(slot') /\ PlaceInv' /\ Leaves /\ CutInv' /\ mixed' \subseteq Conns
        /\ cut' \in [Conns -> {"no", "checked", "unchecked"}]
        /\ \/ answers' = answers
           \/ /\ n # 0 /\ slot[i].fd \in Conns
              /\ answers' = [answers EXCEPT ![slot[i].fd] = Append(@, [of |-> k, n |-> n])]
    BY <1>1, <1>2, <2>3, <2>4, ReplyFacts
  <2>6. slot[i].fd = k \/ (Left(k) /\ [of |-> k, n |-> n] \in held)
    <3>1. Asked0(stack[1]) = [of |-> k, n |-> n]
      BY <1>3, <2>2 DEF Asked0
    <3>. QED
      BY <1>1, <1>3, <2>1, <2>2, <3>1 DEF AskInv
  <2>7. AnswerInv' /\ answers' \in [Conns -> Seq(Pair)]
    <3>1. CASE answers' = answers
      BY <3>1, <1>1, <1>2, <2>5, AnswerSame DEF CdpTypes
    <3>2. CASE slot[i].fd \in Conns /\ answers' = [answers EXCEPT ![slot[i].fd] = Append(@, [of |-> k, n |-> n])]
      <4>1. PICK l \in Conns : l = slot[i].fd
        BY <3>2
      <4>2. l = k \/ ([of |-> k, n |-> n] \in held' /\ Left(k)')
        BY <4>1, <2>5, <2>6, <1>2 DEF Leaves
      <4>3. answers' = [answers EXCEPT ![l] = Append(@, [of |-> k, n |-> n])]
        BY <3>2, <4>1
      <4>. QED
        BY <1>1, <1>2, <2>5, <4>2, <4>3, AnswerNew
    <3>. QED
      BY <2>5, <3>1, <3>2
  <2>8. CdpTypes'
    BY <1>1, <1>2, <1>4, <2>5, <2>7 DEF CdpTypes, Kept
  <2>. QED
    BY <1>2, <1>4, <2>5, <2>7, <2>8, Settled
<1>. QED
  BY <1>5, <1>6

\* The message that a final frame completes.
LEMMA TakeMessageType ==
    ASSUME CdpInv, Decoding
    PROVE  TakeMessage.parts \in Seq(Items) /\ TakeMessage.rest = <<>>
<1>1. slot[Top.i].frag \in Seq(Items) /\ Item \in Items
  BY DecodingFacts
<1>2. <<Item>> \in Seq(Items) /\ FragAppend(slot[Top.i].frag, Item) \in Seq(Items)
  BY <1>1, FragAppendType
<1>3. PICK x : x = FragAppend(slot[Top.i].frag, Item)
  OBVIOUS
<1>4. TakeMessage = [parts |-> x, rest |-> <<>>] \/ TakeMessage = [parts |-> <<Item>>, rest |-> <<>>]
  BY <1>3 DEF TakeMessage
<1>5. \A y : [parts |-> y, rest |-> <<>>].parts = y /\ [parts |-> y, rest |-> <<>>].rest = <<>>
  OBVIOUS
<1>6. TakeMessage.rest = <<>> /\ TakeMessage.parts \in {x, <<Item>>}
  BY <1>4, <1>5, Zenon
<1>. QED
  BY <1>2, <1>3, <1>6

\* A message is dispatched.
LEMMA DecodeMessageInv == ASSUME CdpInv, DecodeMessage PROVE CdpInv'
<1>1. CdpTypes /\ PauseOK(stack, paused) /\ PlaceInv /\ CutInv /\ AskInv /\ AnswerInv
  BY DEF CdpInv
<1>2. Decoding /\ UNCHANGED <<script, sent, peer, backlog, wire, runs>>
  BY DEF DecodeMessage, peers
<1>3. /\ stack # <<>> /\ Top.call = "poll" /\ ~Asks(stack[1]) /\ stack \in Seq(Calls)
  BY <1>1, <1>2, DecodingFacts DEF CdpTypes
<1>4. PICK i \in Slots, k \in Conns : i = Top.i /\ k = slot[i].fd
  BY <1>2, DecodingFacts
<1>5. PICK parts \in Seq(Items) : parts = TakeMessage.parts /\ TakeMessage.rest = <<>>
  BY <1>2, TakeMessageType
<1>6. PICK after : after = [Consumed EXCEPT ![i].frag = TakeMessage.rest]
  OBVIOUS
<1>7. Kept(after)
  <2>1. <<>> \in Seq(Items) /\ Top.i = i
    BY <1>4
  <2>. QED
    BY <1>2, <1>5, <1>6, <2>1, ConsumedFacts
<1>8. PICK n : n = parts[1].n
  OBVIOUS
<1>9. PICK dispatched : dispatched = [got EXCEPT ![k] = Append(@, parts)]
  OBVIOUS
<1>10. dispatched \in [Conns -> Seq(Seq(Items))] /\ got \in [Conns -> Seq(Seq(Items))]
  <2>1. got \in [Conns -> Seq(Seq(Items))]
    BY <1>1 DEF CdpTypes
  <2>2. Append(got[k], parts) \in Seq(Seq(Items))
    BY SMTT(30), <2>1
  <2>. QED
    BY <2>1, <2>2, <1>9
<1>. DEFINE here(method) == parts # <<>> /\ parts[1].first /\ parts[1].method = method
<1>11. \/ /\ parts = <<>> \/ ~parts[1].first
          /\ slot' = after
          /\ got' = IF parts = <<>> THEN got ELSE dispatched
          /\ UNCHANGED <<stack, paused, attached, answers, held, cut, mixed>>
       \/ /\ here("ack")
          /\ got' = dispatched
          /\ Reply(after, i, k, n)
          /\ UNCHANGED <<stack, paused, attached, held>>
       \/ /\ here("enable")
          /\ got' = dispatched
          /\ attached' = TRUE
          /\ Broadcast(after)
          /\ answers' \in {answers, [answers EXCEPT ![k] = Append(@, [of |-> k, n |-> n])]}
          /\ UNCHANGED <<stack, paused, held>>
       \/ /\ here("resume")
          /\ got' = IF n = 0 THEN got ELSE dispatched
          /\ paused' = FALSE
          /\ Reply(after, i, k, n)
          /\ stack' = MarkPause(stack, "asked")
          /\ UNCHANGED <<attached, held>>
       \/ /\ here("eval")
          /\ got' = dispatched
          /\ slot' = after
          /\ Call(ScriptCall(i, k, n))
          /\ UNCHANGED <<paused, attached, answers, held, cut, mixed>>
  BY <1>4, <1>5, <1>6, <1>8, <1>9 DEF DecodeMessage
<1>12. parts # <<>> => n \in Nat
  <2>1. parts # <<>> => parts[1] \in Items
    OBVIOUS
  <2>. QED
    BY <2>1, <1>8 DEF Items
<1>13. UNCHANGED stack => OldAsks
  BY <1>1, <1>3, SameFacts
<1>14. ASSUME here("ack") \/ here("resume"), Reply(after, i, k, n), held' = held
       PROVE  /\ Kept(slot') /\ PlaceInv' /\ Leaves /\ CutInv' /\ mixed' \subseteq Conns
              /\ cut' \in [Conns -> {"no", "checked", "unchecked"}]
              /\ AnswerInv' /\ answers' \in [Conns -> Seq(Pair)]
  <2>1. n \in Nat
    BY <1>12, <1>14
  <2>2. /\ Kept(slot') /\ PlaceInv' /\ Leaves /\ CutInv' /\ mixed' \subseteq Conns
        /\ cut' \in [Conns -> {"no", "checked", "unchecked"}]
        /\ \/ answers' = answers
           \/ answers' = [answers EXCEPT ![k] = Append(@, [of |-> k, n |-> n])]
    BY <1>1, <1>2, <1>4, <1>7, <1>14, <2>1, ReplyFacts
  <2>3. AnswerInv' /\ answers' \in [Conns -> Seq(Pair)]
    <3>1. CASE answers' = answers
      BY <3>1, <1>1, <1>14, <2>2, AnswerSame DEF CdpTypes
    <3>2. CASE answers' = [answers EXCEPT ![k] = Append(@, [of |-> k, n |-> n])]
      BY <3>2, <1>1, <1>14, <2>1, <2>2, AnswerNew
    <3>. QED
      BY <2>2, <3>1, <3>2
  <2>. QED
    BY <2>2, <2>3
<1>15. CASE /\ slot' = after
            /\ got' = IF parts = <<>> THEN got ELSE dispatched
            /\ UNCHANGED <<stack, paused, attached, answers, held, cut, mixed>>
  <2>1. Leaves => CutInv'
    BY <1>1, <1>15, CutSame
  <2>2. Kept(slot') /\ got' \in [Conns -> Seq(Seq(Items))]
    BY <1>7, <1>10, <1>15
  <2>3. cut' \in [Conns -> {"no", "checked", "unchecked"}] /\ mixed' \subseteq Conns
    BY <1>1, <1>15 DEF CdpTypes
  <2>4. UNCHANGED <<peers, stack, paused, attached, runs, answers, held>>
    BY <1>2, <1>15 DEF peers
  <2>. QED
    BY <1>2, <2>1, <2>2, <2>3, <2>4, DecodedInv
<1>16. CASE /\ here("ack")
            /\ got' = dispatched
            /\ Reply(after, i, k, n)
            /\ UNCHANGED <<stack, paused, attached, held>>
  <2>1. CdpTypes'
    BY <1>1, <1>2, <1>10, <1>14, <1>16 DEF CdpTypes, Kept
  <2>. QED
    BY <1>1, <1>13, <1>14, <1>16, <2>1, Settled
<1>17. CASE /\ here("enable")
            /\ got' = dispatched
            /\ attached' = TRUE
            /\ Broadcast(after)
            /\ answers' \in {answers, [answers EXCEPT ![k] = Append(@, [of |-> k, n |-> n])]}
            /\ UNCHANGED <<stack, paused, held>>
  <2>1. /\ Kept(slot') /\ PlaceInv' /\ Leaves /\ CutInv' /\ mixed' \subseteq Conns
        /\ cut' \in [Conns -> {"no", "checked", "unchecked"}]
    BY <1>1, <1>2, <1>7, <1>17, BroadcastFacts
  <2>2. AnswerInv' /\ answers' \in [Conns -> Seq(Pair)]
    <3>1. CASE answers' = answers
      BY <3>1, <1>1, <1>17, <2>1, AnswerSame DEF CdpTypes
    <3>2. CASE answers' = [answers EXCEPT ![k] = Append(@, [of |-> k, n |-> n])]
      BY <3>2, <1>1, <1>12, <1>17, <2>1, AnswerNew
    <3>. QED
      BY <1>17, <3>1, <3>2
  <2>3. CdpTypes'
    <3>1. attached' \in BOOLEAN
      BY <1>17
    <3>. QED
      BY <1>1, <1>2, <1>10, <1>17, <2>1, <2>2, <3>1 DEF CdpTypes, Kept
  <2>. QED
    BY <1>1, <1>13, <1>17, <2>1, <2>2, <2>3, Settled
<1>18. CASE /\ here("resume")
            /\ got' = IF n = 0 THEN got ELSE dispatched
            /\ paused' = FALSE
            /\ Reply(after, i, k, n)
            /\ stack' = MarkPause(stack, "asked")
            /\ UNCHANGED <<attached, held>>
  <2>1. /\ stack' \in Seq(Calls) /\ Len(stack') = Len(stack) /\ PauseOK(stack', FALSE)
        /\ \A p \in 1..Len(stack) : /\ stack'[p].call = stack[p].call
                                    /\ stack[p].call # "pause" => stack'[p] = stack[p]
    BY <1>3, <1>18, MarkFacts
  <2>2. OldAsks
    <3>1. ASSUME NEW p \in 1..Len(stack'), Asks(stack'[p])
          PROVE  \E q \in 2..Len(stack) : stack[q] = stack'[p]
      <4>1. p \in 1..Len(stack) /\ stack[p].call = "script"
        BY <2>1, <3>1 DEF Asks
      <4>2. stack'[p] = stack[p]
        BY <2>1, <4>1
      <4>3. p # 1
        BY <1>3, <4>2, <3>1
      <4>4. p \in 2..Len(stack)
        BY <4>1, <4>3, <1>3
      <4>. QED
        BY <4>2, <4>4
    <3>. QED
      BY <3>1 DEF OldAsks
  <2>3. got' \in [Conns -> Seq(Seq(Items))] /\ paused' \in BOOLEAN
    BY <1>10, <1>18
  <2>4. CdpTypes'
    BY <1>1, <1>2, <1>14, <1>18, <2>1, <2>3 DEF CdpTypes, Kept
  <2>. QED
    BY <1>1, <1>14, <1>18, <2>1, <2>2, <2>4, Settled
<1>19. CASE /\ here("eval")
            /\ got' = dispatched
            /\ slot' = after
            /\ Call(ScriptCall(i, k, n))
            /\ UNCHANGED <<paused, attached, answers, held, cut, mixed>>
  <2>1. n \in Nat
    BY <1>12, <1>19
  <2>2. PICK f \in Calls : f = ScriptCall(i, k, n) /\ f.call # "pause" /\ f.i = i /\ f.of = k
    <3>1. ScriptCall(i, k, n) \in Calls
      BY <2>1 DEF ScriptCall, Calls
    <3>. QED
      BY <3>1 DEF ScriptCall
  <2>3. stack' \in Seq(Calls) /\ PauseOK(stack', paused)
    BY <1>1, <1>19, <2>2, PushedFacts
  <2>4. PlaceInv' /\ Leaves /\ slot' \in [Slots -> Client0]
    BY <1>1, <1>2, <1>7, <1>19, SlotsShrink DEF Kept
  <2>5. slot'[i].fd = k
    <3>1. slot \in [Slots -> Client0] /\ slot[i] \in Client0 /\ Tail(slot[i].rx) \in Seq(Items)
      BY <1>2, <1>4, DecodingFacts
    <3>2. Consumed = [slot EXCEPT ![i] = [slot[i] EXCEPT !.rx = Tail(slot[i].rx)]]
      BY <1>2, <1>4, ConsumedFacts
    <3>3. PICK c : c = [slot[i] EXCEPT !.rx = Tail(slot[i].rx)]
      OBVIOUS
    <3>4. c \in Client0 /\ c.fd = k
      BY <1>4, <3>1, <3>3 DEF Client0
    <3>5. Consumed \in [Slots -> Client0] /\ Consumed[i] = c
      BY <3>1, <3>2, <3>3, <3>4
    <3>6. after[i] = [c EXCEPT !.frag = <<>>]
      BY <1>5, <1>6, <3>5
    <3>7. after[i].fd = c.fd
      BY <3>4, <3>6 DEF Client0
    <3>. QED
      BY <1>19, <3>4, <3>7
  <2>6. AskInv'
    BY <1>1, <1>3, <1>19, <2>2, <2>4, <2>5, AskPushed
  <2>7. CutInv' /\ AnswerInv'
    BY <1>1, <1>19, <2>4, CutSame, AnswerSame
  <2>8. CdpTypes'
    BY <1>1, <1>2, <1>10, <1>19, <2>3, <2>4 DEF CdpTypes
  <2>. QED
    BY <1>19, <2>3, <2>4, <2>6, <2>7, <2>8 DEF CdpInv
<1>. QED
  BY <1>11, <1>15, <1>16, <1>17, <1>18, <1>19
-----------------------------------------------------------------------------

\* Every step preserves CdpInv.
LEMMA CdpStep == CdpInv /\ [CdpNext]_cdpVars => CdpInv'
<1>. SUFFICES ASSUME CdpInv, [CdpNext]_cdpVars PROVE CdpInv'
  OBVIOUS
<1>1. CASE Server
  BY <1>1, PollStartsInv, EndedInv, ServeInv, DecodePingInv, DecodeLastInv, DecodeFragmentInv,
     DecodeHeadInv, DecodeMessageInv, FramesDoneInv, FlushInv, PauseEndsInv DEF Server
<1>2. CASE PageScript \/ ScriptLogs \/ ScriptPauses \/ ScriptEnds
  BY <1>2, PageScriptInv, ScriptLogsInv, ScriptPausesInv, ScriptEndsInv
<1>3. ASSUME NEW k \in Conns, Client(k) PROVE CdpInv'
  BY <1>3, PeerConnectsInv, PeerInv DEF Client
<1>4. CASE UNCHANGED cdpVars
  <2>1. UNCHANGED <<script, sent, peer, backlog, wire, slot, stack, paused, attached, runs,
                    got, answers, held, cut, mixed>>
    BY <1>4 DEF cdpVars, peers, history
  <2>2. CdpTypes'
    BY <2>1 DEF CdpInv, CdpTypes
  <2>. QED
    BY <2>1, <2>2, PeerQuiet DEF history
<1>. QED
  BY <1>1, <1>2, <1>3, <1>4 DEF CdpNext

\* CdpInv holds in every state.
LEMMA CdpInvariant == CdpSpec => []CdpInv
<1>. QED
  BY CdpInitInv, CdpStep, PTL DEF CdpSpec

\* A stopped script goes on only when it was asked to, or when one that
\* stopped inside its pause was.
THEOREM StoppedIsResumed == CdpSpec => StoppedUntilResumed
<1>1. ASSUME CdpInv, CdpNext, stack # <<>>, Top.call = "pause", Len(stack') < Len(stack)
      PROVE  Top.at # ""
  <2>1. CdpTypes /\ PauseOK(stack, paused)
    BY <1>1 DEF CdpInv
  <2>2. Top = stack[1] /\ Len(stack) \in Nat \ {0} /\ stack \in Seq(Calls)
    BY <1>1, <2>1, TopFacts DEF CdpTypes
  <2>3. CASE PauseEnds
    <3>1. ~paused
      BY <2>3 DEF PauseEnds, Resumed
    <3>2. 1 \in 1..Len(stack) /\ \A q \in 1..1 - 1 : stack[q].call # "pause"
      BY <2>2
    <3>. QED
      BY <1>1, <2>1, <2>2, <3>1, <3>2 DEF PauseOK
  <2>4. CASE PollStarts
    <3>1. PICK f : stack' = <<f>> \o stack
      BY <2>4 DEF PollStarts, Call
    <3>2. ~(Len(stack') < Len(stack))
      <4>1. Len(stack') = Len(stack) + 1
        BY <2>2, <3>1
      <4>. QED
        BY <2>2, <4>1
    <3>. QED
      BY <1>1, <3>2, Zenon
  <2>5. CASE \E k \in Conns : Client(k)
    <3>1. UNCHANGED stack
      BY <2>5 DEF Client, PeerConnects, PeerSends, PeerResumes, PeerLeaves
    <3>2. Len(stack') = Len(stack) /\ ~(Len(stack) < Len(stack))
      BY <2>2, <3>1
    <3>. QED
      BY <1>1, <3>2, Zenon
  <2>6. CASE PageScript \/ ScriptLogs \/ ScriptPauses \/ ScriptEnds
    BY <1>1, <2>6 DEF PageScript, ScriptLogs, ScriptPauses, ScriptEnds, In
  <2>7. CASE Ended \/ Serve \/ FramesDone \/ Flush
    BY <1>1, <2>7 DEF Ended, Serve, FramesDone, Flush, In
  <2>8. CASE DecodePing \/ DecodeLast \/ DecodeFragment \/ DecodeHead \/ DecodeMessage
    BY <1>1, <2>8 DEF DecodePing, DecodeLast, DecodeFragment, DecodeHead, DecodeMessage, Decoding, In
  <2>. QED
    BY <1>1, <2>3, <2>4, <2>5, <2>6, <2>7, <2>8 DEF CdpNext, Server
<1>2. CdpInv /\ [CdpNext]_cdpVars =>
        [(stack # <<>> /\ Top.call = "pause" /\ Len(stack') < Len(stack)) => Top.at # ""]_cdpVars
  BY <1>1
<1>. QED
  BY <1>2, CdpInvariant, PTL DEF CdpSpec, StoppedUntilResumed
-----------------------------------------------------------------------------
\* What SizeOf computes, as an equation.
Totals(f, hi, s) == f = [p \in 0..hi |-> IF p = 0 THEN 0 ELSE f[p - 1] + s[p].size]

\* The running totals that SizeOf is defined with exist for every length: a
\* shortest sequence without them would have those of one item less.
LEMMA TotalsExist ==
    ASSUME NEW s
    PROVE  \A hi \in Nat : \E f : Totals(f, hi, s)
<1>. DEFINE T == {hi \in Nat : ~ \E f : Totals(f, hi, s)}
<1>1. SUFFICES ASSUME T # {} PROVE FALSE
  OBVIOUS
<1>2. PICK n \in T : \A m \in T : n <= m
  BY <1>1, LeastNat
<1>3. n \in Nat /\ ~ \E f : Totals(f, n, s)
  OBVIOUS
<1>4. CASE n = 0
  <2>1. Totals([p \in 0..0 |-> 0], 0, s)
    BY DEF Totals
  <2>. QED
    BY <2>1, <1>3, <1>4
<1>5. CASE n # 0
  <2>1. n - 1 \in Nat /\ ~(n <= n - 1)
    BY <1>3, <1>5
  <2>2. PICK f : Totals(f, n - 1, s)
    BY <2>1, <1>2
  <2>. DEFINE g == [p \in 0..n |-> IF p = n THEN f[n - 1] + s[n].size ELSE f[p]]
  <2>3. /\ g = [p \in 0..n |-> g[p]] /\ g[n] = f[n - 1] + s[n].size
        /\ \A p \in 0..n - 1 : g[p] = f[p]
    BY <1>3
  <2>. HIDE DEF g
  <2>4. \A p \in 0..n : \/ p = n
                        \/ p \in 0..n - 1 /\ p # n /\ (p = 0 \/ p - 1 \in 0..n - 1)
    BY <1>3
  <2>5. n - 1 \in 0..n - 1
    BY <2>1
  <2>6. ASSUME NEW p \in 0..n PROVE g[p] = IF p = 0 THEN 0 ELSE g[p - 1] + s[p].size
    <3>1. CASE p = n
      BY <3>1, <2>3, <2>5, <1>5
    <3>2. CASE p \in 0..n - 1
      <4>1. f[p] = IF p = 0 THEN 0 ELSE f[p - 1] + s[p].size
        BY <2>2, <3>2 DEF Totals
      <4>2. CASE p = 0
        BY <3>2, <4>1, <4>2, <2>3
      <4>3. CASE p # 0
        <5>1. p - 1 \in 0..n - 1
          BY <3>2, <4>3
        <5>2. g[p - 1] = f[p - 1] /\ g[p] = f[p]
          BY <3>2, <5>1, <2>3
        <5>. QED
          BY <4>1, <4>3, <5>2
      <4>. QED
        BY <4>2, <4>3
    <3>. QED
      BY <3>1, <3>2, <2>4
  <2>7. Totals(g, n, s)
    BY <2>3, <2>6 DEF Totals
  <2>. QED
    BY <2>7, <1>3
<1>. QED
  BY <1>4, <1>5

\* They depend on nothing but the items.
LEMMA TotalsAgree ==
    ASSUME NEW hi \in Nat, NEW s, NEW t, NEW f, NEW g, Totals(f, hi, s), Totals(g, hi, t),
           \A p \in 1..hi : s[p] = t[p]
    PROVE  f = g
<1>. DEFINE T == {n \in 0..hi : f[n] # g[n]}
<1>1. /\ f = [n \in 0..hi |-> f[n]] /\ g = [n \in 0..hi |-> g[n]]
  BY DEF Totals
<1>2. SUFFICES ASSUME T # {} PROVE FALSE
  BY <1>1
<1>3. PICK n \in T : \A m \in T : n <= m
  <2>1. T \subseteq Nat
    OBVIOUS
  <2>. QED
    BY <1>2, <2>1, LeastNat
<1>4. n \in 0..hi /\ f[n] # g[n]
  OBVIOUS
<1>5. CASE n = 0
  <2>1. f[0] = 0 /\ g[0] = 0
    BY DEF Totals
  <2>. QED
    BY <2>1, <1>4, <1>5
<1>6. CASE n # 0
  <2>1. n - 1 \in 0..hi /\ ~(n <= n - 1) /\ n \in 1..hi
    BY <1>4, <1>6
  <2>2. f[n - 1] = g[n - 1]
    BY <2>1, <1>3
  <2>3. f[n] = f[n - 1] + s[n].size /\ g[n] = g[n - 1] + t[n].size
    BY <1>4, <1>6 DEF Totals
  <2>. QED
    BY <2>1, <2>2, <2>3, <1>4
<1>. QED
  BY <1>5, <1>6

\* SizeOf is the last of them.
LEMMA SizeIs ==
    ASSUME NEW s \in Seq(Items), NEW f, Totals(f, Len(s), s)
    PROVE  SizeOf(s) = f[Len(s)]
<1>. DEFINE Is(g) == g = [p \in 0..Len(s) |-> IF p = 0 THEN 0 ELSE g[p - 1] + s[p].size]
<1>1. SizeOf(s) = (CHOOSE g : Is(g))[Len(s)]
  BY DEF SizeOf
<1>2. \A g : Is(g) <=> Totals(g, Len(s), s)
  BY DEF Totals
<1>. HIDE DEF Is
<1>3. Is(CHOOSE g : Is(g))
  BY <1>2
<1>4. (CHOOSE g : Is(g)) = f
  BY <1>2, <1>3, TotalsAgree
<1>. QED
  BY <1>1, <1>4

\* The size of nothing, and of one item more.
LEMMA SizeFacts ==
    ASSUME NEW s \in Seq(Items)
    PROVE  /\ SizeOf(s) \in Nat /\ (s = <<>> => SizeOf(s) = 0)
           /\ \A e \in Items : SizeOf(Append(s, e)) = SizeOf(s) + e.size
<1>1. Len(s) \in Nat
  OBVIOUS
<1>2. PICK f : Totals(f, Len(s), s)
  BY <1>1, TotalsExist
<1>3. SizeOf(s) = f[Len(s)]
  BY <1>2, SizeIs
<1>4. \A p \in 0..Len(s) : f[p] = IF p = 0 THEN 0 ELSE f[p - 1] + s[p].size
  BY <1>2 DEF Totals
<1>5. \A p \in 1..Len(s) : s[p].size \in Nat
  <2>1. \A p \in 1..Len(s) : s[p] \in Items
    OBVIOUS
  <2>2. \A x \in Items : x.size \in Nat
    BY Bounds DEF Items
  <2>. QED
    BY <2>1, <2>2
<1>6. \A p \in 0..Len(s) : f[p] \in Nat
  <2>. DEFINE T == {n \in 0..Len(s) : f[n] \notin Nat}
  <2>1. SUFFICES ASSUME T # {} PROVE FALSE
    OBVIOUS
  <2>2. PICK n \in T : \A m \in T : n <= m
    <3>1. T \subseteq Nat
      OBVIOUS
    <3>. QED
      BY <2>1, <3>1, LeastNat
  <2>3. n # 0
    BY <1>4
  <2>4. n - 1 \in 0..Len(s) /\ ~(n <= n - 1) /\ n \in 1..Len(s)
    BY <2>3, <1>1
  <2>5. f[n - 1] \in Nat
    BY <2>4, <2>2
  <2>6. f[n] = f[n - 1] + s[n].size
    BY <2>3, <1>4
  <2>. QED
    BY <2>4, <2>5, <2>6, <1>5
<1>7. SizeOf(s) \in Nat
  BY <1>1, <1>3, <1>6
<1>8. s = <<>> => SizeOf(s) = 0
  BY <1>1, <1>3, <1>4
<1>9. ASSUME NEW e \in Items PROVE SizeOf(Append(s, e)) = SizeOf(s) + e.size
  <2>0. Append(s, e) \in Seq(Items) /\ Len(s) + 1 \in Nat
    BY <1>1
  <2>1. PICK t \in Seq(Items) : t = Append(s, e)
    BY <2>0
  <2>2. Len(t) = Len(s) + 1 /\ t[Len(s) + 1] = e /\ \A p \in 1..Len(s) : t[p] = s[p]
    BY <2>1
  <2>3. PICK g : Totals(g, Len(s) + 1, t)
    BY <2>0, TotalsExist
  <2>4. SizeOf(t) = g[Len(s) + 1]
    BY <2>2, <2>3, SizeIs
  <2>5. \A p \in 0..Len(s) + 1 : g[p] = IF p = 0 THEN 0 ELSE g[p - 1] + t[p].size
    BY <2>3 DEF Totals
  <2>6. PICK h : h = [p \in 0..Len(s) |-> g[p]]
    OBVIOUS
  <2>7. \A p \in 0..Len(s) : /\ h[p] = g[p] /\ p \in 0..Len(s) + 1
                             /\ p # 0 => p - 1 \in 0..Len(s) /\ p \in 1..Len(s)
    BY <2>6, <1>1
  <2>8. \A p \in 0..Len(s) : g[p] = IF p = 0 THEN 0 ELSE h[p - 1] + s[p].size
    BY <2>2, <2>5, <2>7
  <2>9. Totals(h, Len(s), s)
    BY <2>6, <2>8 DEF Totals
  <2>10. h[Len(s)] = SizeOf(s) /\ h[Len(s)] = g[Len(s)]
    <3>1. Len(s) \in 0..Len(s)
      BY <1>1
    <3>. QED
      BY <2>7, <2>9, <3>1, SizeIs
  <2>11. g[Len(s) + 1] = g[Len(s)] + e.size
    <3>1. Len(s) + 1 \in 0..Len(s) + 1 /\ Len(s) + 1 # 0 /\ (Len(s) + 1) - 1 = Len(s)
      BY <1>1
    <3>. QED
      BY <2>2, <2>5, <3>1
  <2>. QED
    BY <2>1, <2>4, <2>10, <2>11
<1>. QED
  BY <1>7, <1>8, <1>9
-----------------------------------------------------------------------------

\* Between two messages of the script s.
Pausing(s, a) == a > 0 => s[a].fin /\ s[a].op # "ping"

\* x takes a client that has sent the first a items of s to the first b.
Moves(s, up, x, a, b) ==
  \/ b = a + 1 /\ b \in 1..Len(s) /\ x = s[b]
  \/ up = TRUE /\ b = a /\ x = Resume /\ Pausing(s, a)

\* st is what a client sent between the first c and the first m items of s.
Follows(s, m, up, st, c) ==
  /\ m \in 0..Len(s)
  /\ \E pos \in [0..Len(st) -> 0..m] :
       /\ pos[0] = c /\ pos[Len(st)] = m
       /\ \A p \in 1..Len(st) : Moves(s, up, st[p], pos[p - 1], pos[p])

\* A client that has sent nothing more.
LEMMA FollowsNone ==
    ASSUME NEW s \in Seq(Items), NEW m \in 0..Len(s), NEW up
    PROVE  Follows(s, m, up, <<>>, m)
<1>. DEFINE pos == [p \in 0..Len(<<>>) |-> m]
<1>1. pos \in [0..Len(<<>>) -> 0..m] /\ pos[0] = m /\ pos[Len(<<>>)] = m
  OBVIOUS
<1>2. \A p \in 1..Len(<<>>) : Moves(s, up, <<>>[p], pos[p - 1], pos[p])
  OBVIOUS
<1>. HIDE DEF pos
<1>. QED
  BY <1>1, <1>2 DEF Follows

\* A client sends another item.
LEMMA FollowsAppend ==
    ASSUME NEW s \in Seq(Items), NEW up, NEW m, NEW st \in Seq(Items), NEW c,
           Follows(s, m, up, st, c), NEW x \in Items, NEW b \in 0..Len(s), Moves(s, up, x, m, b)
    PROVE  Follows(s, b, up, Append(st, x), c)
<1>1. m \in 0..Len(s) /\ m <= b /\ Len(st) \in Nat /\ Len(s) \in Nat
  BY DEF Follows, Moves
<1>2. PICK pos \in [0..Len(st) -> 0..m] :
        /\ pos[0] = c /\ pos[Len(st)] = m
        /\ \A p \in 1..Len(st) : Moves(s, up, st[p], pos[p - 1], pos[p])
  BY DEF Follows
<1>3. PICK t \in Seq(Items) : t = Append(st, x)
  <2>1. Append(st, x) \in Seq(Items)
    OBVIOUS
  <2>. QED
    BY <2>1
<1>4. Len(t) = Len(st) + 1 /\ t[Len(st) + 1] = x /\ \A p \in 1..Len(st) : t[p] = st[p]
  BY <1>3
<1>. DEFINE new == [p \in 0..Len(st) + 1 |-> IF p = Len(st) + 1 THEN b ELSE pos[p]]
<1>5. \A p \in 0..Len(st) + 1 : p = Len(st) + 1 \/ (p \in 0..Len(st) /\ p # Len(st) + 1)
  BY <1>1
<1>6. \A p \in 0..Len(st) : pos[p] \in 0..b /\ p \in 0..Len(st) + 1 /\ p # Len(st) + 1
  <2>1. \A p \in 0..Len(st) : p \in 0..Len(st) + 1 /\ p # Len(st) + 1
    BY <1>1
  <2>2. 0..m \subseteq 0..b
    BY <1>1
  <2>. QED
    BY <2>1, <2>2, <1>2
<1>7. /\ new \in [0..Len(st) + 1 -> 0..b]
      /\ new[Len(st) + 1] = b /\ \A p \in 0..Len(st) : new[p] = pos[p]
  <2>1. b \in 0..b /\ Len(st) + 1 \in 0..Len(st) + 1
    BY <1>1
  <2>. QED
    BY <2>1, <1>5, <1>6
<1>. HIDE DEF new
<1>8. new[0] = c
  BY <1>1, <1>2, <1>7
<1>9. ASSUME NEW p \in 1..Len(t) PROVE Moves(s, up, t[p], new[p - 1], new[p])
  <2>1. CASE p = Len(st) + 1
    <3>1. p - 1 = Len(st) /\ Len(st) \in 0..Len(st)
      BY <2>1, <1>1
    <3>2. new[p - 1] = m /\ new[p] = b /\ t[p] = x
      BY <2>1, <3>1, <1>2, <1>4, <1>7
    <3>. QED
      BY <3>2
  <2>2. CASE p # Len(st) + 1
    <3>1. p \in 1..Len(st) /\ p \in 0..Len(st) /\ p - 1 \in 0..Len(st)
      BY <2>2, <1>1, <1>4
    <3>2. new[p - 1] = pos[p - 1] /\ new[p] = pos[p] /\ t[p] = st[p]
      BY <3>1, <1>4, <1>7
    <3>. QED
      BY <3>1, <3>2, <1>2
  <2>. QED
    BY <2>1, <2>2
<1>. QED
  BY <1>3, <1>4, <1>7, <1>8, <1>9 DEF Follows

\* The first item of what a client sent is decoded.
LEMMA FollowsTail ==
    ASSUME NEW s \in Seq(Items), NEW up, NEW m, NEW st \in Seq(Items), NEW c,
           Follows(s, m, up, st, c), st # <<>>
    PROVE  \E d \in 0..m : Moves(s, up, Head(st), c, d) /\ Follows(s, m, up, Tail(st), d)
<1>1. m \in 0..Len(s) /\ Len(st) \in Nat \ {0} /\ Len(s) \in Nat
  BY DEF Follows
<1>2. PICK pos \in [0..Len(st) -> 0..m] :
        /\ pos[0] = c /\ pos[Len(st)] = m
        /\ \A p \in 1..Len(st) : Moves(s, up, st[p], pos[p - 1], pos[p])
  BY DEF Follows
<1>3. PICK t \in Seq(Items) : t = Tail(st)
  <2>1. Tail(st) \in Seq(Items)
    OBVIOUS
  <2>. QED
    BY <2>1
<1>4. Len(t) = Len(st) - 1 /\ Head(st) = st[1] /\ \A p \in 1..Len(st) - 1 : t[p] = st[p + 1]
  BY <1>3
<1>. DEFINE new == [p \in 0..Len(st) - 1 |-> pos[p + 1]]
<1>5. \A p \in 0..Len(st) - 1 : p + 1 \in 0..Len(st)
  BY <1>1
<1>6. /\ new \in [0..Len(st) - 1 -> 0..m]
      /\ \A p \in 0..Len(st) - 1 : new[p] = pos[p + 1]
  BY <1>5
<1>. HIDE DEF new
<1>7. new[0] = pos[1] /\ new[Len(st) - 1] = m /\ pos[1] \in 0..m
  <2>1. 0 \in 0..Len(st) - 1 /\ Len(st) - 1 \in 0..Len(st) - 1 /\ 0 + 1 = 1 /\ (Len(st) - 1) + 1 = Len(st)
    BY <1>1
  <2>2. 1 \in 0..Len(st)
    BY <1>1
  <2>. QED
    BY <2>1, <2>2, <1>2, <1>6
<1>8. Moves(s, up, st[1], c, pos[1])
  <2>1. 1 \in 1..Len(st) /\ 1 - 1 = 0
    BY <1>1
  <2>. QED
    BY <2>1, <1>2
<1>9. ASSUME NEW p \in 1..Len(t) PROVE Moves(s, up, t[p], new[p - 1], new[p])
  <2>1. /\ p \in 1..Len(st) - 1 /\ p \in 0..Len(st) - 1 /\ p - 1 \in 0..Len(st) - 1
        /\ p + 1 \in 1..Len(st) /\ (p + 1) - 1 = p /\ (p - 1) + 1 = p
    BY <1>1, <1>4
  <2>2. t[p] = st[p + 1] /\ new[p] = pos[p + 1] /\ new[p - 1] = pos[p]
    BY <2>1, <1>4, <1>6
  <2>. QED
    BY <2>1, <2>2, <1>2
<1>10. Follows(s, m, up, t, pos[1])
  BY <1>1, <1>4, <1>6, <1>7, <1>9 DEF Follows
<1>. QED
  BY <1>3, <1>4, <1>7, <1>8, <1>10

\* What a client sends before its upgrade it may send after it.
LEMMA FollowsUp ==
    ASSUME NEW s, NEW m, NEW st, NEW c, NEW up, Follows(s, m, up, st, c), NEW v, v = TRUE
    PROVE  Follows(s, m, v, st, c)
<1>1. \A x, a, b : Moves(s, up, x, a, b) => Moves(s, v, x, a, b)
  BY DEF Moves
<1>. QED
  BY <1>1 DEF Follows

\* What is in st is among the first m items of s, or a resume.
Owns(s, m, st) == \A p \in 1..Len(st) : st[p] = Resume \/ \E q \in 1..m : s[q] = st[p]

\* Everything that was sent is of the script.
LEMMA FollowsOwn ==
    ASSUME NEW s \in Seq(Items), NEW up, NEW m, NEW st \in Seq(Items), NEW c,
           Follows(s, m, up, st, c)
    PROVE  /\ c \in 0..m /\ m \in 0..Len(s)
           /\ st = <<>> => c = m
           /\ Owns(s, m, st)
<1>1. m \in 0..Len(s) /\ Len(st) \in Nat /\ Len(s) \in Nat
  BY DEF Follows
<1>2. PICK pos \in [0..Len(st) -> 0..m] :
        /\ pos[0] = c /\ pos[Len(st)] = m
        /\ \A p \in 1..Len(st) : Moves(s, up, st[p], pos[p - 1], pos[p])
  BY DEF Follows
<1>3. c \in 0..m
  BY <1>1, <1>2
<1>4. st = <<>> => c = m
  BY <1>2
<1>5. ASSUME NEW p \in 1..Len(st) PROVE st[p] = Resume \/ \E q \in 1..m : s[q] = st[p]
  <2>0. p \in 0..Len(st)
    BY <1>1
  <2>1. pos[p] \in 0..m /\ Moves(s, up, st[p], pos[p - 1], pos[p])
    <3>1. pos[p] \in 0..m
      BY <2>0
    <3>2. Moves(s, up, st[p], pos[p - 1], pos[p])
      BY <1>2, Zenon
    <3>. QED
      BY <3>1, <3>2
  <2>2. CASE st[p] # Resume
    <3>1. pos[p] \in 1..Len(s) /\ s[pos[p]] = st[p]
      BY <2>1, <2>2 DEF Moves
    <3>2. pos[p] \in 1..m
      BY <2>1, <3>1, <1>1
    <3>. QED
      BY <3>1, <3>2
  <2>. QED
    BY <2>2
<1>. QED
  BY <1>1, <1>3, <1>4, <1>5 DEF Owns
-----------------------------------------------------------------------------

\* What Conforms says, by positions.
LEMMA ConformFacts ==
    ASSUME NEW s \in Seq(Items), Conforms(s)
    PROVE  /\ \A q \in 1..Len(s) : /\ s[q] \in Items /\ s[q].n \in Nat /\ s[q].size \in Nat
                                   /\ s[q].fin \in BOOLEAN /\ s[q].op \in Heads \cup Frames
                                   /\ s[q].n > 0 <=> s[q].op \in {"text", "cont"}
                                   /\ s[q].op \in Heads => q = 1 \/ (q = 2 /\ s[1].op = "head")
           /\ 2 \in 1..Len(s) /\ s[1].op = "head" => s[2].op = "rest"
           /\ \A p, q \in 1..Len(s) : p < q /\ s[p].n > 0 /\ s[q].n > 0 =>
                 s[p].n <= s[q].n /\ (s[p].n = s[q].n => ~s[p].fin /\ s[q].op = "cont")
           /\ \A q \in 1..Len(s) : s[q].op = "cont" => \E p \in 1..Len(s) : p < q /\ s[p].n = s[q].n
           /\ \A q \in 1..Len(s) : s[q].n > 0 /\ s[q].fin =>
                 \E p \in 1..Len(s) : s[p].n = s[q].n /\ s[p].size > 0
<1>. DEFINE Data == {q \in DOMAIN s : s[q].op \in {"text", "cont"}}
<1>1. DOMAIN s = 1..Len(s)
  OBVIOUS
<1>2. /\ \A q \in DOMAIN s : s[q].n > 0 <=> q \in Data
      /\ \A q \in DOMAIN s : s[q].op \in Heads => q = 1 \/ (q = 2 /\ s[1].op = "head")
      /\ 2 \in DOMAIN s /\ s[1].op = "head" => s[2].op = "rest"
      /\ \A p, q \in Data : p < q => /\ s[p].n <= s[q].n
                                     /\ s[p].n = s[q].n => ~s[p].fin /\ s[q].op = "cont"
      /\ \A q \in Data : s[q].op = "cont" => \E p \in Data : p < q /\ s[p].n = s[q].n
      /\ \A q \in Data : s[q].fin => \E p \in Data : s[p].n = s[q].n /\ s[p].size > 0
  BY DEF Conforms
<1>3. \A q \in 1..Len(s) : q \in Data <=> s[q].op \in {"text", "cont"}
  OBVIOUS
<1>4. \A q \in Data : q \in 1..Len(s)
  OBVIOUS
<1>. HIDE DEF Data
<1>5. \A q \in 1..Len(s) : /\ s[q] \in Items /\ s[q].n \in Nat /\ s[q].size \in Nat
                           /\ s[q].fin \in BOOLEAN /\ s[q].op \in Heads \cup Frames
  <2>1. \A q \in 1..Len(s) : s[q] \in Items
    OBVIOUS
  <2>2. \A x \in Items : x.n \in Nat /\ x.size \in Nat /\ x.fin \in BOOLEAN /\ x.op \in Heads \cup Frames
    BY Bounds DEF Items
  <2>. QED
    BY <2>1, <2>2
<1>6. \A q \in 1..Len(s) : /\ s[q].n > 0 <=> s[q].op \in {"text", "cont"}
                           /\ s[q].op \in Heads => q = 1 \/ (q = 2 /\ s[1].op = "head")
                           /\ s[q].n > 0 <=> q \in Data
  BY <1>1, <1>2, <1>3
<1>7. 2 \in 1..Len(s) /\ s[1].op = "head" => s[2].op = "rest"
  BY <1>1, <1>2
<1>8. \A p, q \in 1..Len(s) : p < q /\ s[p].n > 0 /\ s[q].n > 0 =>
         s[p].n <= s[q].n /\ (s[p].n = s[q].n => ~s[p].fin /\ s[q].op = "cont")
  BY <1>2, <1>6
<1>9. \A q \in 1..Len(s) : s[q].op = "cont" => \E p \in 1..Len(s) : p < q /\ s[p].n = s[q].n
  BY <1>2, <1>3, <1>4
<1>10. \A q \in 1..Len(s) : s[q].n > 0 /\ s[q].fin =>
         \E p \in 1..Len(s) : s[p].n = s[q].n /\ s[p].size > 0
  BY <1>2, <1>6, <1>4
<1>. QED
  BY <1>5, <1>6, <1>7, <1>8, <1>9, <1>10

\* An item between two of one message is of it, and is neither its start nor its end.
LEMMA Sandwich ==
    ASSUME NEW s \in Seq(Items), Conforms(s), NEW p \in 1..Len(s), NEW x \in 1..Len(s),
           NEW q \in 1..Len(s), p <= x, x < q, s[p].n = s[q].n, s[q].n > 0, s[x].n > 0
    PROVE  s[x].n = s[q].n /\ ~s[x].fin /\ (p < x => s[x].op = "cont")
<1>1. s[p].n \in Nat /\ s[x].n \in Nat /\ s[q].n \in Nat /\ Len(s) \in Nat
  BY ConformFacts
<1>2. s[x].n <= s[q].n /\ (s[x].n = s[q].n => ~s[x].fin)
  BY ConformFacts
<1>3. p = x \/ p < x
  BY <1>1
<1>4. p < x => s[p].n <= s[x].n /\ (s[p].n = s[x].n => s[x].op = "cont")
  BY ConformFacts
<1>5. s[x].n = s[q].n
  BY <1>1, <1>2, <1>3, <1>4
<1>. QED
  BY <1>2, <1>4, <1>5

PartsAt(s, n) == {q \in 1..Len(s) : s[q].n = n /\ s[q].size > 0}

\* The bytes of message n among the first c items.
Before(s, n, c) == Collected(0, c, PartsAt(s, n), s)
TooLarge(s, n) == SizeOf(Before(s, n, Len(s))) > MaxFrag

\* The bytes of a message, one item after another.
LEMMA BeforeFacts ==
    ASSUME NEW s \in Seq(Items), NEW n
    PROVE  /\ \A c \in 0..Len(s) : Before(s, n, c) \in Seq(Items)
           /\ Before(s, n, 0) = <<>>
           /\ \A c \in 0..Len(s) - 1 : Before(s, n, c + 1) =
                IF s[c + 1].n = n /\ s[c + 1].size > 0 THEN Append(Before(s, n, c), s[c + 1])
                ELSE Before(s, n, c)
<1>1. Len(s) \in Nat /\ 0 \in Nat
  OBVIOUS
<1>2. \A q \in 0 + 1..Len(s) : q \in PartsAt(s, n) => s[q] \in Items
  OBVIOUS
<1>3. \A c \in 0..Len(s) : Before(s, n, c) \in Seq(Items)
  BY <1>1, <1>2, CollectedType DEF Before
<1>4. Before(s, n, 0) = <<>>
  BY <1>1, CollectedNone DEF Before
<1>5. ASSUME NEW c \in 0..Len(s) - 1
      PROVE  Before(s, n, c + 1) =
                IF s[c + 1].n = n /\ s[c + 1].size > 0 THEN Append(Before(s, n, c), s[c + 1])
                ELSE Before(s, n, c)
  <2>1. c + 1 \in Nat /\ 0 < c + 1 /\ (c + 1) - 1 = c /\ c + 1 \in 1..Len(s)
    BY <1>1
  <2>2. PICK d \in Nat : d = c + 1
    BY <2>1
  <2>3. Collected(0, d, PartsAt(s, n), s) =
          IF d \in PartsAt(s, n) THEN Append(Collected(0, d - 1, PartsAt(s, n), s), s[d])
          ELSE Collected(0, d - 1, PartsAt(s, n), s)
    <3>1. 0 < d
      BY <2>1, <2>2
    <3>. QED
      BY <1>1, <3>1, CollectedLast
  <2>4. d \in PartsAt(s, n) <=> s[c + 1].n = n /\ s[c + 1].size > 0
    BY <2>1, <2>2 DEF PartsAt
  <2>. QED
    BY <2>1, <2>2, <2>3, <2>4 DEF Before
<1>. QED
  BY <1>3, <1>4, <1>5

\* Bytes are never taken back.
LEMMA BeforeGrows ==
    ASSUME NEW s \in Seq(Items), NEW n, NEW c \in 0..Len(s)
    PROVE  \A d \in c..Len(s) : /\ SizeOf(Before(s, n, c)) <= SizeOf(Before(s, n, d))
                                /\ Before(s, n, c) # <<>> => Before(s, n, d) # <<>>
<1>. DEFINE Bad(d) == ~ (/\ SizeOf(Before(s, n, c)) <= SizeOf(Before(s, n, d))
                         /\ Before(s, n, c) # <<>> => Before(s, n, d) # <<>>)
            T == {d \in c..Len(s) : Bad(d)}
<1>1. SUFFICES ASSUME T # {} PROVE FALSE
  OBVIOUS
<1>2. PICK d \in T : \A m \in T : d <= m
  <2>1. T \subseteq Nat
    OBVIOUS
  <2>. QED
    BY <1>1, <2>1, LeastNat
<1>3. Len(s) \in Nat /\ d \in c..Len(s) /\ Bad(d)
  OBVIOUS
<1>4. SizeOf(Before(s, n, c)) \in Nat
  BY BeforeFacts, SizeFacts
<1>5. d # c
  BY <1>3, <1>4
<1>6. d - 1 \in 0..Len(s) - 1 /\ d - 1 \in c..Len(s) /\ ~(d <= d - 1) /\ (d - 1) + 1 = d /\ d \in 1..Len(s)
      /\ d - 1 \in 0..Len(s)
  BY <1>3, <1>5
<1>7. ~Bad(d - 1)
  BY <1>2, <1>6
<1>8. PICK b \in Seq(Items) : b = Before(s, n, d - 1)
  BY <1>6, BeforeFacts
<1>9. Before(s, n, d) = b \/ Before(s, n, d) = Append(b, s[d])
  <2>1. Before(s, n, (d - 1) + 1) =
           IF s[(d - 1) + 1].n = n /\ s[(d - 1) + 1].size > 0
           THEN Append(Before(s, n, d - 1), s[(d - 1) + 1]) ELSE Before(s, n, d - 1)
    BY <1>6, BeforeFacts
  <2>2. Before(s, n, d) = IF s[d].n = n /\ s[d].size > 0 THEN Append(b, s[d]) ELSE b
    BY <2>1, <1>6, <1>8
  <2>. QED
    BY <2>2
<1>10. s[d] \in Items /\ s[d].size \in Nat
  <2>1. s[d] \in Items
    BY <1>6
  <2>. QED
    BY <2>1, Bounds DEF Items
<1>11. SizeOf(b) \in Nat /\ SizeOf(Append(b, s[d])) = SizeOf(b) + s[d].size /\ Append(b, s[d]) # <<>>
  <2>1. SizeOf(b) \in Nat /\ SizeOf(Append(b, s[d])) = SizeOf(b) + s[d].size
    BY <1>10, SizeFacts
  <2>2. Append(b, s[d]) # <<>>
    BY <1>10, AppendFacts
  <2>. QED
    BY <2>1, <2>2
<1>12. SizeOf(b) <= SizeOf(Before(s, n, d)) /\ (b # <<>> => Before(s, n, d) # <<>>)
       /\ SizeOf(Before(s, n, d)) \in Nat
  <2>1. CASE Before(s, n, d) = b
    BY <2>1, <1>11
  <2>2. CASE Before(s, n, d) = Append(b, s[d])
    <3>1. SizeOf(Before(s, n, d)) = SizeOf(b) + s[d].size /\ Before(s, n, d) # <<>>
      BY <2>2, <1>11
    <3>. QED
      BY <3>1, <1>10, <1>11
  <2>. QED
    BY <2>1, <2>2, <1>9
<1>. QED
  BY <1>3, <1>4, <1>7, <1>8, <1>11, <1>12

\* Where no item of message n comes, its bytes stay what they are.
LEMMA BeforeStays ==
    ASSUME NEW s \in Seq(Items), NEW n, NEW c \in 0..Len(s),
           NEW top \in c..Len(s), \A q \in c + 1..top : s[q].n # n
    PROVE  Before(s, n, top) = Before(s, n, c)
<1>. DEFINE T == {d \in c..top : Before(s, n, d) # Before(s, n, c)}
<1>0. Len(s) \in Nat /\ top \in c..top
  OBVIOUS
<1>1. SUFFICES ASSUME T # {} PROVE FALSE
  BY <1>0
<1>2. PICK d \in T : \A m \in T : d <= m
  <2>1. T \subseteq Nat
    OBVIOUS
  <2>. QED
    BY <1>1, <2>1, LeastNat
<1>3. d \in c..top /\ d # c
  OBVIOUS
<1>4. d - 1 \in 0..Len(s) - 1 /\ d - 1 \in c..top /\ ~(d <= d - 1) /\ (d - 1) + 1 = d /\ d \in c + 1..top
  BY <1>3, <1>0
<1>5. Before(s, n, d - 1) = Before(s, n, c)
  BY <1>2, <1>4
<1>6. Before(s, n, d) = Before(s, n, d - 1)
  <2>1. s[(d - 1) + 1].n # n
    BY <1>4
  <2>2. Before(s, n, (d - 1) + 1) = Before(s, n, d - 1)
    BY <2>1, <1>4, BeforeFacts
  <2>. QED
    BY <2>2, <1>4
<1>. QED
  BY <1>5, <1>6

\* An item with bytes is among them.
LEMMA BeforeSome ==
    ASSUME NEW s \in Seq(Items), NEW n, NEW p \in 1..Len(s), s[p].n = n, s[p].size > 0,
           NEW c \in p..Len(s)
    PROVE  Before(s, n, c) # <<>>
<1>1. Len(s) \in Nat /\ p - 1 \in 0..Len(s) - 1 /\ (p - 1) + 1 = p /\ p \in 0..Len(s)
      /\ p - 1 \in 0..Len(s)
  OBVIOUS
<1>2. PICK b \in Seq(Items) : b = Before(s, n, p - 1)
  BY <1>1, BeforeFacts
<1>3. Before(s, n, p) = Append(b, s[p])
  BY <1>1, <1>2, BeforeFacts
<1>4. Append(b, s[p]) # <<>>
  <2>1. s[p] \in Items
    OBVIOUS
  <2>. QED
    BY <2>1, AppendFacts
<1>. QED
  BY <1>1, <1>3, <1>4, BeforeGrows

\* Fragments, as the bytes of a message in the whole script.
LEMMA FragmentsIs ==
    ASSUME NEW k, script[k] \in Seq(Items), NEW n
    PROVE  Fragments(k, n) = Before(script[k], n, Len(script[k]))
<1>1. PICK s \in Seq(Items) : s = script[k]
  OBVIOUS
<1>. DEFINE P == {item \in {s[q] : q \in DOMAIN s} : item.n = n /\ item.size > 0}
<1>2. \A i \in 1..Len(s) : i \in PartsAt(s, n) <=> s[i] \in P
  <2>1. DOMAIN s = 1..Len(s)
    OBVIOUS
  <2>. QED
    BY <2>1 DEF PartsAt
<1>3. Fragments(k, n) = Filter(s, P)
  BY <1>1 DEF Fragments
<1>. HIDE DEF P
<1>4. Filter(s, P) = Collected(0, Len(s), PartsAt(s, n), s)
  BY <1>2, FilterCollects
<1>. QED
  BY <1>1, <1>3, <1>4 DEF Before
-----------------------------------------------------------------------------

\* The fragment buffer after the first c items: it holds items of them, and
\* when a message has begun and not ended, its bytes so far or, when it is too
\* large, some of them.
FragOwn(s, c, frag) == \A p \in 1..Len(frag) : \E q \in 1..c : s[q] = frag[p]
FragSum(s, c, frag) ==
  \A x \in 1..c, y \in c + 1..Len(s) : s[x].n = s[y].n /\ s[y].n > 0 =>
     \/ frag = Before(s, s[y].n, c)
     \/ TooLarge(s, s[y].n) /\ \A p \in 1..Len(frag) : frag[p].n = s[y].n

\* An item of no message leaves the fragment buffer.
LEMMA FragOther ==
    ASSUME NEW s \in Seq(Items), Conforms(s), NEW c \in 0..Len(s) - 1, NEW frag,
           s[c + 1].n = 0, FragSum(s, c, frag)
    PROVE  FragSum(s, c + 1, frag)
<1>1. Len(s) \in Nat
  OBVIOUS
<1>2. ASSUME NEW x \in 1..c + 1, NEW y \in (c + 1) + 1..Len(s), s[x].n = s[y].n, s[y].n > 0
      PROVE  \/ frag = Before(s, s[y].n, c + 1)
             \/ TooLarge(s, s[y].n) /\ \A p \in 1..Len(frag) : frag[p].n = s[y].n
  <2>1. y \in c + 1..Len(s) /\ y \in 1..Len(s) /\ s[y].n \in Nat
    BY <1>1, ConformFacts
  <2>2. x # c + 1 /\ s[c + 1].n # s[y].n
    BY <1>2, <2>1
  <2>3. x \in 1..c
    BY <2>2, <1>1
  <2>4. Before(s, s[y].n, c + 1) = Before(s, s[y].n, c)
    BY <2>2, BeforeFacts
  <2>. QED
    BY <1>2, <2>1, <2>3, <2>4 DEF FragSum
<1>. QED
  BY <1>2 DEF FragSum

\* Between two messages nothing is required of the fragment buffer.
LEMMA FragEnded ==
    ASSUME NEW s \in Seq(Items), Conforms(s), NEW c \in 0..Len(s), NEW frag,
           c > 0 => s[c].op \in Heads \/ (s[c].fin /\ s[c].op \in {"text", "cont"})
    PROVE  FragSum(s, c, frag)
<1>1. Len(s) \in Nat
  OBVIOUS
<1>2. ASSUME NEW x \in 1..c, NEW y \in c + 1..Len(s), s[x].n = s[y].n, s[y].n > 0
      PROVE  FALSE
  <2>1. /\ x \in 1..Len(s) /\ y \in 1..Len(s) /\ c \in 1..Len(s) /\ c > 0
        /\ x <= c /\ c < y
    BY <1>1
  <2>2. s[x].n > 0
    BY <1>2, <2>1
  <2>3. CASE s[c].n > 0
    <3>1. s[c].op \in {"text", "cont"}
      BY <2>1, <2>3, ConformFacts
    <3>2. s[c].fin
      BY <3>1, <2>1 DEF Heads
    <3>. QED
      BY <1>2, <2>1, <2>2, <2>3, <3>2, Sandwich
  <2>4. CASE ~(s[c].n > 0)
    <3>1. s[c].op \in Heads
      BY <2>1, <2>4, ConformFacts
    <3>2. c = 1 \/ (c = 2 /\ s[1].op = "head")
      BY <2>1, <3>1, ConformFacts
    <3>3. s[x].op \in {"text", "cont"}
      BY <2>1, <2>2, ConformFacts
    <3>4. x = c \/ x = 1
      BY <2>1, <3>2
    <3>5. s[x].op \in Heads
      <4>1. CASE x = c
        BY <4>1, <3>1
      <4>2. CASE x # c
        BY <4>2, <3>2, <3>4 DEF Heads
      <4>. QED
        BY <4>1, <4>2
    <3>. QED
      BY <3>3, <3>5 DEF Heads
  <2>. QED
    BY <2>3, <2>4
<1>. QED
  BY <1>2 DEF FragSum

\* They are bytes of message n.
LEMMA BeforeOf ==
    ASSUME NEW s \in Seq(Items), NEW n, NEW c \in 0..Len(s)
    PROVE  \A p \in 1..Len(Before(s, n, c)) : Before(s, n, c)[p].n = n
<1>. DEFINE T == {d \in 0..Len(s) : ~ \A p \in 1..Len(Before(s, n, d)) : Before(s, n, d)[p].n = n}
<1>1. SUFFICES ASSUME T # {} PROVE FALSE
  OBVIOUS
<1>2. PICK d \in T : \A m \in T : d <= m
  <2>1. T \subseteq Nat
    OBVIOUS
  <2>. QED
    BY <1>1, <2>1, LeastNat
<1>3. Len(s) \in Nat /\ d \in 0..Len(s)
  OBVIOUS
<1>4. d # 0
  <2>1. Before(s, n, 0) = <<>>
    BY BeforeFacts
  <2>2. \A p \in 1..Len(<<>>) : <<>>[p].n = n
    OBVIOUS
  <2>. QED
    BY <2>1, <2>2
<1>5. /\ d - 1 \in 0..Len(s) - 1 /\ ~(d <= d - 1) /\ (d - 1) + 1 = d /\ d - 1 \in 0..Len(s)
      /\ d \in 1..Len(s)
  BY <1>3, <1>4
<1>6. PICK b \in Seq(Items) : b = Before(s, n, d - 1)
  BY <1>5, BeforeFacts
<1>7. \A p \in 1..Len(b) : b[p].n = n
  BY <1>2, <1>5, <1>6
<1>8. Before(s, n, d) = b \/ (s[d].n = n /\ Before(s, n, d) = Append(b, s[d]))
  <2>1. Before(s, n, (d - 1) + 1) =
           IF s[(d - 1) + 1].n = n /\ s[(d - 1) + 1].size > 0
           THEN Append(Before(s, n, d - 1), s[(d - 1) + 1]) ELSE Before(s, n, d - 1)
    BY <1>5, BeforeFacts
  <2>2. Before(s, n, d) = IF s[d].n = n /\ s[d].size > 0 THEN Append(b, s[d]) ELSE b
    BY <2>1, <1>5, <1>6
  <2>. QED
    BY <2>2
<1>9. CASE s[d].n = n /\ Before(s, n, d) = Append(b, s[d])
  <2>1. s[d] \in Items
    BY <1>5
  <2>2. \A p \in 1..Len(Append(b, s[d])) :
          Append(b, s[d])[p] = s[d] \/ (p \in 1..Len(b) /\ Append(b, s[d])[p] = b[p])
    BY <2>1
  <2>3. \A p \in 1..Len(Append(b, s[d])) : Append(b, s[d])[p].n = n
    BY <2>2, <1>7, <1>9
  <2>. QED
    BY <2>3, <1>9
<1>. QED
  BY <1>7, <1>8, <1>9

\* cdp_frag_append, of the start of a message.
LEMMA FragText ==
    ASSUME NEW s \in Seq(Items), Conforms(s), NEW c \in 0..Len(s) - 1, s[c + 1].op = "text"
    PROVE  FragSum(s, c + 1, FragAppend(<<>>, s[c + 1]))
<1>1. Len(s) \in Nat
  OBVIOUS
<1>2. ASSUME NEW x \in 1..c + 1, NEW y \in (c + 1) + 1..Len(s), s[x].n = s[y].n, s[y].n > 0
      PROVE  FragAppend(<<>>, s[c + 1]) = Before(s, s[y].n, c + 1)
  <2>1. /\ x \in 1..Len(s) /\ y \in 1..Len(s) /\ c + 1 \in 1..Len(s) /\ x <= c + 1 /\ c + 1 < y
        /\ c \in 0..Len(s) /\ 0 \in 0..Len(s) /\ c \in 0..Len(s)
    BY <1>1
  <2>2. /\ s[c + 1] \in Items /\ s[c + 1].n > 0 /\ s[c + 1].size \in Nat
        /\ s[c + 1].size \in 0..MaxFrag
    <3>1. s[c + 1] \in Items /\ s[c + 1].n > 0 /\ s[c + 1].size \in Nat
      BY <2>1, ConformFacts
    <3>. QED
      BY <3>1 DEF Items
  <2>3. s[c + 1].n = s[y].n /\ ~(x < c + 1)
    BY <1>2, <2>1, <2>2, Sandwich
  <2>4. \A q \in 0 + 1..c : s[q].n # s[y].n
    <3>1. ASSUME NEW q \in 0 + 1..c, s[q].n = s[y].n PROVE FALSE
      <4>1. q \in 1..Len(s) /\ q <= c + 1 /\ q < c + 1
        BY <1>1
      <4>. QED
        BY <3>1, <4>1, <1>2, <2>1, <2>2, Sandwich
    <3>. QED
      BY <3>1
  <2>5. Before(s, s[y].n, c) = <<>>
    <3>1. Before(s, s[y].n, c) = Before(s, s[y].n, 0)
      BY <2>1, <2>4, BeforeStays
    <3>. QED
      BY <3>1, BeforeFacts
  <2>6. Before(s, s[y].n, c + 1) = IF s[c + 1].size > 0 THEN Append(<<>>, s[c + 1]) ELSE <<>>
    BY <2>3, <2>5, BeforeFacts
  <2>7. SizeOf(<<>>) = 0
    <3>1. <<>> \in Seq(Items)
      OBVIOUS
    <3>. QED
      BY <3>1, SizeFacts
  <2>8. ~(SizeOf(<<>>) + s[c + 1].size > MaxFrag)
    BY <2>2, <2>7, Bounds
  <2>9. FragAppend(<<>>, s[c + 1]) = IF s[c + 1].size = 0 THEN <<>> ELSE Append(<<>>, s[c + 1])
    BY <2>8 DEF FragAppend
  <2>. QED
    BY <2>2, <2>6, <2>9
<1>. QED
  BY <1>2 DEF FragSum

\* cdp_frag_append, of a continuation: the bytes so far, or nothing when they
\* are too many.
LEMMA FragGrows ==
    ASSUME NEW s \in Seq(Items), Conforms(s), NEW c \in 0..Len(s) - 1, NEW frag \in Seq(Items),
           s[c + 1].op = "cont", FragSum(s, c, frag), NEW m, m = s[c + 1].n
    PROVE  /\ \/ FragAppend(frag, s[c + 1]) = Before(s, m, c + 1)
              \/ TooLarge(s, m) /\ \A p \in 1..Len(FragAppend(frag, s[c + 1])) :
                                      FragAppend(frag, s[c + 1])[p].n = m
           /\ frag = Before(s, m, c) \/ TooLarge(s, m)
<1>1. Len(s) \in Nat /\ c + 1 \in 1..Len(s) /\ c + 1 \in c + 1..Len(s) /\ c \in 0..Len(s) /\ c + 1 \in 0..Len(s)
  OBVIOUS
<1>2. s[c + 1] \in Items /\ s[c + 1].n > 0 /\ s[c + 1].size \in Nat /\ m \in Nat
  BY <1>1, ConformFacts
<1>3. PICK x \in 1..Len(s) : x < c + 1 /\ s[x].n = s[c + 1].n
  BY <1>1, ConformFacts
<1>4. x \in 1..c
  BY <1>3, <1>1
<1>5. \/ frag = Before(s, m, c)
      \/ TooLarge(s, m) /\ \A p \in 1..Len(frag) : frag[p].n = m
  BY <1>1, <1>2, <1>3, <1>4 DEF FragSum
<1>6. PICK e \in Items : e = s[c + 1] /\ e.n = m /\ e.size \in Nat
  BY <1>2
<1>7. FragAppend(frag, e) = IF e.size = 0 THEN frag
                            ELSE IF SizeOf(frag) + e.size > MaxFrag THEN <<>> ELSE Append(frag, e)
  BY DEF FragAppend
<1>8. PICK new : new = FragAppend(frag, e)
  OBVIOUS
<1>9. ASSUME TooLarge(s, m), \A p \in 1..Len(frag) : frag[p].n = m
      PROVE  \A p \in 1..Len(new) : new[p].n = m
  <2>1. \A p \in 1..Len(Append(frag, e)) : Append(frag, e)[p] = e \/ (p \in 1..Len(frag) /\ Append(frag, e)[p] = frag[p])
    OBVIOUS
  <2>2. \A p \in 1..Len(Append(frag, e)) : Append(frag, e)[p].n = m
    BY <2>1, <1>6, <1>9
  <2>3. \A p \in 1..Len(<<>>) : <<>>[p].n = m
    OBVIOUS
  <2>4. new = frag \/ new = <<>> \/ new = Append(frag, e)
    BY <1>7, <1>8
  <2>5. CASE new = frag
    BY <2>5, <1>9
  <2>6. CASE new = <<>>
    BY <2>6, <2>3
  <2>7. CASE new = Append(frag, e)
    BY <2>7, <2>2
  <2>. QED
    BY <2>4, <2>5, <2>6, <2>7
<1>10. ASSUME frag = Before(s, m, c)
       PROVE  new = Before(s, m, c + 1) \/ (TooLarge(s, m) /\ new = <<>>)
  <2>1. Before(s, m, c + 1) = IF e.size > 0 THEN Append(frag, e) ELSE frag
    BY <1>6, <1>10, BeforeFacts
  <2>2. CASE e.size = 0
    BY <2>1, <2>2, <1>7, <1>8
  <2>3. CASE e.size # 0 /\ ~(SizeOf(frag) + e.size > MaxFrag)
    BY <2>1, <2>3, <1>6, <1>7, <1>8
  <2>4. CASE e.size # 0 /\ SizeOf(frag) + e.size > MaxFrag
    <3>0. e.size > 0
      BY <2>4, <1>6
    <3>1. Before(s, m, c + 1) = Append(frag, e)
      BY <2>1, <3>0
    <3>2. SizeOf(Before(s, m, c + 1)) = SizeOf(frag) + e.size
      BY <3>1, SizeFacts
    <3>3. Len(s) \in c + 1..Len(s) /\ Len(s) \in 0..Len(s)
      BY <1>1
    <3>4. SizeOf(Before(s, m, c + 1)) <= SizeOf(Before(s, m, Len(s)))
      BY <1>1, <3>3, BeforeGrows
    <3>5. SizeOf(frag) \in Nat /\ SizeOf(Before(s, m, Len(s))) \in Nat
      BY <3>3, BeforeFacts, SizeFacts
    <3>6. TooLarge(s, m)
      BY <2>4, <3>2, <3>4, <3>5, <1>6, Bounds DEF TooLarge
    <3>7. new = <<>>
      BY <2>4, <1>7, <1>8
    <3>. QED
      BY <3>6, <3>7
  <2>. QED
    BY <2>2, <2>3, <2>4
<1>11. new = <<>> => \A p \in 1..Len(new) : new[p].n = m
  OBVIOUS
<1>12. \/ new = Before(s, m, c + 1)
       \/ TooLarge(s, m) /\ \A p \in 1..Len(new) : new[p].n = m
  BY <1>5, <1>9, <1>10, <1>11
<1>. QED
  BY <1>5, <1>6, <1>8, <1>12

\* A continuation is added to the fragment buffer.
LEMMA FragCont ==
    ASSUME NEW s \in Seq(Items), Conforms(s), NEW c \in 0..Len(s) - 1, NEW frag \in Seq(Items),
           s[c + 1].op = "cont", FragSum(s, c, frag)
    PROVE  FragSum(s, c + 1, FragAppend(frag, s[c + 1]))
<1>1. Len(s) \in Nat
  OBVIOUS
<1>2. ASSUME NEW x \in 1..c + 1, NEW y \in (c + 1) + 1..Len(s), s[x].n = s[y].n, s[y].n > 0
      PROVE  s[c + 1].n = s[y].n
  <2>1. x \in 1..Len(s) /\ y \in 1..Len(s) /\ c + 1 \in 1..Len(s) /\ x <= c + 1 /\ c + 1 < y
    BY <1>1
  <2>2. s[c + 1].n > 0
    BY <2>1, ConformFacts
  <2>. QED
    BY <1>2, <2>1, <2>2, Sandwich
<1>3. PICK m : m = s[c + 1].n
  OBVIOUS
<1>4. \/ FragAppend(frag, s[c + 1]) = Before(s, m, c + 1)
      \/ TooLarge(s, m) /\ \A p \in 1..Len(FragAppend(frag, s[c + 1])) :
                              FragAppend(frag, s[c + 1])[p].n = m
  BY <1>3, FragGrows
<1>. QED
  BY <1>2, <1>3, <1>4 DEF FragSum

\* The message that the final frame x completes.
Taken(x, frag) == IF x.op = "cont" /\ frag # <<>> THEN FragAppend(frag, x) ELSE <<x>>

\* What a final frame completes is the message, unless that is too large.
LEMMA WholeParts ==
    ASSUME NEW s \in Seq(Items), Conforms(s), NEW c \in 0..Len(s) - 1, NEW frag \in Seq(Items),
           s[c + 1].op \in {"text", "cont"}, s[c + 1].fin, FragSum(s, c, frag),
           NEW parts, parts = Taken(s[c + 1], frag), NEW m, m = s[c + 1].n, parts # <<>>
    PROVE  /\ parts[1].n = m
           /\ parts = Before(s, m, Len(s)) \/ TooLarge(s, m)
<1>1. /\ Len(s) \in Nat /\ c + 1 \in 1..Len(s) /\ c \in 0..Len(s) /\ c + 1 \in 0..Len(s)
      /\ Len(s) \in c + 1..Len(s)
  OBVIOUS
<1>2. s[c + 1] \in Items /\ m > 0 /\ m \in Nat /\ s[c + 1].size \in Nat
  BY <1>1, ConformFacts
<1>3. \A q \in (c + 1) + 1..Len(s) : s[q].n # m
  <2>1. ASSUME NEW q \in (c + 1) + 1..Len(s), s[q].n = m PROVE FALSE
    <3>1. q \in 1..Len(s) /\ c + 1 < q
      BY <1>1
    <3>. QED
      BY <2>1, <3>1, <1>1, <1>2, ConformFacts
  <2>. QED
    BY <2>1
<1>4. Before(s, m, Len(s)) = Before(s, m, c + 1)
  BY <1>1, <1>3, BeforeStays
<1>5. PICK b \in Seq(Items) : b = Before(s, m, c)
  BY <1>1, BeforeFacts
<1>6. Before(s, m, c + 1) = IF s[c + 1].size > 0 THEN Append(b, s[c + 1]) ELSE b
  BY <1>5, BeforeFacts
<1>7. PICK x \in 1..Len(s) : s[x].n = m /\ s[x].size > 0
  BY <1>1, <1>2, ConformFacts
<1>8. x \in 1..c + 1
  <2>1. x \notin (c + 1) + 1..Len(s)
    BY <1>3, <1>7
  <2>. QED
    BY <2>1, <1>1
<1>9. b = <<>> => s[c + 1].size > 0
  <2>1. ASSUME b = <<>> PROVE s[c + 1].size > 0
    <3>1. CASE x = c + 1
      BY <3>1, <1>7
    <3>2. CASE x # c + 1
      <4>1. c \in x..Len(s)
        BY <3>2, <1>8, <1>1
      <4>. QED
        BY <2>1, <4>1, <1>5, <1>7, BeforeSome
    <3>. QED
      BY <3>1, <3>2
  <2>. QED
    BY <2>1
<1>10. b = <<>> => Before(s, m, Len(s)) = <<s[c + 1]>>
  <2>1. Append(<<>>, s[c + 1]) = <<s[c + 1]>>
    OBVIOUS
  <2>. QED
    BY <2>1, <1>4, <1>6, <1>9
<1>11. CASE s[c + 1].op = "text"
  <2>1. \A q \in 0 + 1..c : s[q].n # m
    <3>1. ASSUME NEW q \in 0 + 1..c, s[q].n = m PROVE FALSE
      <4>1. q \in 1..Len(s) /\ q < c + 1
        BY <1>1
      <4>. QED
        BY <3>1, <4>1, <1>1, <1>2, <1>11, ConformFacts
    <3>. QED
      BY <3>1
  <2>2. b = <<>>
    <3>0. 0 \in 0..Len(s) /\ c \in 0..Len(s)
      BY <1>1
    <3>1. Before(s, m, c) = Before(s, m, 0)
      BY <2>1, <3>0, BeforeStays
    <3>. QED
      BY <3>1, <1>5, BeforeFacts
  <2>3. parts = <<s[c + 1]>> /\ parts[1] = s[c + 1]
    BY <1>11 DEF Taken
  <2>. QED
    BY <2>2, <2>3, <1>10
<1>12. CASE s[c + 1].op = "cont" /\ frag = <<>>
  <2>1. parts = <<s[c + 1]>> /\ parts[1] = s[c + 1]
    BY <1>12 DEF Taken
  <2>2. b = <<>> \/ TooLarge(s, m)
    BY <1>5, <1>12, FragGrows
  <2>. QED
    BY <2>1, <2>2, <1>10
<1>13. CASE s[c + 1].op = "cont" /\ frag # <<>>
  <2>1. parts = FragAppend(frag, s[c + 1])
    BY <1>13 DEF Taken
  <2>2. \/ parts = Before(s, m, c + 1)
        \/ TooLarge(s, m) /\ \A p \in 1..Len(parts) : parts[p].n = m
    BY <1>13, <2>1, FragGrows
  <2>3. parts \in Seq(Items)
    <3>1. Append(frag, s[c + 1]) \in Seq(Items) /\ <<>> \in Seq(Items)
      BY <1>2
    <3>2. parts \in {frag, <<>>, Append(frag, s[c + 1])}
      BY <2>1 DEF FragAppend
    <3>. QED
      BY <3>1, <3>2
  <2>4. 1 \in 1..Len(parts)
    BY <2>3
  <2>. QED
    <3>1. CASE parts = Before(s, m, c + 1)
      <4>1. parts[1].n = m
        BY <3>1, <1>1, <2>4, BeforeOf
      <4>. QED
        BY <3>1, <4>1, <1>4
    <3>2. CASE TooLarge(s, m) /\ \A p \in 1..Len(parts) : parts[p].n = m
      BY <3>2, <2>4
    <3>. QED
      BY <2>2, <3>1, <3>2
<1>. QED
  BY <1>11, <1>12, <1>13
-----------------------------------------------------------------------------

\* How far the request head of a client has come.
HeadOK(s, cl, c) ==
  /\ cl.upgraded => \A q \in 1..Len(s) : s[q].op \in Heads => q <= c
  /\ ~cl.upgraded => \/ c = 0 /\ (cl.rx = <<>> \/ (Len(cl.rx) = 1 /\ cl.rx[1].op = "head"))
                     \/ c = 1 /\ cl.rx = <<>> /\ s[1].op = "head"
  /\ \A q \in 1..c : s[q].op \notin {"close", "huge"}

\* The messages dispatched ended among the first c items.
GotOK(s, c, g) ==
  \A p \in 1..Len(g) : \E q \in 1..c : s[q].fin /\ s[q].n > 0 /\ s[q].n = g[p][1].n

\* A client with script s that has sent m items, of which w have not been
\* received, whose messages g were dispatched and whose slot is cl, after c
\* items were decoded.
ClientOK(s, m, w, g, cl, c) ==
  /\ Follows(s, m, cl.upgraded, cl.rx \o w, c)
  /\ HeadOK(s, cl, c) /\ GotOK(s, c, g)
  /\ FragOwn(s, c, cl.frag) /\ FragSum(s, c, cl.frag)

\* What was received, and what was not.
LEMMA JoinFacts ==
    ASSUME NEW a \in Seq(Items), NEW b \in Seq(Items)
    PROVE  /\ a \o b \in Seq(Items) /\ a \o <<>> = a /\ <<>> \o b = b
           /\ \A x \in Items : a \o Append(b, x) = Append(a \o b, x)
           /\ a # <<>> => a \o b # <<>> /\ Head(a \o b) = Head(a) /\ Tail(a \o b) = Tail(a) \o b
<1>1. a \o b \in Seq(Items) /\ a \o <<>> = a /\ <<>> \o b = b
  OBVIOUS
<1>2. \A x \in Items : a \o Append(b, x) = Append(a \o b, x)
  OBVIOUS
<1>3. a # <<>> => a \o b # <<>> /\ Head(a \o b) = Head(a) /\ Tail(a \o b) = Tail(a) \o b
  OBVIOUS
<1>. QED
  BY <1>1, <1>2, <1>3

\* An item is sent behind them.
LEMMA JoinAppend ==
    ASSUME NEW a \in Seq(Items), NEW b \in Seq(Items), NEW x \in Items
    PROVE  a \o Append(b, x) = Append(a \o b, x)
OBVIOUS

\* A client sends the next item of its script.
LEMMA ClientSends ==
    ASSUME NEW s \in Seq(Items), NEW m, NEW w \in Seq(Items), NEW g, NEW cl \in Client0, NEW c,
           ClientOK(s, m, w, g, cl, c), m < Len(s)
    PROVE  ClientOK(s, m + 1, Append(w, s[m + 1]), g, cl, c)
<1>1. cl.rx \in Seq(Items) /\ cl.upgraded \in BOOLEAN
  BY DEF Client0
<1>2. cl.rx \o w \in Seq(Items)
  BY <1>1, JoinFacts
<1>3. m \in 0..Len(s) /\ Len(s) \in Nat
  <2>1. m \in 0..Len(s)
    BY DEF ClientOK, Follows
  <2>. QED
    BY <2>1
<1>4. m + 1 \in 0..Len(s) /\ m + 1 \in 1..Len(s)
  BY <1>3
<1>5. s[m + 1] \in Items
  BY <1>4
<1>6. Moves(s, cl.upgraded, s[m + 1], m, m + 1)
  BY <1>4 DEF Moves
<1>7. Follows(s, m + 1, cl.upgraded, Append(cl.rx \o w, s[m + 1]), c)
  BY <1>1, <1>2, <1>4, <1>5, <1>6, FollowsAppend DEF ClientOK
<1>8. cl.rx \o Append(w, s[m + 1]) = Append(cl.rx \o w, s[m + 1])
  BY <1>1, <1>5, JoinAppend
<1>. QED
  BY <1>7, <1>8 DEF ClientOK

\* A client sends a resume between two messages.
LEMMA ClientResumes ==
    ASSUME NEW s \in Seq(Items), NEW m, NEW w \in Seq(Items), NEW g, NEW cl \in Client0, NEW c,
           ClientOK(s, m, w, g, cl, c), cl.upgraded, Pausing(s, m)
    PROVE  ClientOK(s, m, Append(w, Resume), g, cl, c)
<1>1. cl.rx \in Seq(Items) /\ cl.upgraded \in BOOLEAN
  BY DEF Client0
<1>2. cl.rx \o w \in Seq(Items)
  BY <1>1, JoinFacts
<1>3. m \in 0..Len(s) /\ Len(s) \in Nat
  <2>1. m \in 0..Len(s)
    BY DEF ClientOK, Follows
  <2>. QED
    BY <2>1
<1>4. Moves(s, cl.upgraded, Resume, m, m)
  BY DEF Moves
<1>5. Follows(s, m, cl.upgraded, Append(cl.rx \o w, Resume), c)
  BY <1>1, <1>2, <1>3, <1>4, ResumeType, FollowsAppend DEF ClientOK
<1>6. cl.rx \o Append(w, Resume) = Append(cl.rx \o w, Resume)
  BY <1>1, ResumeType, JoinAppend
<1>. QED
  BY <1>5, <1>6 DEF ClientOK

\* The next item of a client: a resume, or the one behind the first c of its
\* script.
NextItem(s, m, up, st, c) ==
  /\ c \in 0..Len(s) /\ Head(st) \in Items
  /\ \/ up = TRUE /\ Head(st) = Resume /\ Pausing(s, c) /\ Follows(s, m, up, Tail(st), c)
     \/ /\ c \in 0..Len(s) - 1 /\ Head(st) = s[c + 1] /\ Follows(s, m, up, Tail(st), c + 1)
        /\ Head(st) # Resume

\* The first item that a client sent is the next of its script, or a resume.
LEMMA ClientNext ==
    ASSUME NEW s \in Seq(Items), Conforms(s), NEW m, NEW up, NEW st \in Seq(Items), NEW c,
           Follows(s, m, up, st, c), st # <<>>
    PROVE  NextItem(s, m, up, st, c)
<1>1. PICK d \in 0..m : Moves(s, up, Head(st), c, d) /\ Follows(s, m, up, Tail(st), d)
  BY FollowsTail
<1>2. c \in 0..m /\ m \in 0..Len(s) /\ Len(s) \in Nat
  <2>1. c \in 0..m /\ m \in 0..Len(s)
    BY FollowsOwn, Zenon
  <2>. QED
    BY <2>1
<1>3. c \in 0..Len(s) /\ Head(st) \in Items
  BY <1>2
<1>4. CASE d = c + 1 /\ d \in 1..Len(s) /\ Head(st) = s[d]
  <2>1. c \in 0..Len(s) - 1
    BY <1>2, <1>4
  <2>2. s[d] # Resume
    <3>1. s[d].n > 0 <=> s[d].op \in {"text", "cont"}
      BY <1>4, ConformFacts
    <3>2. Resume.n = 0 /\ Resume.op = "text"
      BY DEF Resume
    <3>. QED
      BY <3>1, <3>2
  <2>. QED
    BY <1>1, <1>3, <1>4, <2>1, <2>2 DEF NextItem
<1>5. CASE up = TRUE /\ d = c /\ Head(st) = Resume /\ Pausing(s, c)
  BY <1>1, <1>3, <1>5 DEF NextItem
<1>. QED
  BY <1>1, <1>4, <1>5 DEF Moves

\* recv() moves what has arrived into the slot.
LEMMA ClientReceives ==
    ASSUME NEW s \in Seq(Items), Conforms(s), NEW m, NEW w \in Seq(Items), NEW g, NEW cl \in Client0, NEW c,
           ClientOK(s, m, w, g, cl, c), NEW rx, rx = cl.rx \o w,
           cl.upgraded \/ RequestHead(rx) = "partial"
    PROVE  ClientOK(s, m, <<>>, g, [cl EXCEPT !.rx = rx], c)
<1>1. cl.rx \in Seq(Items) /\ cl.upgraded \in BOOLEAN /\ rx \in Seq(Items)
  BY JoinFacts DEF Client0
<1>2. PICK new : new = [cl EXCEPT !.rx = rx]
  OBVIOUS
<1>3. new.rx = rx /\ new.upgraded = cl.upgraded /\ new.frag = cl.frag
  BY <1>2 DEF Client0
<1>4. new.rx \o <<>> = cl.rx \o w
  BY <1>1, <1>3, JoinFacts
<1>5. HeadOK(s, new, c)
  <2>1. CASE cl.upgraded
    BY <2>1, <1>3 DEF HeadOK, ClientOK
  <2>2. CASE ~cl.upgraded /\ rx = <<>>
    BY <2>2, <1>3 DEF HeadOK, ClientOK
  <2>3. CASE ~cl.upgraded /\ rx # <<>>
    <3>1. rx[1].op = "head" /\ Len(rx) = 1
      BY <2>3 DEF RequestHead
    <3>2. c = 0
      <4>1. SUFFICES ASSUME c = 1, s[1].op = "head" PROVE FALSE
        BY <2>3 DEF ClientOK, HeadOK
      <4>2. Follows(s, m, cl.upgraded, rx, c)
        BY DEF ClientOK
      <4>3. c \in 0..Len(s) - 1 /\ Head(rx) = s[c + 1]
        <5>1. cl.upgraded # TRUE
          BY <1>1, <2>3
        <5>2. NextItem(s, m, cl.upgraded, rx, c)
          BY <4>2, <2>3, <1>1, ClientNext
        <5>. QED
          BY <5>1, <5>2 DEF NextItem
      <4>4. 2 \in 1..Len(s) /\ rx[1] = s[2]
        BY <4>1, <4>3, <1>1, <2>3
      <4>. QED
        BY <4>1, <4>4, <3>1, ConformFacts
    <3>. QED
      BY <2>3, <3>1, <3>2, <1>3 DEF HeadOK, ClientOK
  <2>. QED
    BY <2>1, <2>2, <2>3, <1>1
<1>6. ClientOK(s, m, <<>>, g, new, c)
  BY <1>3, <1>4, <1>5 DEF ClientOK
<1>. QED
  BY <1>2, <1>6

\* do_handshake.
LEMMA ClientUpgrades ==
    ASSUME NEW s \in Seq(Items), Conforms(s), NEW m, NEW w \in Seq(Items), NEW g, NEW cl \in Client0, NEW c,
           ClientOK(s, m, w, g, cl, c), NEW rx, rx = cl.rx \o w,
           ~cl.upgraded, RequestHead(rx) = "upgrade"
    PROVE  \E d \in Nat : ClientOK(s, m, <<>>, g, [cl EXCEPT !.rx = BehindHead(rx), !.upgraded = TRUE], d)
<1>1. cl.rx \in Seq(Items) /\ cl.upgraded \in BOOLEAN /\ rx \in Seq(Items) /\ Len(s) \in Nat
  BY JoinFacts DEF Client0
<1>2. rx # <<>> /\ (rx[1].op = "upgrade" \/ (rx[1].op = "head" /\ Len(rx) # 1))
  BY DEF RequestHead
<1>0. PICK up : up = cl.upgraded /\ up # TRUE
  BY <1>1
<1>3. Follows(s, m, up, rx, c)
  BY <1>0 DEF ClientOK
<1>4. c \in 0..Len(s) - 1 /\ rx[1] = s[c + 1] /\ Follows(s, m, up, Tail(rx), c + 1)
  <2>2. c \in 0..Len(s) - 1 /\ Head(rx) = s[c + 1] /\ Follows(s, m, up, Tail(rx), c + 1)
    <3>1. NextItem(s, m, up, rx, c)
      BY <1>1, <1>2, <1>3, ClientNext
    <3>. QED
      BY <1>0, <3>1 DEF NextItem
  <2>3. Head(rx) = rx[1]
    BY <1>1, <1>2
  <2>. QED
    BY <2>2, <2>3
<1>5. c = 0
  <2>1. SUFFICES ASSUME c = 1, s[1].op = "head" PROVE FALSE
    BY DEF ClientOK, HeadOK
  <2>2. 2 \in 1..Len(s) /\ rx[1] = s[2]
    BY <2>1, <1>1, <1>4
  <2>. QED
    BY <2>1, <2>2, <1>2, ConformFacts
<1>6. rx[1] = s[1] /\ Follows(s, m, up, Tail(rx), 1) /\ 1 \in 1..Len(s)
  <2>1. c + 1 = 1
    BY <1>5
  <2>2. 1 \in 1..Len(s)
    BY <1>1, <1>4, <1>5
  <2>. QED
    BY <2>1, <2>2, <1>4
<1>7. PICK d \in {1, 2} : /\ d \in 1..Len(s) /\ Follows(s, m, up, BehindHead(rx), d) /\ s[d].op \in Heads
                          /\ \A q \in 1..Len(s) : s[q].op \in Heads => q <= d
                          /\ \A q \in 1..d : s[q].op \in Heads
  <2>1. CASE rx[1].op = "upgrade"
    <3>1. BehindHead(rx) = Tail(rx)
      BY <2>1 DEF BehindHead
    <3>2. \A q \in 1..Len(s) : s[q].op \in Heads => q = 1
      BY <2>1, <1>6, ConformFacts
    <3>3. s[1].op \in Heads /\ \A q \in 1..1 : q = 1
      BY <2>1, <1>6 DEF Heads
    <3>4. \A q \in 1..Len(s) : s[q].op \in Heads => q <= 1
      BY <3>2
    <3>5. Follows(s, m, up, BehindHead(rx), 1)
      BY <3>1, <1>6
    <3>. QED
      BY <3>3, <3>4, <3>5, <1>6
  <2>2. CASE rx[1].op = "head" /\ Len(rx) # 1
    <3>1. BehindHead(rx) = SubSeq(rx, 3, Len(rx))
      BY <2>2 DEF BehindHead
    <3>2. PICK t \in Seq(Items) : t = Tail(rx) /\ t # <<>> /\ Tail(t) = SubSeq(rx, 3, Len(rx))
      <4>1. Len(rx) \in Nat \ {0, 1}
        BY <1>1, <1>2, <2>2
      <4>2. Tail(rx) \in Seq(Items) /\ Len(Tail(rx)) = Len(rx) - 1
        BY <1>1, <1>2
      <4>3. Tail(rx) # <<>>
        <5>1. Len(Tail(rx)) # 0
          BY <4>1, <4>2
        <5>. QED
          BY <5>1
      <4>4. Tail(Tail(rx)) = SubSeq(rx, 3, Len(rx))
        BY <1>1, <4>1
      <4>. QED
        BY <4>2, <4>3, <4>4
    <3>3. 1 \in 0..Len(s) - 1 /\ Head(t) = s[1 + 1] /\ Follows(s, m, up, Tail(t), 1 + 1)
      <4>1. Follows(s, m, up, t, 1)
        BY <1>6, <3>2
      <4>2. NextItem(s, m, up, t, 1)
        BY <3>2, <4>1, ClientNext
      <4>. QED
        BY <1>0, <4>2 DEF NextItem
    <3>4. 2 \in 1..Len(s) /\ Follows(s, m, up, BehindHead(rx), 2)
      <4>1. 1 + 1 = 2
        OBVIOUS
      <4>2. 2 \in 1..Len(s)
        BY <3>3, <1>1
      <4>. QED
        BY <3>1, <3>2, <3>3, <4>1, <4>2
    <3>5. s[2].op = "rest" /\ s[1].op = "head"
      BY <3>4, <2>2, <1>6, ConformFacts
    <3>6. \A q \in 1..Len(s) : s[q].op \in Heads => q <= 2
      <4>1. \A q \in 1..Len(s) : s[q].op \in Heads => q = 1 \/ q = 2
        BY ConformFacts
      <4>. QED
        BY <4>1
    <3>7. \A q \in 1..2 : q = 1 \/ q = 2
      OBVIOUS
    <3>8. \A q \in 1..2 : s[q].op \in Heads
      BY <3>5, <3>7 DEF Heads
    <3>. QED
      BY <3>4, <3>5, <3>6, <3>8 DEF Heads
  <2>. QED
    BY <2>1, <2>2, <1>2
<1>8. PICK new : new = [cl EXCEPT !.rx = BehindHead(rx), !.upgraded = TRUE]
  OBVIOUS
<1>9. new.rx = BehindHead(rx) /\ new.upgraded = TRUE /\ new.frag = cl.frag
  BY <1>8 DEF Client0
<1>10. BehindHead(rx) \in Seq(Items)
  <2>1. Tail(rx) \in Seq(Items) /\ SubSeq(rx, 3, Len(rx)) \in Seq(Items)
    BY <1>1, <1>2
  <2>2. BehindHead(rx) \in {Tail(rx), SubSeq(rx, 3, Len(rx))}
    BY DEF BehindHead
  <2>. QED
    BY <2>1, <2>2
<1>11. Follows(s, m, new.upgraded, new.rx \o <<>>, d)
  <2>1. new.rx \o <<>> = BehindHead(rx)
    BY <1>9, <1>10, JoinFacts
  <2>. QED
    BY <2>1, <1>7, <1>9, FollowsUp
<1>12. HeadOK(s, new, d)
  BY <1>7, <1>9 DEF HeadOK, Heads
<1>13. FragSum(s, d, new.frag)
  <2>1. d \in 0..Len(s)
    BY <1>1, <1>7
  <2>. QED
    BY <2>1, <1>7, FragEnded
<1>14. \A q \in 1..c : q \in 1..d
  BY <1>5
<1>15. FragOwn(s, d, new.frag) /\ GotOK(s, d, g)
  BY <1>9, <1>14 DEF ClientOK, FragOwn, GotOK
<1>16. ClientOK(s, m, <<>>, g, new, d)
  BY <1>11, <1>12, <1>13, <1>15 DEF ClientOK
<1>. QED
  BY <1>8, <1>16
-----------------------------------------------------------------------------

\* The item that is decoded next.
Decodes(s, m, w, cl, c, d) ==
  /\ c \in 0..Len(s) /\ d \in 0..Len(s) /\ Head(cl.rx) \in Items
  /\ \/ cl.upgraded = TRUE /\ d = c /\ Head(cl.rx) = Resume /\ Pausing(s, c)
     \/ d = c + 1 /\ c \in 0..Len(s) - 1 /\ Head(cl.rx) = s[c + 1] /\ Head(cl.rx) # Resume
  /\ Follows(s, m, cl.upgraded, Tail(cl.rx) \o w, d)
  /\ cl.upgraded \/ (c = 0 /\ d = 1 /\ Head(cl.rx).op = "head" /\ Tail(cl.rx) = <<>>)
  /\ cl.upgraded => Head(cl.rx).op \notin Heads

\* A client that is upgraded has only frames left, any other one only the start of its
\* request.
LEMMA ClientItem ==
    ASSUME NEW s \in Seq(Items), Conforms(s), NEW m, NEW w \in Seq(Items), NEW g, NEW cl \in Client0, NEW c,
           ClientOK(s, m, w, g, cl, c), cl.rx # <<>>
    PROVE  \E d \in Nat : Decodes(s, m, w, cl, c, d)
<1>1. cl.rx \in Seq(Items) /\ cl.upgraded \in BOOLEAN /\ Len(s) \in Nat
  BY DEF Client0
<1>2. PICK st \in Seq(Items) : st = cl.rx \o w
  BY <1>1, JoinFacts
<1>3. st # <<>> /\ Head(st) = Head(cl.rx) /\ Tail(st) = Tail(cl.rx) \o w
  <2>1. PICK a \in Seq(Items) : a = cl.rx
    BY <1>1
  <2>2. a \o w # <<>> /\ Head(a \o w) = Head(a) /\ Tail(a \o w) = Tail(a) \o w
    BY ONLY ZenonT(30), <2>1, a \in Seq(Items), w \in Seq(Items), cl.rx # <<>>, JoinFacts
  <2>. QED
    BY <2>1, <2>2, <1>2, Zenon
<1>4. Follows(s, m, cl.upgraded, st, c)
  BY <1>2 DEF ClientOK
<1>5. NextItem(s, m, cl.upgraded, st, c)
  BY <1>3, <1>4, ClientNext
<1>6. c \in 0..Len(s) /\ Head(cl.rx) \in Items
  BY <1>5, <1>3 DEF NextItem
<1>7. PICK d \in 0..Len(s) :
        /\ \/ cl.upgraded = TRUE /\ d = c /\ Head(cl.rx) = Resume /\ Pausing(s, c)
           \/ d = c + 1 /\ c \in 0..Len(s) - 1 /\ Head(cl.rx) = s[c + 1] /\ Head(cl.rx) # Resume
        /\ Follows(s, m, cl.upgraded, Tail(cl.rx) \o w, d)
  <2>1. CASE cl.upgraded = TRUE /\ Head(st) = Resume /\ Pausing(s, c) /\ Follows(s, m, cl.upgraded, Tail(st), c)
    BY <2>1, <1>3, <1>6
  <2>2. CASE /\ c \in 0..Len(s) - 1 /\ Head(st) = s[c + 1] /\ Follows(s, m, cl.upgraded, Tail(st), c + 1)
             /\ Head(st) # Resume
    <3>1. c + 1 \in 0..Len(s)
      BY <2>2, <1>1
    <3>. QED
      BY <2>2, <3>1, <1>3
  <2>. QED
    BY <2>1, <2>2, <1>5 DEF NextItem
<1>8. cl.upgraded \/ (c = 0 /\ d = 1 /\ Head(cl.rx).op = "head" /\ Tail(cl.rx) = <<>>)
  <2>1. ASSUME ~cl.upgraded PROVE c = 0 /\ d = 1 /\ Head(cl.rx).op = "head" /\ Tail(cl.rx) = <<>>
    <3>1. c = 0 /\ Len(cl.rx) = 1 /\ cl.rx[1].op = "head"
      BY <2>1 DEF ClientOK, HeadOK
    <3>2. d = 1
      BY <2>1, <3>1, <1>1, <1>7
    <3>3. Tail(cl.rx) = <<>> /\ Head(cl.rx) = cl.rx[1]
      <4>1. Tail(cl.rx) \in Seq(Items) /\ Len(Tail(cl.rx)) = 0 /\ Head(cl.rx) = cl.rx[1]
        BY <3>1, <1>1, PopFacts
      <4>2. PICK t \in Seq(Items) : t = Tail(cl.rx)
        BY <4>1
      <4>3. Len(t) = 0
        BY <4>1, <4>2, Zenon
      <4>4. t = <<>>
        BY ONLY <4>3, t \in Seq(Items)
      <4>. QED
        BY <4>1, <4>2, <4>4
    <3>. QED
      BY <3>1, <3>2, <3>3
  <2>. QED
    BY <2>1
<1>9. cl.upgraded => Head(cl.rx).op \notin Heads
  <2>1. ASSUME cl.upgraded, Head(cl.rx).op \in Heads PROVE FALSE
    <3>1. Resume.op \notin Heads
      BY DEF Resume, Heads
    <3>2. d = c + 1 /\ c \in 0..Len(s) - 1 /\ Head(cl.rx) = s[c + 1]
      BY <2>1, <3>1, <1>7
    <3>3. c + 1 \in 1..Len(s) /\ ~(c + 1 <= c)
      BY <3>2, <1>1
    <3>. QED
      BY <2>1, <3>2, <3>3 DEF ClientOK, HeadOK
  <2>. QED
    BY <2>1
<1>10. Decodes(s, m, w, cl, c, d)
  BY <1>6, <1>7, <1>8, <1>9 DEF Decodes
<1>. QED
  BY <1>7, <1>10

\* A client after an item was decoded that does not end the connection.
LEMMA ClientDecoded ==
    ASSUME NEW s \in Seq(Items), Conforms(s), NEW m, NEW w \in Seq(Items), NEW g, NEW cl \in Client0, NEW c,
           ClientOK(s, m, w, g, cl, c), NEW d, Decodes(s, m, w, cl, c, d),
           Head(cl.rx).op \notin {"close", "huge"}, NEW new, NEW h,
           new.rx = Tail(cl.rx), new.upgraded = cl.upgraded,
           FragOwn(s, d, new.frag), FragSum(s, d, new.frag), GotOK(s, d, h)
    PROVE  ClientOK(s, m, w, h, new, d)
<1>1. Len(s) \in Nat /\ c \in 0..Len(s) /\ d \in 0..Len(s) /\ (d = c \/ d = c + 1)
  BY DEF Decodes
<1>2. \A q \in 1..d : q \in 1..c \/ (q = c + 1 /\ d = c + 1)
  BY <1>1
<1>3. d = c + 1 => s[c + 1].op \notin {"close", "huge"}
  BY <1>1 DEF Decodes
<1>4. \A q \in 1..d : s[q].op \notin {"close", "huge"}
  BY <1>2, <1>3 DEF ClientOK, HeadOK
<1>5. ASSUME new.upgraded, NEW q \in 1..Len(s), s[q].op \in Heads PROVE q <= d
  <2>1. q <= c
    BY <1>5 DEF ClientOK, HeadOK
  <2>. QED
    BY <2>1, <1>1
<1>6. ASSUME ~new.upgraded PROVE d = 1 /\ new.rx = <<>> /\ s[1].op = "head"
  <2>1. c = 0 /\ d = 1 /\ Head(cl.rx).op = "head" /\ Tail(cl.rx) = <<>>
    BY <1>6 DEF Decodes
  <2>2. Head(cl.rx) = s[c + 1]
    BY <2>1 DEF Decodes
  <2>3. c + 1 = 1
    BY <2>1
  <2>. QED
    BY <2>1, <2>2, <2>3
<1>7. HeadOK(s, new, d)
  BY <1>4, <1>5, <1>6 DEF HeadOK
<1>8. Follows(s, m, new.upgraded, new.rx \o w, d)
  BY DEF Decodes
<1>. QED
  BY <1>7, <1>8 DEF ClientOK

\* What holds of the first c items holds of them among the first d.
LEMMA ClientKeeps ==
    ASSUME NEW s \in Seq(Items), NEW m, NEW w, NEW g, NEW cl, NEW c,
           ClientOK(s, m, w, g, cl, c), NEW d, Decodes(s, m, w, cl, c, d)
    PROVE  FragOwn(s, d, cl.frag) /\ GotOK(s, d, g)
<1>1. \A q \in 1..c : q \in 1..d
  BY DEF Decodes
<1>. QED
  BY <1>1 DEF ClientOK, FragOwn, GotOK

\* A frame of the script, other than a resume, is the next item of it.
LEMMA ClientOwnItem ==
    ASSUME NEW s \in Seq(Items), Conforms(s), NEW m, NEW w, NEW cl, NEW c, NEW d,
           Decodes(s, m, w, cl, c, d), Head(cl.rx) # Resume
    PROVE  /\ d = c + 1 /\ c \in 0..Len(s) - 1 /\ Head(cl.rx) = s[c + 1] /\ c + 1 \in 1..Len(s)
           /\ s[c + 1] \in Items /\ c + 1 \in 1..c + 1
<1>1. d = c + 1 /\ c \in 0..Len(s) - 1 /\ Head(cl.rx) = s[c + 1] /\ Len(s) \in Nat
  BY DEF Decodes
<1>2. c + 1 \in 1..Len(s) /\ c + 1 \in 1..c + 1
  BY <1>1
<1>. QED
  BY <1>1, <1>2

\* cdp_frag_append keeps the items of the client.
LEMMA FragAppendOwn ==
    ASSUME NEW s, NEW d, NEW frag \in Seq(Items), NEW x \in Items, FragOwn(s, d, frag),
           NEW q \in 1..d, s[q] = x
    PROVE  FragOwn(s, d, FragAppend(frag, x))
<1>1. FragAppend(frag, x) \in {frag, <<>>, Append(frag, x)}
  BY DEF FragAppend
<1>2. \A p \in 1..Len(Append(frag, x)) : Append(frag, x)[p] = x \/ (p \in 1..Len(frag) /\ Append(frag, x)[p] = frag[p])
  OBVIOUS
<1>3. FragOwn(s, d, Append(frag, x))
  BY <1>2 DEF FragOwn
<1>4. FragOwn(s, d, <<>>)
  BY DEF FragOwn
<1>. QED
  BY <1>1, <1>3, <1>4

\* A ping.
LEMMA ClientPinged ==
    ASSUME NEW s \in Seq(Items), Conforms(s), NEW m, NEW w \in Seq(Items), NEW g, NEW cl \in Client0, NEW c,
           ClientOK(s, m, w, g, cl, c), NEW d, Decodes(s, m, w, cl, c, d),
           Head(cl.rx).op = "ping", NEW new, new.rx = Tail(cl.rx),
           new.upgraded = cl.upgraded, new.frag = cl.frag
    PROVE  ClientOK(s, m, w, g, new, d)
<1>1. Head(cl.rx) # Resume
  BY DEF Resume
<1>2. d = c + 1 /\ c \in 0..Len(s) - 1 /\ Head(cl.rx) = s[c + 1] /\ c + 1 \in 1..Len(s)
  BY <1>1, ClientOwnItem
<1>3. s[c + 1].n = 0
  BY SMTT(30), <1>2, ConformFacts
<1>4. FragSum(s, d, new.frag)
  BY <1>2, <1>3, FragOther DEF ClientOK
<1>5. FragOwn(s, d, new.frag) /\ GotOK(s, d, g)
  BY ClientKeeps
<1>. QED
  BY <1>4, <1>5, ClientDecoded

\* A fragment.
LEMMA ClientFragment ==
    ASSUME NEW s \in Seq(Items), Conforms(s), NEW m, NEW w \in Seq(Items), NEW g, NEW cl \in Client0, NEW c,
           ClientOK(s, m, w, g, cl, c), NEW d, Decodes(s, m, w, cl, c, d),
           Head(cl.rx).op \in {"text", "cont"}, ~Head(cl.rx).fin, NEW new, new.rx = Tail(cl.rx),
           new.upgraded = cl.upgraded,
           new.frag = FragAppend(IF Head(cl.rx).op = "text" THEN <<>> ELSE cl.frag, Head(cl.rx))
    PROVE  ClientOK(s, m, w, g, new, d)
<1>1. Head(cl.rx) # Resume
  BY DEF Resume
<1>2. /\ d = c + 1 /\ c \in 0..Len(s) - 1 /\ Head(cl.rx) = s[c + 1] /\ c + 1 \in 1..Len(s)
      /\ s[c + 1] \in Items /\ c + 1 \in 1..c + 1
  BY <1>1, ClientOwnItem
<1>3. cl.frag \in Seq(Items) /\ <<>> \in Seq(Items)
  BY DEF Client0
<1>4. FragSum(s, d, new.frag)
  <2>1. CASE Head(cl.rx).op = "text"
    BY <2>1, <1>2, FragText
  <2>2. CASE Head(cl.rx).op = "cont"
    <3>1. new.frag = FragAppend(cl.frag, s[c + 1])
      BY <2>2, <1>2
    <3>. QED
      BY <2>2, <3>1, <1>2, <1>3, FragCont DEF ClientOK
  <2>. QED
    BY <2>1, <2>2
<1>5. FragOwn(s, d, cl.frag) /\ FragOwn(s, d, <<>>) /\ GotOK(s, d, g)
  <2>1. FragOwn(s, d, <<>>)
    BY DEF FragOwn
  <2>. QED
    BY <2>1, ClientKeeps
<1>6. FragOwn(s, d, new.frag)
  <2>1. PICK f \in Seq(Items) : FragOwn(s, d, f) /\ new.frag = FragAppend(f, s[c + 1])
    BY <1>2, <1>3, <1>5
  <2>. QED
    BY <2>1, <1>2, FragAppendOwn
<1>. QED
  BY <1>4, <1>5, <1>6, ClientDecoded

\* The start of a request head, in the slot of another client's frames.
LEMMA ClientHead ==
    ASSUME NEW s \in Seq(Items), Conforms(s), NEW m, NEW w \in Seq(Items), NEW g, NEW cl \in Client0, NEW c,
           ClientOK(s, m, w, g, cl, c), NEW d, Decodes(s, m, w, cl, c, d),
           Head(cl.rx).op = "head", NEW new, new.rx = Tail(cl.rx),
           new.upgraded = cl.upgraded, new.frag = FragAppend(cl.frag, Head(cl.rx))
    PROVE  ClientOK(s, m, w, g, new, d)
<1>1. Head(cl.rx) # Resume
  BY DEF Resume
<1>2. /\ d = c + 1 /\ c \in 0..Len(s) - 1 /\ Head(cl.rx) = s[c + 1] /\ c + 1 \in 1..Len(s)
      /\ s[c + 1] \in Items /\ c + 1 \in 1..c + 1
  BY <1>1, ClientOwnItem
<1>3. cl.frag \in Seq(Items) /\ d \in 0..Len(s)
  BY DEF Client0, Decodes
<1>4. FragSum(s, d, new.frag)
  <2>1. s[d].op \in Heads
    BY <1>2 DEF Heads
  <2>. QED
    BY <2>1, <1>3, FragEnded
<1>5. FragOwn(s, d, cl.frag) /\ GotOK(s, d, g)
  BY ClientKeeps
<1>6. FragOwn(s, d, new.frag)
  BY <1>2, <1>3, <1>5, FragAppendOwn
<1>. QED
  BY <1>4, <1>5, <1>6, ClientDecoded
-----------------------------------------------------------------------------

\* The messages dispatched are whole and in the order of the script.
MsgsOK(s, g) ==
  /\ \A p \in 1..Len(g) : g[p] = Before(s, g[p][1].n, Len(s)) \/ TooLarge(s, g[p][1].n)
  /\ \A p, q \in 1..Len(g) : p < q => g[p][1].n < g[q][1].n

\* WholeMessages, by positions.
LEMMA WholeIs ==
    ASSUME CdpTypes
    PROVE  WholeMessages <=> \A k \in Conns : MsgsOK(script[k], got[k])
<1>1. ASSUME NEW k \in Conns
      PROVE  /\ \A n : Fragments(k, n) = Before(script[k], n, Len(script[k]))
             /\ DOMAIN got[k] = 1..Len(got[k])
  <2>1. script[k] \in Seq(Items) /\ got[k] \in Seq(Seq(Items))
    BY DEF CdpTypes
  <2>. QED
    BY <2>1, FragmentsIs
<1>2. ASSUME NEW k \in Conns
      PROVE  MsgsOK(script[k], got[k]) <=>
               /\ \A p \in DOMAIN got[k] : got[k][p] = Fragments(k, got[k][p][1].n)
                                           \/ SizeOf(Fragments(k, got[k][p][1].n)) > MaxFrag
               /\ \A p, q \in DOMAIN got[k] : p < q => got[k][p][1].n < got[k][q][1].n
  BY <1>1 DEF MsgsOK, TooLarge
<1>. QED
  BY <1>2 DEF WholeMessages

\* The next message of the script.
NextMessage(s, g, parts) ==
  /\ parts[1].n \in Nat \ {0} /\ parts[1].n # 0
  /\ \A p \in 1..Len(g) : g[p][1].n < parts[1].n
  /\ MsgsOK(s, Append(g, parts))

\* Another message is dispatched, later than the others.
LEMMA MsgsAppend ==
    ASSUME NEW s, NEW g \in Seq(Seq(Items)), NEW parts \in Seq(Items), MsgsOK(s, g),
           parts = Before(s, parts[1].n, Len(s)) \/ TooLarge(s, parts[1].n),
           \A p \in 1..Len(g) : g[p][1].n < parts[1].n
    PROVE  MsgsOK(s, Append(g, parts))
<1>1. PICK h \in Seq(Seq(Items)) : h = Append(g, parts)
  <2>1. Append(g, parts) \in Seq(Seq(Items))
    OBVIOUS
  <2>. QED
    BY <2>1
<1>2. Len(g) \in Nat /\ Len(h) = Len(g) + 1 /\ h[Len(g) + 1] = parts /\ \A p \in 1..Len(g) : h[p] = g[p]
  BY <1>1
<1>3. \A p \in 1..Len(h) : p \in 1..Len(g) \/ p = Len(g) + 1
  BY <1>2
<1>4. \A p \in 1..Len(h) : h[p] = Before(s, h[p][1].n, Len(s)) \/ TooLarge(s, h[p][1].n)
  BY <1>2, <1>3 DEF MsgsOK
<1>5. ASSUME NEW p \in 1..Len(h), NEW q \in 1..Len(h), p < q PROVE h[p][1].n < h[q][1].n
  <2>1. p \in 1..Len(g)
    BY <1>2, <1>5
  <2>2. CASE q \in 1..Len(g)
    BY <2>1, <2>2, <1>2, <1>5 DEF MsgsOK
  <2>3. CASE q = Len(g) + 1
    BY <2>1, <2>3, <1>2
  <2>. QED
    BY <2>2, <2>3, <1>3
<1>. QED
  BY <1>1, <1>4, <1>5 DEF MsgsOK

\* The message that a final frame completes.
LEMMA ClientMessage ==
    ASSUME NEW s \in Seq(Items), Conforms(s), NEW m, NEW w \in Seq(Items), NEW g \in Seq(Seq(Items)),
           NEW cl \in Client0, NEW c \in Nat,
           ClientOK(s, m, w, g, cl, c), NEW d, Decodes(s, m, w, cl, c, d),
           Head(cl.rx).op \in {"text", "cont"}, Head(cl.rx).fin, NEW new, new.rx = Tail(cl.rx),
           new.upgraded = cl.upgraded, new.frag = <<>>, MsgsOK(s, g), Head(cl.rx) # Resume,
           NEW parts \in Seq(Items),
           parts = Taken(Head(cl.rx), cl.frag)
    PROVE  /\ ClientOK(s, m, w, g, new, d)
           /\ parts # <<>> => ClientOK(s, m, w, Append(g, parts), new, d) /\ NextMessage(s, g, parts)
<1>1. /\ d = c + 1 /\ c \in 0..Len(s) - 1 /\ Head(cl.rx) = s[c + 1] /\ c + 1 \in 1..Len(s)
      /\ s[c + 1] \in Items /\ c + 1 \in 1..c + 1 /\ Len(s) \in Nat
  BY ClientOwnItem
<1>2. cl.frag \in Seq(Items) /\ d \in 0..Len(s)
  BY DEF Client0, Decodes
<1>3. FragSum(s, d, new.frag)
  BY <1>1, <1>2, FragEnded
<1>4. FragOwn(s, d, new.frag) /\ GotOK(s, d, g)
  <2>1. FragOwn(s, d, <<>>)
    BY DEF FragOwn
  <2>. QED
    BY <2>1, ClientKeeps
<1>5. Head(cl.rx).op \notin {"close", "huge"}
  OBVIOUS
<1>6. ClientOK(s, m, w, g, new, d)
  BY <1>3, <1>4, <1>5, ClientDecoded
<1>7. ASSUME parts # <<>>
      PROVE  ClientOK(s, m, w, Append(g, parts), new, d) /\ NextMessage(s, g, parts)
  <2>1. PICK n : n = s[c + 1].n
    OBVIOUS
  <2>2. n \in Nat /\ n > 0
    BY <2>1, <1>1, ConformFacts
  <2>3. parts = Taken(s[c + 1], cl.frag)
    BY <1>1
  <2>4. parts[1].n = n /\ (parts = Before(s, n, Len(s)) \/ TooLarge(s, n))
    <3>1. FragSum(s, c, cl.frag)
      BY DEF ClientOK
    <3>2. s[c + 1].op \in {"text", "cont"} /\ s[c + 1].fin
      BY <1>1
    <3>3. c \in 0..Len(s) - 1
      BY <1>1
    <3>4. PICK f \in Seq(Items) : f = cl.frag
      BY <1>2
    <3>5. FragSum(s, c, f) /\ parts = Taken(s[c + 1], f)
      BY <3>1, <3>4, <2>3
    <3>. QED
      BY ONLY <3>2, <3>3, <3>5, <1>7, <2>1, s \in Seq(Items), f \in Seq(Items), Conforms(s), WholeParts
  <2>5. ASSUME NEW p \in 1..Len(g) PROVE g[p][1].n < n
    <3>1. PICK q \in 1..c : s[q].fin /\ s[q].n > 0 /\ s[q].n = g[p][1].n
      BY DEF ClientOK, GotOK
    <3>2. q \in 1..Len(s) /\ q < c + 1
      BY <1>1
    <3>4. s[q].n \in Nat /\ s[c + 1].n > 0
      BY <3>2, <2>1, <2>2, ConformFacts
    <3>5. s[q].n <= s[c + 1].n /\ (s[q].n = s[c + 1].n => ~s[q].fin)
      <4>1. PICK e \in 1..Len(s) : e = c + 1 /\ q < e /\ s[e].n > 0
        BY <1>1, <3>2, <3>4
      <4>2. s[q].n <= s[e].n /\ (s[q].n = s[e].n => ~s[q].fin)
        BY ONLY <3>1, <3>2, <4>1, e \in 1..Len(s), s \in Seq(Items), Conforms(s), ConformFacts
      <4>. QED
        BY <4>1, <4>2
    <3>3. s[q].n \in Nat /\ s[q].n <= n /\ s[q].n # n
      BY <3>1, <3>4, <3>5, <2>1
    <3>. QED
      BY SMTT(30), <3>1, <3>3, <2>2
  <2>6. NextMessage(s, g, parts)
    <3>1. MsgsOK(s, Append(g, parts))
      BY <2>4, <2>5, MsgsAppend
    <3>2. n \in Nat \ {0} /\ n # 0 /\ parts[1].n = n
      BY <2>2, <2>4
    <3>3. \A p \in 1..Len(g) : g[p][1].n < parts[1].n
      BY <3>2, <2>5
    <3>. QED
      BY <3>1, <3>2, <3>3 DEF NextMessage
  <2>7. GotOK(s, d, Append(g, parts))
    <3>1. \A p \in 1..Len(Append(g, parts)) :
            Append(g, parts)[p] = parts \/ (p \in 1..Len(g) /\ Append(g, parts)[p] = g[p])
      OBVIOUS
    <3>2. s[d].fin /\ s[d].n > 0 /\ s[d].n = parts[1].n /\ d \in 1..d
      BY <1>1, <2>1, <2>2, <2>4
    <3>. QED
      BY SMTT(30), <3>1, <3>2, <1>4 DEF GotOK
  <2>. QED
    BY <2>6, <2>7, <1>3, <1>4, <1>5, ClientDecoded
<1>. QED
  BY <1>6, <1>7

\* A resume changes nothing of what the client has sent.
LEMMA ClientResumed ==
    ASSUME NEW s \in Seq(Items), Conforms(s), NEW m, NEW w \in Seq(Items), NEW g,
           NEW cl \in Client0, NEW c \in Nat,
           ClientOK(s, m, w, g, cl, c), NEW d, Decodes(s, m, w, cl, c, d),
           Head(cl.rx) = Resume, NEW new, new.rx = Tail(cl.rx),
           new.upgraded = cl.upgraded, new.frag = <<>>
    PROVE  ClientOK(s, m, w, g, new, d)
<1>1. Resume.op = "text" /\ Resume.n = 0
  BY DEF Resume
<1>2. d \in 0..Len(s) /\ d = c /\ Pausing(s, c) /\ Len(s) \in Nat
  BY DEF Decodes
<1>3. c > 0 => s[c].op \in Heads \/ (s[c].fin /\ s[c].op \in {"text", "cont"})
  <2>1. ASSUME c > 0 PROVE s[c].op \in Heads \/ (s[c].fin /\ s[c].op \in {"text", "cont"})
    <3>1. c \in 1..c /\ c \in 1..Len(s)
      BY <1>2, <2>1
    <3>2. s[c].op \notin {"close", "huge"}
      BY <3>1 DEF ClientOK, HeadOK
    <3>3. s[c].op \in Heads \cup Frames
      BY <3>1, ConformFacts
    <3>4. s[c].fin /\ s[c].op # "ping"
      BY <2>1, <1>2 DEF Pausing
    <3>. QED
      BY <3>2, <3>3, <3>4 DEF Frames
  <2>. QED
    BY <2>1
<1>4. FragSum(s, d, new.frag)
  BY <1>2, <1>3, FragEnded
<1>5. FragOwn(s, d, new.frag) /\ GotOK(s, d, g)
  <2>1. FragOwn(s, d, <<>>)
    BY DEF FragOwn
  <2>. QED
    BY <2>1, ClientKeeps
<1>. QED
  BY <1>1, <1>4, <1>5, ClientDecoded
-----------------------------------------------------------------------------

\* Slot cl holds client k at some point of its script.
Fits(k, cl) == \E c \in Nat : ClientOK(script[k], sent[k], wire[k], got[k], cl, c)

\* Every client is somewhere in its script, and what was dispatched for it so
\* far is the beginning of its messages.
StreamInv ==
  /\ \A k \in Conns : Conforms(script[k]) /\ MsgsOK(script[k], got[k])
  /\ \A k \in Conns : peer[k] = "new" => sent[k] = 0 /\ wire[k] = <<>> /\ got[k] = <<>>
  /\ \A i \in Slots : slot[i].fd # NoConn => Fits(slot[i].fd, slot[i])
  /\ \A p \in 1..Len(backlog) : Fits(backlog[p], NoClient)

\* A client whose bytes have not been read.
LEMMA EmptyFits ==
    ASSUME NEW k \in Conns, script[k] \in Seq(Items), sent[k] = 0, wire[k] = <<>>, got[k] = <<>>
    PROVE  Fits(k, NoClient)
<1>1. PICK s \in Seq(Items) : s = script[k]
  OBVIOUS
<1>2. Len(s) \in Nat /\ 0 \in 0..Len(s)
  OBVIOUS
<1>3. Follows(s, 0, FALSE, <<>>, 0)
  BY <1>2, FollowsNone
<1>4. NoClient.rx \o <<>> = <<>>
  BY NoClientType
<1>5. Follows(s, 0, NoClient.upgraded, NoClient.rx \o <<>>, 0)
  BY <1>3, <1>4, NoClientType
<1>6. HeadOK(s, NoClient, 0)
  BY NoClientType DEF HeadOK
<1>7. GotOK(s, 0, <<>>) /\ FragOwn(s, 0, NoClient.frag)
  BY NoClientType DEF GotOK, FragOwn
<1>8. FragSum(s, 0, NoClient.frag)
  BY DEF FragSum
<1>9. ClientOK(s, 0, <<>>, <<>>, NoClient, 0)
  BY <1>5, <1>6, <1>7, <1>8 DEF ClientOK
<1>. QED
  BY <1>1, <1>9 DEF Fits

\* StreamInv holds at the start.
LEMMA StreamInit == CdpInit => StreamInv
<1>. SUFFICES ASSUME CdpInit PROVE StreamInv
  OBVIOUS
<1>1. PICK s \in Scenarios : script = s.sends
  BY DEF CdpInit
<1>2. \A k \in Conns : Conforms(script[k])
  BY <1>1, ClientsConform
<1>3. \A k \in Conns : got[k] = <<>> /\ sent[k] = 0 /\ wire[k] = <<>>
  BY DEF CdpInit
<1>4. \A k \in Conns : MsgsOK(script[k], got[k])
  <2>1. ASSUME NEW x PROVE MsgsOK(x, <<>>)
    BY DEF MsgsOK
  <2>. QED
    BY <2>1, <1>3
<1>5. (\A i \in Slots : slot[i].fd = NoConn) /\ backlog = <<>>
  BY NoClientType DEF CdpInit
<1>6. \A p \in 1..Len(backlog) : FALSE
  BY <1>5
<1>. QED
  BY <1>2, <1>3, <1>4, <1>5, <1>6 DEF StreamInv

\* Slots are as in s, or emptied.
Emptied(s) == \A j \in Slots : slot'[j] = NoClient \/ slot'[j] = s[j]

\* A broadcast changes no slot but to empty it.
LEMMA BroadcastEmpties ==
    ASSUME NEW s, Broadcast(s)
    PROVE  Emptied(s)
BY DEF Broadcast, Dropping, Emptied

\* An answer changes no slot but to empty it.
LEMMA ReplyEmpties ==
    ASSUME NEW s, NEW i, NEW k, NEW n, Reply(s, i, k, n)
    PROVE  Emptied(s)
BY DEF Reply, Dropping, Emptied

\* Nothing is sent, received or dispatched, and slots are only emptied.
LEMMA StreamQuiet ==
    ASSUME StreamInv, UNCHANGED <<script, sent, wire, got, backlog>>, Emptied(slot),
           \A k \in Conns : peer'[k] = "new" => peer[k] = "new"
    PROVE  StreamInv'
<1>1. \A k, cl : Fits(k, cl) => Fits(k, cl)'
  BY DEF Fits
<1>2. \A i \in Slots : slot'[i].fd # NoConn => slot'[i] = slot[i]
  BY NoClientType DEF Emptied
<1>3. ASSUME NEW i \in Slots, slot'[i].fd # NoConn PROVE Fits(slot[i].fd, slot[i])'
  <2>1. PICK k, cl : k = slot[i].fd /\ cl = slot[i]
    OBVIOUS
  <2>2. k = slot'[i].fd /\ cl = slot'[i] /\ Fits(k, cl)
    BY <1>2, <1>3, <2>1 DEF StreamInv
  <2>3. Fits(k, cl)'
    BY <1>1, <2>2
  <2>. QED
    BY <2>2, <2>3 DEF Fits
<1>4. ASSUME NEW p \in 1..Len(backlog) PROVE Fits(backlog[p], NoClient)'
  <2>1. PICK k : k = backlog[p] /\ Fits(k, NoClient)
    BY DEF StreamInv
  <2>2. Fits(k, NoClient)'
    BY <2>1, <1>1
  <2>. QED
    BY <2>1, <2>2 DEF Fits
<1>. QED
  BY <1>3, <1>4 DEF StreamInv

\* Only the client in slot i is concerned, others may be dropped.
LEMMA StreamSlot ==
    ASSUME CdpTypes, PlaceInv, StreamInv, NEW i \in Slots, NEW k \in Conns, slot[i].fd = k,
           UNCHANGED <<script, sent, peer, backlog>>,
           \A l \in Conns : l # k => wire'[l] = wire[l] /\ got'[l] = got[l],
           MsgsOK(script[k], got'[k]),
           \A j \in Slots : slot'[j] = NoClient \/ j = i \/ slot'[j] = slot[j],
           \/ slot'[i] = NoClient
           \/ /\ slot'[i].fd = k
              /\ \E c \in Nat : ClientOK(script[k], sent[k], wire'[k], got'[k], slot'[i], c)
    PROVE  StreamInv'
<1>0. k # NoConn /\ peer[k] # "new" /\ \A j \in Slots : slot[j].fd = k => j = i
  BY Connections DEF PlaceInv
<1>1. \A l \in Conns : \A cl : l # k /\ Fits(l, cl) => Fits(l, cl)'
  BY DEF Fits
<1>2. ASSUME NEW j \in Slots, slot'[j].fd # NoConn
      PROVE  Fits(slot[j].fd, slot[j])'
  <2>1. slot'[j] # NoClient
    BY <1>2, NoClientType
  <2>2. CASE j = i
    BY <2>1, <2>2 DEF Fits
  <2>3. CASE j # i
    <3>1. PICK l, cl : l \in Conns /\ l = slot[j].fd /\ cl = slot[j] /\ slot'[j] = slot[j]
      BY SMTT(30), <1>2, <2>1, <2>3 DEF CdpTypes, Client0
    <3>2. l # k /\ Fits(l, cl)
      BY <1>0, <1>2, <2>3, <3>1 DEF StreamInv
    <3>3. Fits(l, cl)'
      BY <3>1, <3>2, <1>1
    <3>. QED
      BY <3>1, <3>3 DEF Fits
  <2>. QED
    BY <2>2, <2>3
<1>3. ASSUME NEW p \in 1..Len(backlog) PROVE Fits(backlog[p], NoClient)'
  <2>1. PICK l \in Conns : l = backlog[p] /\ Fits(l, NoClient)
    <3>1. backlog[p] \in Conns
      BY DEF CdpTypes
    <3>. QED
      BY <3>1 DEF StreamInv
  <2>2. l # k
    BY <2>1 DEF PlaceInv
  <2>3. Fits(l, NoClient)'
    BY <2>1, <2>2, <1>1
  <2>. QED
    BY <2>1, <2>3 DEF Fits
<1>4. \A l \in Conns : Conforms(script[l]) /\ MsgsOK(script[l], got'[l])
  BY DEF StreamInv
<1>5. \A l \in Conns : peer[l] = "new" => sent[l] = 0 /\ wire'[l] = <<>> /\ got'[l] = <<>>
  BY <1>0 DEF StreamInv
<1>. QED
  BY <1>2, <1>3, <1>4, <1>5 DEF StreamInv
-----------------------------------------------------------------------------

\* A client connects.
LEMMA PeerConnectsStream == ASSUME CdpInv, StreamInv, NEW k \in Conns, PeerConnects(k) PROVE StreamInv'
<1>1. CdpTypes
  BY DEF CdpInv
<1>2. /\ peer[k] = "new" /\ peer' = [peer EXCEPT ![k] = "open"] /\ backlog' = Append(backlog, k)
      /\ UNCHANGED <<script, sent, wire, slot, got>>
  BY DEF PeerConnects, history
<1>3. Fits(k, NoClient)
  <2>1. script[k] \in Seq(Items)
    BY <1>1 DEF CdpTypes
  <2>. QED
    BY <2>1, <1>2, EmptyFits DEF StreamInv
<1>4. \A l, cl : Fits(l, cl) => Fits(l, cl)'
  BY <1>2 DEF Fits
<1>5. backlog \in Seq(Conns) /\ peer \in [Conns -> {"new", "open", "gone"}]
  BY <1>1 DEF CdpTypes
<1>6. \A p \in 1..Len(backlog') : backlog'[p] = k \/ (p \in 1..Len(backlog) /\ backlog'[p] = backlog[p])
  BY <1>2, <1>5
<1>7. ASSUME NEW p \in 1..Len(backlog') PROVE Fits(backlog[p], NoClient)'
  <2>1. PICK l : l = backlog'[p] /\ Fits(l, NoClient)
    BY <1>3, <1>6 DEF StreamInv
  <2>2. Fits(l, NoClient)'
    BY <2>1, <1>4
  <2>. QED
    BY <2>1, <2>2 DEF Fits
<1>8. ASSUME NEW i \in Slots, slot[i].fd # NoConn PROVE Fits(slot[i].fd, slot[i])'
  <2>1. PICK l, cl : l = slot[i].fd /\ cl = slot[i] /\ Fits(l, cl)
    BY <1>8 DEF StreamInv
  <2>2. Fits(l, cl)'
    BY <2>1, <1>4
  <2>. QED
    BY <2>1, <2>2, <1>2 DEF Fits
<1>9. \A l \in Conns : peer'[l] = "new" => peer[l] = "new"
  BY <1>2, <1>5
<1>. QED
  BY <1>2, <1>7, <1>8, <1>9 DEF StreamInv

\* A connected client sends.
LEMMA PeerStream ==
    ASSUME CdpInv, StreamInv, NEW k \in Conns, peer[k] # "new",
           UNCHANGED <<script, peer, backlog, slot, got>>,
           \A l \in Conns : l # k => sent'[l] = sent[l] /\ wire'[l] = wire[l],
           \A i \in Slots : slot[i].fd = k =>
              \E c \in Nat : ClientOK(script[k], sent'[k], wire'[k], got[k], slot[i], c),
           \A p \in 1..Len(backlog) : backlog[p] = k =>
              \E c \in Nat : ClientOK(script[k], sent'[k], wire'[k], got[k], NoClient, c)
    PROVE  StreamInv'
<1>1. CdpTypes
  BY DEF CdpInv
<1>2. \A l \in Conns : \A cl : l # k /\ Fits(l, cl) => Fits(l, cl)'
  BY DEF Fits
<1>3. ASSUME NEW i \in Slots, slot[i].fd # NoConn PROVE Fits(slot[i].fd, slot[i])'
  <2>1. CASE slot[i].fd = k
    BY <2>1 DEF Fits
  <2>2. CASE slot[i].fd # k
    <3>1. PICK l, cl : l \in Conns /\ l = slot[i].fd /\ cl = slot[i]
      BY <1>1, <1>3 DEF CdpTypes, Client0
    <3>2. Fits(l, cl)'
      BY <1>2, <1>3, <2>2, <3>1 DEF StreamInv
    <3>. QED
      BY <3>1, <3>2 DEF Fits
  <2>. QED
    BY <2>1, <2>2
<1>4. ASSUME NEW p \in 1..Len(backlog) PROVE Fits(backlog[p], NoClient)'
  <2>1. CASE backlog[p] = k
    BY <2>1 DEF Fits
  <2>2. CASE backlog[p] # k
    <3>0. backlog[p] \in Conns
      BY <1>1 DEF CdpTypes
    <3>1. PICK l \in Conns : l = backlog[p]
      BY <3>0
    <3>2. Fits(l, NoClient)'
      BY <1>2, <2>2, <3>1 DEF StreamInv
    <3>. QED
      BY <3>1, <3>2 DEF Fits
  <2>. QED
    BY <2>1, <2>2
<1>5. \A l \in Conns : peer[l] = "new" => sent'[l] = 0 /\ wire'[l] = <<>> /\ got[l] = <<>>
  BY DEF StreamInv
<1>6. \A l \in Conns : Conforms(script[l]) /\ MsgsOK(script[l], got[l])
  BY DEF StreamInv
<1>. QED
  BY <1>3, <1>4, <1>5, <1>6 DEF StreamInv

\* A client sends.
LEMMA PeerSendsStream == ASSUME CdpInv, StreamInv, NEW k \in Conns, PeerSends(k) PROVE StreamInv'
<1>1. CdpTypes
  BY DEF CdpInv
<1>2. /\ peer[k] = "open" /\ sent[k] < Len(script[k])
      /\ sent' = [sent EXCEPT ![k] = @ + 1]
      /\ wire' = [wire EXCEPT ![k] = Append(@, script[k][sent'[k]])]
      /\ UNCHANGED <<script, peer, backlog, slot, got>>
  BY DEF PeerSends, history
<1>3. /\ script[k] \in Seq(Items) /\ wire[k] \in Seq(Items) /\ sent \in [Conns -> Nat]
      /\ wire \in [Conns -> Seq(Items)] /\ slot \in [Slots -> Client0]
  BY <1>1 DEF CdpTypes
<1>4. /\ sent'[k] = sent[k] + 1 /\ \A l \in Conns : l # k => sent'[l] = sent[l]
  BY <1>2, <1>3
<1>5. /\ wire'[k] = Append(wire[k], script[k][sent[k] + 1]) /\ \A l \in Conns : l # k => wire'[l] = wire[l]
  BY <1>2, <1>3, <1>4
<1>6. ASSUME NEW cl \in Client0, Fits(k, cl)
      PROVE  \E c \in Nat : ClientOK(script[k], sent'[k], wire'[k], got[k], cl, c)
  <2>1. PICK c \in Nat : ClientOK(script[k], sent[k], wire[k], got[k], cl, c)
    BY <1>6 DEF Fits
  <2>2. ClientOK(script[k], sent[k] + 1, Append(wire[k], script[k][sent[k] + 1]), got[k], cl, c)
    BY <1>2, <1>3, <2>1, ClientSends
  <2>. QED
    BY <2>2, <1>4, <1>5
<1>7. \A i \in Slots : slot[i].fd = k => Fits(k, slot[i]) /\ slot[i] \in Client0
  BY <1>3, Connections DEF StreamInv
<1>8. \A p \in 1..Len(backlog) : backlog[p] = k => Fits(k, NoClient) /\ NoClient \in Client0
  BY NoClientType DEF StreamInv
<1>9. peer[k] # "new"
  BY <1>2
<1>. QED
  BY <1>2, <1>4, <1>5, <1>6, <1>7, <1>8, <1>9, PeerStream

\* A client resumes a script.
LEMMA PeerResumesStream == ASSUME CdpInv, StreamInv, NEW k \in Conns, PeerResumes(k) PROVE StreamInv'
<1>1. CdpTypes /\ PlaceInv
  BY DEF CdpInv
<1>2. /\ peer[k] = "open" /\ BetweenMessages(k)
      /\ wire' = [wire EXCEPT ![k] = Append(@, Resume)]
      /\ UNCHANGED <<script, sent, peer, backlog, slot, got>>
  BY DEF PeerResumes, history
<1>3. /\ script[k] \in Seq(Items) /\ wire[k] \in Seq(Items) /\ wire \in [Conns -> Seq(Items)]
      /\ slot \in [Slots -> Client0]
  BY <1>1 DEF CdpTypes
<1>4. /\ wire'[k] = Append(wire[k], Resume) /\ \A l \in Conns : l # k => wire'[l] = wire[l]
  BY <1>2, <1>3
<1>5. PICK i \in Slots : slot[i].fd = k /\ slot[i].upgraded
  BY DEF PeerResumes
<1>6. (\A j \in Slots : slot[j].fd = k => j = i) /\ \A p \in 1..Len(backlog) : backlog[p] # k
  BY <1>1, <1>5, Connections DEF PlaceInv
<1>7. Pausing(script[k], sent[k])
  BY <1>2 DEF Pausing, BetweenMessages
<1>8. \E c \in Nat : ClientOK(script[k], sent'[k], wire'[k], got[k], slot[i], c)
  <2>1. PICK c \in Nat : ClientOK(script[k], sent[k], wire[k], got[k], slot[i], c)
    BY <1>5, Connections DEF StreamInv, Fits
  <2>2. slot[i] \in Client0
    BY <1>3
  <2>3. ClientOK(script[k], sent[k], Append(wire[k], Resume), got[k], slot[i], c)
    BY <1>3, <1>5, <1>7, <2>1, <2>2, ClientResumes
  <2>. QED
    BY <2>3, <1>2, <1>4
<1>9. peer[k] # "new"
  BY <1>2
<1>. QED
  BY <1>2, <1>4, <1>6, <1>8, <1>9, PeerStream

\* A client leaves.
LEMMA PeerLeavesStream == ASSUME CdpInv, StreamInv, NEW k \in Conns, PeerLeaves(k) PROVE StreamInv'
<1>1. /\ peer' = [peer EXCEPT ![k] = "gone"]
      /\ UNCHANGED <<script, sent, backlog, wire, slot, got>>
  BY DEF PeerLeaves, history
<1>2. \A l \in Conns : peer'[l] = "new" => peer[l] = "new"
  BY <1>1 DEF CdpInv, CdpTypes
<1>. QED
  BY <1>1, <1>2, StreamQuiet DEF Emptied

\* mini_cdp_poll accepts.
LEMMA PollStartsStream == ASSUME CdpInv, StreamInv, PollStarts PROVE StreamInv'
<1>1. CdpTypes /\ PlaceInv
  BY DEF CdpInv
<1>2. UNCHANGED <<script, sent, peer, wire, got>>
  BY DEF PollStarts, history
<1>3. \A i \in Slots :
                \/ slot'[i] = slot[i]
                \/ /\ slot[i].fd = NoConn
                   /\ \E p \in 1..Len(backlog) : slot'[i] = [NoClient EXCEPT !.fd = backlog[p]]
  BY <1>1, AcceptFacts
<1>4. \A p \in 1..Len(backlog') : \E q \in 1..Len(backlog) : backlog'[p] = backlog[q]
  <2>1. PICK t : backlog' = SubSeq(backlog, t + 1, Len(backlog)) /\ t \in 0..Len(backlog)
    <3>. DEFINE Free == {i \in Slots : slot[i].fd = NoConn}
                t == IF Len(backlog) > Cardinality(Free) THEN Cardinality(Free) + 1 ELSE Len(backlog)
    <3>1. backlog' = SubSeq(backlog, t + 1, Len(backlog))
      BY DEF PollStarts
    <3>2. IsFiniteSet(Free)
      BY SlotsAreIndices, FS_Subset
    <3>3. Cardinality(Free) \in Nat
      BY <3>2, FS_CardinalityType
    <3>4. Len(backlog) \in Nat
      BY <1>1 DEF CdpTypes
    <3>5. PICK c \in Nat, m \in Nat : c = Cardinality(Free) /\ m = Len(backlog)
      BY <3>3, <3>4
    <3>6. t = IF m > c THEN c + 1 ELSE m
      BY <3>5
    <3>7. t \in 0..m
      BY <3>6
    <3>. QED
      BY <3>1, <3>5, <3>7
  <2>2. PICK b \in Seq(Conns) : b = backlog
    BY <1>1 DEF CdpTypes
  <2>3. \A p \in 1..Len(SubSeq(b, t + 1, Len(b))) : \E q \in 1..Len(b) : SubSeq(b, t + 1, Len(b))[p] = b[q]
    <3>1. Len(b) \in Nat /\ t \in 0..Len(b)
      BY <2>1, <2>2
    <3>2. Len(SubSeq(b, t + 1, Len(b))) = Len(b) - t
      BY <3>1
    <3>3. ASSUME NEW p \in 1..Len(b) - t PROVE SubSeq(b, t + 1, Len(b))[p] = b[t + p] /\ t + p \in 1..Len(b)
      BY <3>1
    <3>. QED
      BY <3>2, <3>3
  <2>. QED
    BY <2>1, <2>2, <2>3
<1>5. \A l, cl : Fits(l, cl) => Fits(l, cl)'
  BY <1>2 DEF Fits
<1>6. ASSUME NEW l, Fits(l, NoClient) PROVE Fits(l, [NoClient EXCEPT !.fd = l])
  <2>1. PICK cl : cl = [NoClient EXCEPT !.fd = l]
    OBVIOUS
  <2>2. cl.rx = NoClient.rx /\ cl.upgraded = NoClient.upgraded /\ cl.frag = NoClient.frag
    BY <2>1 DEF NoClient
  <2>3. \A s, m, w, g, c : ClientOK(s, m, w, g, NoClient, c) => ClientOK(s, m, w, g, cl, c)
    BY <2>2 DEF ClientOK, HeadOK
  <2>4. Fits(l, cl)
    BY <1>6, <2>3 DEF Fits
  <2>. QED
    BY <2>1, <2>4
<1>7. ASSUME NEW i \in Slots, slot'[i].fd # NoConn PROVE Fits(slot[i].fd, slot[i])'
  <2>1. PICK l, cl : l = slot'[i].fd /\ cl = slot'[i]
    OBVIOUS
  <2>2. Fits(l, cl)
    <3>1. CASE slot'[i] = slot[i]
      BY <1>7, <2>1, <3>1 DEF StreamInv
    <3>2. CASE slot'[i] # slot[i]
      <4>1. PICK p \in 1..Len(backlog) : slot'[i] = [NoClient EXCEPT !.fd = backlog[p]]
        BY <3>2, <1>3
      <4>2. [NoClient EXCEPT !.fd = backlog[p]].fd = backlog[p]
        BY DEF NoClient
      <4>3. l = backlog[p] /\ cl = [NoClient EXCEPT !.fd = l]
        BY <2>1, <4>1, <4>2
      <4>4. Fits(l, NoClient)
        BY <4>3 DEF StreamInv
      <4>. QED
        BY <4>3, <4>4, <1>6
    <3>. QED
      BY <3>1, <3>2
  <2>3. Fits(l, cl)'
    BY <2>2, <1>5
  <2>. QED
    BY <2>1, <2>3 DEF Fits
<1>8. ASSUME NEW p \in 1..Len(backlog') PROVE Fits(backlog[p], NoClient)'
  <2>1. PICK l : l = backlog'[p] /\ Fits(l, NoClient)
    BY <1>4 DEF StreamInv
  <2>2. Fits(l, NoClient)'
    BY <2>1, <1>5
  <2>. QED
    BY <2>1, <2>2 DEF Fits
<1>. QED
  BY <1>2, <1>7, <1>8 DEF StreamInv
-----------------------------------------------------------------------------

\* recv() says that the client is gone.
LEMMA EndedStream == ASSUME CdpInv, StreamInv, Ended PROVE StreamInv'
<1>1. CdpTypes /\ PlaceInv
  BY DEF CdpInv
<1>2. /\ In("poll", "serve") /\ slot[Top.i].fd # NoConn
      /\ wire' = [wire EXCEPT ![slot[Top.i].fd] = <<>>]
      /\ slot' = [slot EXCEPT ![Top.i] = NoClient]
      /\ UNCHANGED <<script, sent, peer, backlog, got>>
  BY DEF Ended, history
<1>3. PICK i \in Slots : i = Top.i
  BY <1>1, <1>2, PollFacts
<1>4. PICK k \in Conns : k = slot[i].fd
  BY <1>1, <1>2, <1>3 DEF CdpTypes, Client0
<1>5. slot \in [Slots -> Client0] /\ wire \in [Conns -> Seq(Items)]
  BY <1>1 DEF CdpTypes
<1>6. /\ \A l \in Conns : l # k => wire'[l] = wire[l]
      /\ slot'[i] = NoClient /\ \A j \in Slots : j = i \/ slot'[j] = slot[j]
  BY <1>2, <1>3, <1>4, <1>5
<1>7. MsgsOK(script[k], got'[k])
  BY <1>2 DEF StreamInv
<1>. QED
  BY <1>1, <1>2, <1>4, <1>6, <1>7, StreamSlot

\* A client is read, and its request head answered.
LEMMA ServeStream == ASSUME CdpInv, StreamInv, Serve PROVE StreamInv'
<1>1. CdpTypes /\ PlaceInv
  BY DEF CdpInv
<1>2. In("poll", "serve") /\ slot[Top.i].fd # NoConn
  BY DEF Serve
<1>3. PICK i \in Slots : i = Top.i
  BY <1>1, <1>2, PollFacts
<1>4. PICK k \in Conns : k = slot[i].fd
  BY <1>1, <1>2, <1>3 DEF CdpTypes, Client0
<1>5. PICK cl \in Client0 : cl = slot[i]
  BY <1>1 DEF CdpTypes
<1>6. /\ cl.rx \in Seq(Items) /\ wire[k] \in Seq(Items) /\ slot \in [Slots -> Client0] /\ cl.fd = k
      /\ wire \in [Conns -> Seq(Items)] /\ script[k] \in Seq(Items) /\ Conforms(script[k])
  BY <1>1, <1>4, <1>5 DEF CdpTypes, Client0, StreamInv
<1>7. PICK rx \in Seq(Items) : rx = cl.rx \o wire[k]
  BY <1>6, JoinType
<1>8. PICK request : request = IF cl.upgraded THEN "none" ELSE RequestHead(rx)
  OBVIOUS
<1>9. /\ wire' = [wire EXCEPT ![k] = <<>>]
      /\ \/ request = "none" /\ slot' = [slot EXCEPT ![i].rx = rx]
         \/ request = "partial" /\ slot' = [slot EXCEPT ![i].rx = rx]
         \/ /\ request = "upgrade"
            /\ slot' = [slot EXCEPT ![i].rx = BehindHead(rx), ![i].upgraded = TRUE]
         \/ slot' = [slot EXCEPT ![i] = NoClient]
      /\ UNCHANGED <<script, sent, peer, backlog, got>>
  BY <1>3, <1>4, <1>5, <1>7, <1>8 DEF Serve, history
<1>10. wire'[k] = <<>> /\ \A l \in Conns : l # k => wire'[l] = wire[l]
  BY <1>6, <1>9
<1>11. PICK c \in Nat : ClientOK(script[k], sent[k], wire[k], got[k], cl, c)
  BY <1>2, <1>3, <1>4, <1>5 DEF StreamInv, Fits
<1>12. RequestHead(rx) # "none"
  BY DEF RequestHead
<1>13. /\ \A j \in Slots : j = i \/ slot'[j] = slot[j]
       /\ \/ slot'[i] = NoClient
          \/ /\ slot'[i].fd = k
             /\ \E d \in Nat : ClientOK(script[k], sent[k], wire'[k], got[k], slot'[i], d)
  <2>1. CASE request \in {"none", "partial"} /\ slot' = [slot EXCEPT ![i].rx = rx]
    <3>1. cl.upgraded \/ RequestHead(rx) = "partial"
      <4>1. CASE ~cl.upgraded
        BY <4>1, <2>1, <1>8, <1>12
      <4>. QED
        BY <4>1
    <3>2. ClientOK(script[k], sent[k], <<>>, got[k], [cl EXCEPT !.rx = rx], c)
      BY <3>1, <1>6, <1>7, <1>11, ClientReceives
    <3>3. slot'[i] = [cl EXCEPT !.rx = rx] /\ \A j \in Slots : j = i \/ slot'[j] = slot[j]
      BY <2>1, <1>5, <1>6
    <3>4. [cl EXCEPT !.rx = rx].fd = k
      BY <1>6 DEF Client0
    <3>. QED
      BY <3>2, <3>3, <3>4, <1>10
  <2>2. CASE request = "upgrade" /\ slot' = [slot EXCEPT ![i].rx = BehindHead(rx), ![i].upgraded = TRUE]
    <3>1. ~cl.upgraded /\ RequestHead(rx) = "upgrade"
      BY <2>2, <1>8
    <3>2. PICK new : new = [cl EXCEPT !.rx = BehindHead(rx), !.upgraded = TRUE]
      OBVIOUS
    <3>3. \E d \in Nat : ClientOK(script[k], sent[k], <<>>, got[k], new, d)
      BY <3>1, <3>2, <1>6, <1>7, <1>11, ClientUpgrades
    <3>4. slot'[i] = new /\ \A j \in Slots : j = i \/ slot'[j] = slot[j]
      BY <2>2, <3>2, <1>5, <1>6
    <3>5. new.fd = k
      BY <3>2, <1>6 DEF Client0
    <3>. QED
      BY <3>3, <3>4, <3>5, <1>10
  <2>3. CASE slot' = [slot EXCEPT ![i] = NoClient]
    BY <2>3, <1>6
  <2>. QED
    BY <2>1, <2>2, <2>3, <1>9
<1>14. MsgsOK(script[k], got'[k])
  BY <1>9 DEF StreamInv
<1>15. \E d \in Nat : TRUE
  BY SMTT(30)
<1>. QED
  BY SMTT(30), <1>1, <1>4, <1>9, <1>10, <1>13, <1>14, StreamSlot

\* Where a client is in its script when a frame of it is decoded.
LEMMA DecodingStream ==
    ASSUME CdpInv, StreamInv, Decoding, NEW i, i = Top.i, NEW k, k = slot[i].fd
    PROVE  /\ i \in Slots /\ k \in Conns /\ slot[i] \in Client0 /\ Item = Head(slot[i].rx)
           /\ script[k] \in Seq(Items) /\ Conforms(script[k]) /\ wire[k] \in Seq(Items)
           /\ got[k] \in Seq(Seq(Items)) /\ MsgsOK(script[k], got[k])
           /\ \E c \in Nat, d \in Nat :
                /\ ClientOK(script[k], sent[k], wire[k], got[k], slot[i], c)
                /\ Decodes(script[k], sent[k], wire[k], slot[i], c, d)
<1>1. CdpTypes
  BY DEF CdpInv
<1>2. /\ i \in Slots /\ k \in Conns /\ slot[i] \in Client0 /\ Item = Head(slot[i].rx) /\ slot[i].rx # <<>>
      /\ k # NoConn
  BY DecodingFacts DEF Item
<1>3. /\ script[k] \in Seq(Items) /\ Conforms(script[k]) /\ wire[k] \in Seq(Items)
      /\ got[k] \in Seq(Seq(Items)) /\ MsgsOK(script[k], got[k])
  BY <1>1, <1>2 DEF CdpTypes, StreamInv
<1>4. PICK c \in Nat : ClientOK(script[k], sent[k], wire[k], got[k], slot[i], c)
  BY <1>2 DEF StreamInv, Fits
<1>5. \E d \in Nat : Decodes(script[k], sent[k], wire[k], slot[i], c, d)
  BY <1>2, <1>3, <1>4, ClientItem
<1>. QED
  BY <1>2, <1>3, <1>4, <1>5

\* The slots after an item is taken out of slot i, with g in its buffer.
Consumes(i, new, g) ==
  /\ new[i].rx = Tail(slot[i].rx) /\ new[i].upgraded = slot[i].upgraded
  /\ new[i].frag = g /\ new[i].fd = slot[i].fd
  /\ \A j \in Slots : j = i \/ new[j] = slot[j]

\* What consuming an item leaves in the slot.
LEMMA ConsumedIs ==
    ASSUME CdpInv, Decoding, NEW i, i = Top.i
    PROVE  /\ Consumes(i, Consumed, slot[i].frag)
           /\ \A g : Consumes(i, [Consumed EXCEPT ![i].frag = g], g)
<1>1. i \in Slots /\ slot \in [Slots -> Client0] /\ slot[i] \in Client0
  BY DecodingFacts
<1>2. PICK t : t = Tail(slot[i].rx)
  OBVIOUS
<1>3. PICK c : c = [slot[i] EXCEPT !.rx = t]
  OBVIOUS
<1>4. /\ c.rx = t /\ c.upgraded = slot[i].upgraded /\ c.frag = slot[i].frag /\ c.fd = slot[i].fd
      /\ \A g : LET e == [c EXCEPT !.frag = g]
                IN e.rx = t /\ e.upgraded = slot[i].upgraded /\ e.frag = g /\ e.fd = slot[i].fd
  BY <1>1, <1>3 DEF Client0
<1>5. Consumed = [slot EXCEPT ![i] = c]
  BY <1>2, <1>3 DEF Consumed
<1>6. Consumed[i] = c /\ \A j \in Slots : j = i \/ Consumed[j] = slot[j]
  BY <1>1, <1>5
<1>7. ASSUME NEW g
      PROVE  Consumes(i, [Consumed EXCEPT ![i].frag = g], g)
  <2>1. PICK new : new = [Consumed EXCEPT ![i].frag = g]
    OBVIOUS
  <2>2. new[i] = [c EXCEPT !.frag = g] /\ \A j \in Slots : j = i \/ new[j] = slot[j]
    BY <1>1, <1>5, <1>6, <2>1
  <2>3. Consumes(i, new, g)
    BY <1>2, <1>4, <2>2 DEF Consumes
  <2>. QED
    BY <2>1, <2>3
<1>8. Consumes(i, Consumed, slot[i].frag)
  BY <1>2, <1>4, <1>6 DEF Consumes
<1>. QED
  BY <1>7, <1>8
-----------------------------------------------------------------------------

\* A ping is decoded.
LEMMA DecodePingStream == ASSUME CdpInv, StreamInv, DecodePing PROVE StreamInv'
<1>1. CdpTypes /\ PlaceInv
  BY DEF CdpInv
<1>2. /\ Decoding /\ Item.op = "ping" /\ slot' = Consumed
      /\ UNCHANGED <<script, sent, peer, backlog, wire, got>>
  BY DEF DecodePing, peers
<1>3. PICK i, k : i = Top.i /\ k = slot[i].fd
  OBVIOUS
<1>4. /\ i \in Slots /\ k \in Conns /\ slot[i] \in Client0 /\ Item = Head(slot[i].rx)
      /\ script[k] \in Seq(Items) /\ Conforms(script[k]) /\ wire[k] \in Seq(Items)
      /\ MsgsOK(script[k], got[k])
  BY <1>2, <1>3, DecodingStream
<1>5. PICK c \in Nat, d \in Nat :
        /\ ClientOK(script[k], sent[k], wire[k], got[k], slot[i], c)
        /\ Decodes(script[k], sent[k], wire[k], slot[i], c, d)
  BY <1>2, <1>3, DecodingStream
<1>6. Consumes(i, slot', slot[i].frag)
  BY <1>2, <1>3, ConsumedIs
<1>7. ClientOK(script[k], sent[k], wire[k], got[k], slot'[i], d)
  BY <1>2, <1>4, <1>5, <1>6, ClientPinged DEF Consumes
<1>8. slot'[i].fd = k /\ \A j \in Slots : j = i \/ slot'[j] = slot[j]
  BY <1>3, <1>6 DEF Consumes
<1>. QED
  BY <1>1, <1>2, <1>3, <1>4, <1>7, <1>8, StreamSlot

\* A close or a frame too large is decoded.
LEMMA DecodeLastStream == ASSUME CdpInv, StreamInv, DecodeLast PROVE StreamInv'
<1>1. /\ Decoding /\ slot' = [slot EXCEPT ![Top.i] = NoClient]
      /\ UNCHANGED <<script, sent, peer, backlog, wire, got>>
  BY DEF DecodeLast, peers
<1>2. Top.i \in Slots /\ slot \in [Slots -> Client0]
  BY <1>1, DecodingFacts
<1>3. Emptied(slot)
  BY SMTT(30), <1>1, <1>2 DEF Emptied
<1>. QED
  BY <1>1, <1>3, StreamQuiet

\* A fragment is decoded.
LEMMA DecodeFragmentStream == ASSUME CdpInv, StreamInv, DecodeFragment PROVE StreamInv'
<1>1. CdpTypes /\ PlaceInv
  BY DEF CdpInv
<1>2. /\ Decoding /\ Item.op \in {"text", "cont"} /\ ~Item.fin
      /\ slot' = [Consumed EXCEPT ![Top.i].frag = FragAppend(IF Item.op = "text" THEN <<>> ELSE @, Item)]
      /\ UNCHANGED <<script, sent, peer, backlog, wire, got>>
  BY DEF DecodeFragment, peers, history
<1>3. PICK i, k : i = Top.i /\ k = slot[i].fd
  OBVIOUS
<1>4. /\ i \in Slots /\ k \in Conns /\ slot[i] \in Client0 /\ Item = Head(slot[i].rx)
      /\ script[k] \in Seq(Items) /\ Conforms(script[k]) /\ wire[k] \in Seq(Items)
      /\ MsgsOK(script[k], got[k])
  BY <1>2, <1>3, DecodingStream
<1>5. PICK c \in Nat, d \in Nat :
        /\ ClientOK(script[k], sent[k], wire[k], got[k], slot[i], c)
        /\ Decodes(script[k], sent[k], wire[k], slot[i], c, d)
  BY <1>2, <1>3, DecodingStream
<1>6. PICK g : g = FragAppend(IF Item.op = "text" THEN <<>> ELSE slot[i].frag, Item)
  OBVIOUS
<1>7. Consumes(i, slot', g)
  <2>1. Consumed[i].frag = slot[i].frag
    BY <1>2, <1>3, ConsumedIs DEF Consumes
  <2>2. slot' = [Consumed EXCEPT ![i].frag = g]
    BY <1>2, <1>3, <1>6, <2>1
  <2>3. Decoding
    BY <1>2
  <2>4. Consumes(i, [Consumed EXCEPT ![i].frag = g], g)
    BY <1>3, <2>3, ConsumedIs
  <2>. QED
    BY <2>2, <2>4
<1>8. ClientOK(script[k], sent[k], wire[k], got[k], slot'[i], d)
  BY <1>2, <1>4, <1>5, <1>6, <1>7, ClientFragment DEF Consumes
<1>9. slot'[i].fd = k /\ \A j \in Slots : j = i \/ slot'[j] = slot[j]
  BY <1>3, <1>7 DEF Consumes
<1>. QED
  BY <1>1, <1>2, <1>3, <1>4, <1>8, <1>9, StreamSlot

\* The start of a request head is taken for a frame.
LEMMA DecodeHeadStream == ASSUME CdpInv, StreamInv, DecodeHead PROVE StreamInv'
<1>1. CdpTypes /\ PlaceInv
  BY DEF CdpInv
<1>2. Decoding /\ Item.op = "head" /\ UNCHANGED <<script, sent, peer, backlog, wire, got>>
  BY DEF DecodeHead, peers, history
<1>3. CASE slot' = slot
  BY <1>2, <1>3, StreamQuiet DEF Emptied
<1>4. CASE slot' = [Consumed EXCEPT ![Top.i].frag = FragAppend(@, Item)]
  <2>3. PICK i, k : i = Top.i /\ k = slot[i].fd
    OBVIOUS
  <2>4. /\ i \in Slots /\ k \in Conns /\ slot[i] \in Client0 /\ Item = Head(slot[i].rx)
        /\ script[k] \in Seq(Items) /\ Conforms(script[k]) /\ wire[k] \in Seq(Items)
        /\ MsgsOK(script[k], got[k])
    BY <1>2, <2>3, DecodingStream
  <2>5. PICK c \in Nat, d \in Nat :
          /\ ClientOK(script[k], sent[k], wire[k], got[k], slot[i], c)
          /\ Decodes(script[k], sent[k], wire[k], slot[i], c, d)
    BY <1>2, <2>3, DecodingStream
  <2>6. PICK g : g = FragAppend(slot[i].frag, Item)
    OBVIOUS
  <2>7. Consumes(i, slot', g)
    <3>1. Consumed[i].frag = slot[i].frag
      BY <1>2, <2>3, ConsumedIs DEF Consumes
    <3>2. slot' = [Consumed EXCEPT ![i].frag = g]
      BY <1>4, <2>3, <2>6, <3>1
    <3>. QED
      BY <1>2, <2>3, <3>2, ConsumedIs
  <2>8. ClientOK(script[k], sent[k], wire[k], got[k], slot'[i], d)
    BY <1>2, <2>4, <2>5, <2>6, <2>7, ClientHead DEF Consumes
  <2>9. slot'[i].fd = k /\ \A j \in Slots : j = i \/ slot'[j] = slot[j]
    BY <2>3, <2>7 DEF Consumes
  <2>. QED
    BY <1>1, <1>2, <2>3, <2>4, <2>8, <2>9, StreamSlot
<1>. QED
  BY <1>3, <1>4 DEF DecodeHead

\* The steps that neither receive nor decode.
LEMMA OtherStream ==
    ASSUME CdpInv, StreamInv,
           FramesDone \/ Flush \/ PageScript \/ ScriptLogs \/ ScriptPauses \/ PauseEnds \/ ScriptEnds
    PROVE  StreamInv'
<1>1. UNCHANGED <<script, sent, peer, backlog, wire, got>>
  BY DEF FramesDone, Flush, PageScript, ScriptLogs, ScriptPauses, PauseEnds, ScriptEnds, peers, history
<1>2. Emptied(slot)
  <2>1. CASE UNCHANGED slot
    BY <2>1 DEF Emptied
  <2>2. CASE Broadcast(slot)
    BY <2>2, BroadcastEmpties
  <2>3. CASE \E i, k, n : Reply(slot, i, k, n)
    BY <2>3, ReplyEmpties
  <2>. QED
    BY <2>1, <2>2, <2>3 DEF FramesDone, Flush, PageScript, ScriptLogs, ScriptPauses, PauseEnds, ScriptEnds, history
<1>. QED
  BY <1>1, <1>2, StreamQuiet
-----------------------------------------------------------------------------

\* The message that a final frame completes is Taken.
LEMMA TakeMessageIs ==
    ASSUME CdpInv, Decoding, NEW i, i = Top.i
    PROVE  TakeMessage.parts = Taken(Head(slot[i].rx), slot[i].frag) /\ TakeMessage.rest = <<>>
<1>1. Item = Head(slot[i].rx)
  BY DEF Item
<1>2. \A y : [parts |-> y, rest |-> <<>>].parts = y /\ [parts |-> y, rest |-> <<>>].rest = <<>>
  OBVIOUS
<1>3. CASE Item.op = "cont" /\ slot[i].frag # <<>>
  <2>1. TakeMessage = [parts |-> FragAppend(slot[i].frag, Item), rest |-> <<>>]
    BY <1>3 DEF TakeMessage
  <2>. QED
    BY <2>1, <1>1, <1>2, <1>3 DEF Taken
<1>4. CASE ~(Item.op = "cont" /\ slot[i].frag # <<>>)
  <2>1. TakeMessage = [parts |-> <<Item>>, rest |-> <<>>]
    BY <1>4 DEF TakeMessage
  <2>. QED
    BY <2>1, <1>1, <1>2, <1>4 DEF Taken
<1>. QED
  BY <1>3, <1>4

\* What cdp_handle does with the next message of slot i, whose client is k: the
\* resume of a front end, or the next message of the script.
Handled(i, k, parts, after) ==
  /\ i = Top.i /\ i \in Slots /\ k = slot[i].fd /\ k \in Conns /\ parts \in Seq(Items)
  /\ parts = TakeMessage.parts /\ after = [Consumed EXCEPT ![i].frag = TakeMessage.rest]
  /\ Consumes(i, after, <<>>)
  /\ \E d \in Nat : ClientOK(script[k], sent[k], wire[k], got[k], after[i], d)
  /\ \/ parts = <<Resume>>
     \/ parts # <<>> =>
          /\ \E d \in Nat : ClientOK(script[k], sent[k], wire[k], Append(got[k], parts), after[i], d)
          /\ NextMessage(script[k], got[k], parts)

\* A final frame completes a resume or the next message of the script.
LEMMA HandledNext ==
    ASSUME CdpInv, StreamInv, Decoding, Item.op \in {"text", "cont"}, Item.fin
    PROVE  \E i, k, parts, after : Handled(i, k, parts, after)
<1>3. PICK i, k : i = Top.i /\ k = slot[i].fd
  OBVIOUS
<1>4. /\ i \in Slots /\ k \in Conns /\ slot[i] \in Client0 /\ Item = Head(slot[i].rx)
      /\ script[k] \in Seq(Items) /\ Conforms(script[k]) /\ wire[k] \in Seq(Items)
      /\ MsgsOK(script[k], got[k]) /\ got[k] \in Seq(Seq(Items))
  BY <1>3, DecodingStream
<1>5. PICK c \in Nat, d \in Nat :
        /\ ClientOK(script[k], sent[k], wire[k], got[k], slot[i], c)
        /\ Decodes(script[k], sent[k], wire[k], slot[i], c, d)
  BY <1>3, DecodingStream
<1>6. PICK parts : parts = TakeMessage.parts
  OBVIOUS
<1>7. parts = Taken(Head(slot[i].rx), slot[i].frag) /\ TakeMessage.rest = <<>> /\ parts \in Seq(Items)
  BY <1>3, <1>6, TakeMessageIs, TakeMessageType
<1>8. PICK after : after = [Consumed EXCEPT ![i].frag = TakeMessage.rest]
  OBVIOUS
<1>9. Consumes(i, after, <<>>)
  BY <1>3, <1>7, <1>8, ConsumedIs
<1>10. PICK new : /\ new = after[i] /\ new.rx = Tail(slot[i].rx) /\ new.upgraded = slot[i].upgraded
                  /\ new.frag = <<>>
  BY <1>9 DEF Consumes
<1>11. CASE Item = Resume
  <2>1. ClientOK(script[k], sent[k], wire[k], got[k], new, d)
    BY <1>4, <1>5, <1>10, <1>11, ClientResumed
  <2>2. parts = <<Resume>>
    <3>1. Resume.op # "cont"
      BY SMTT(30) DEF Resume
    <3>. QED
      BY <3>1, <1>4, <1>7, <1>11 DEF Taken
  <2>3. Handled(i, k, parts, after)
    BY <1>3, <1>4, <1>6, <1>7, <1>8, <1>9, <1>10, <2>1, <2>2 DEF Handled
  <2>. QED
    BY <2>3
<1>12. CASE Item # Resume
  <2>1. /\ ClientOK(script[k], sent[k], wire[k], got[k], new, d)
        /\ parts # <<>> => /\ ClientOK(script[k], sent[k], wire[k], Append(got[k], parts), new, d)
                           /\ NextMessage(script[k], got[k], parts)
    BY ZenonT(30), <1>4, <1>5, <1>7, <1>10, <1>12, ClientMessage
  <2>2. Handled(i, k, parts, after)
    BY <1>3, <1>4, <1>6, <1>7, <1>8, <1>9, <1>10, <2>1 DEF Handled
  <2>. QED
    BY <2>2
<1>. QED
  BY <1>11, <1>12

\* A message is dispatched.
LEMMA DecodeMessageStream == ASSUME CdpInv, StreamInv, DecodeMessage PROVE StreamInv'
<1>1. CdpTypes /\ PlaceInv
  BY DEF CdpInv
<1>2. Decoding /\ Item.op \in {"text", "cont"} /\ Item.fin /\ UNCHANGED <<script, sent, peer, backlog, wire>>
  BY DEF DecodeMessage, peers
<1>3. PICK i, k, parts, after : Handled(i, k, parts, after)
  BY <1>2, HandledNext
<1>4. /\ i = Top.i /\ i \in Slots /\ k = slot[i].fd /\ k \in Conns /\ parts \in Seq(Items)
      /\ parts = TakeMessage.parts /\ after = [Consumed EXCEPT ![i].frag = TakeMessage.rest]
      /\ Consumes(i, after, <<>>)
  BY <1>3 DEF Handled
<1>5. /\ Emptied(after)
      /\ got' = got \/ (parts # <<>> /\ parts # <<Resume>> /\ got' = [got EXCEPT ![k] = Append(@, parts)])
  <2>. DEFINE dispatched == [got EXCEPT ![k] = Append(@, parts)]
              here(method) == parts # <<>> /\ parts[1].first /\ parts[1].method = method
  <2>1. \/ /\ parts = <<>> \/ ~parts[1].first
           /\ slot' = after
           /\ got' = IF parts = <<>> THEN got ELSE dispatched
        \/ here("ack") /\ got' = dispatched /\ Reply(after, i, k, parts[1].n)
        \/ here("enable") /\ got' = dispatched /\ Broadcast(after)
        \/ here("resume") /\ (got' = IF parts[1].n = 0 THEN got ELSE dispatched) /\ Reply(after, i, k, parts[1].n)
        \/ here("eval") /\ got' = dispatched /\ slot' = after
    BY <1>4 DEF DecodeMessage
  <2>2. Emptied(after)
    <3>1. slot' = after \/ Broadcast(after) \/ Reply(after, i, k, parts[1].n)
      BY <2>1
    <3>2. slot' = after => Emptied(after)
      BY DEF Emptied
    <3>. QED
      BY <3>1, <3>2, BroadcastEmpties, ReplyEmpties
  <2>3. parts = <<Resume>> => parts[1].first /\ parts[1].method = "resume" /\ parts[1].n = 0 /\ parts # <<>>
    BY DEF Resume
  <2>4. CASE parts = <<Resume>>
    BY <2>1, <2>2, <2>3, <2>4
  <2>5. CASE parts # <<Resume>>
    BY <2>1, <2>2, <2>5
  <2>. QED
    BY SMTT(30), <2>2, <2>4, <2>5
<1>6. /\ \A j \in Slots : slot'[j] = NoClient \/ j = i \/ slot'[j] = slot[j]
      /\ slot'[i] = NoClient \/ (slot'[i].fd = k /\ slot'[i] = after[i])
  BY <1>4, <1>5 DEF Emptied, Consumes
<1>7. CASE got' = got
  <2>1. \E d \in Nat : ClientOK(script[k], sent[k], wire[k], got[k], after[i], d)
    BY <1>3 DEF Handled
  <2>2. MsgsOK(script[k], got'[k])
    BY <1>4, <1>7 DEF StreamInv
  <2>3. \/ slot'[i] = NoClient
        \/ /\ slot'[i].fd = k
           /\ \E d \in Nat : ClientOK(script[k], sent[k], wire'[k], got'[k], slot'[i], d)
    BY SMTT(30), <1>2, <1>6, <1>7, <2>1
  <2>. QED
    BY <1>1, <1>2, <1>4, <1>6, <1>7, <2>2, <2>3, StreamSlot
<1>8. CASE parts # <<>> /\ parts # <<Resume>> /\ got' = [got EXCEPT ![k] = Append(@, parts)]
  <2>1. /\ \E d \in Nat : ClientOK(script[k], sent[k], wire[k], Append(got[k], parts), after[i], d)
        /\ NextMessage(script[k], got[k], parts)
    BY <1>3, <1>8 DEF Handled
  <2>2. got'[k] = Append(got[k], parts) /\ \A l \in Conns : l # k => got'[l] = got[l]
    BY <1>1, <1>4, <1>8 DEF CdpTypes
  <2>3. MsgsOK(script[k], got'[k])
    BY <2>1, <2>2 DEF NextMessage
  <2>4. \/ slot'[i] = NoClient
        \/ /\ slot'[i].fd = k
           /\ \E d \in Nat : ClientOK(script[k], sent[k], wire'[k], got'[k], slot'[i], d)
    BY <1>2, <1>6, <2>1, <2>2
  <2>. QED
    BY ZenonT(30), <1>1, <1>2, <1>4, <1>6, <2>2, <2>3, <2>4, StreamSlot
<1>. QED
  BY SMTT(30), <1>5, <1>7, <1>8

\* Every step preserves StreamInv.
LEMMA StreamStep == CdpInv /\ StreamInv /\ [CdpNext]_cdpVars => StreamInv'
<1>. SUFFICES ASSUME CdpInv, StreamInv, [CdpNext]_cdpVars PROVE StreamInv'
  OBVIOUS
<1>1. CASE Server
  BY <1>1, PollStartsStream, EndedStream, ServeStream, DecodePingStream, DecodeLastStream,
     DecodeFragmentStream, DecodeHeadStream, DecodeMessageStream, OtherStream DEF Server
<1>2. CASE PageScript \/ ScriptLogs \/ ScriptPauses \/ ScriptEnds
  BY <1>2, OtherStream
<1>3. ASSUME NEW k \in Conns, Client(k) PROVE StreamInv'
  BY <1>3, PeerConnectsStream, PeerSendsStream, PeerResumesStream, PeerLeavesStream DEF Client
<1>4. CASE UNCHANGED cdpVars
  <2>1. UNCHANGED <<script, sent, peer, backlog, wire, slot, got>>
    BY <1>4 DEF cdpVars, peers, history
  <2>. QED
    BY <2>1, StreamQuiet DEF Emptied
<1>. QED
  BY <1>1, <1>2, <1>3, <1>4 DEF CdpNext

\* Everything in a slot was sent by the client that is in it.
LEMMA StreamOwns == CdpInv /\ StreamInv => SlotIsOneClient
<1>. SUFFICES ASSUME CdpInv, StreamInv PROVE SlotIsOneClient
  OBVIOUS
<1>1. CdpTypes /\ PlaceInv
  BY DEF CdpInv
<1>2. ASSUME NEW i \in Slots, NEW k, k = slot[i].fd, NEW kept, kept = slot[i].rx \o slot[i].frag
      PROVE  Owns(script[k], sent[k], kept) /\ DOMAIN kept = 1..Len(kept)
  <2>1. PICK rx \in Seq(Items), frag \in Seq(Items) : rx = slot[i].rx /\ frag = slot[i].frag
    BY <1>1 DEF CdpTypes, Client0
  <2>2. kept \in Seq(Items) /\ DOMAIN kept = 1..Len(kept)
    BY <1>2, <2>1
  <2>3. CASE slot[i].fd = NoConn
    <3>1. kept = <<>>
      BY <1>1, <1>2, <2>3, NoClientType DEF PlaceInv
    <3>2. \A s, m : Owns(s, m, <<>>)
      BY DEF Owns
    <3>. QED
      BY <2>2, <3>1, <3>2
  <2>4. CASE slot[i].fd # NoConn
    <3>1. k \in Conns /\ Fits(k, slot[i])
      BY <1>1, <1>2, <2>4 DEF CdpTypes, Client0, StreamInv
    <3>2. PICK c \in Nat : ClientOK(script[k], sent[k], wire[k], got[k], slot[i], c)
      BY <3>1 DEF Fits
    <3>3. PICK s \in Seq(Items), w \in Seq(Items), m \in Nat : s = script[k] /\ w = wire[k] /\ m = sent[k]
      BY <1>1, <3>1 DEF CdpTypes
    <3>4. PICK st \in Seq(Items) : st = rx \o w
      BY JoinType
    <3>5. Follows(s, m, slot[i].upgraded, st, c)
      BY <2>1, <3>2, <3>3, <3>4 DEF ClientOK
    <3>6. c \in 0..m /\ Owns(s, m, st)
      BY <3>5, FollowsOwn
    <3>7. ASSUME NEW x \in 1..Len(rx) PROVE rx[x] = Resume \/ \E q \in 1..m : s[q] = rx[x]
      <4>1. x \in 1..Len(st) /\ st[x] = rx[x]
        BY <3>4
      <4>. QED
        BY <4>1, <3>6 DEF Owns
    <3>8. ASSUME NEW x \in 1..Len(frag) PROVE \E q \in 1..m : s[q] = frag[x]
      <4>1. PICK q \in 1..c : s[q] = frag[x]
        BY <2>1, <3>2, <3>3 DEF ClientOK, FragOwn
      <4>2. q \in 1..m
        BY <3>6
      <4>. QED
        BY <4>1, <4>2
    <3>9. \A p \in 1..Len(kept) : \/ p \in 1..Len(rx) /\ kept[p] = rx[p]
                                  \/ \E q \in 1..Len(frag) : kept[p] = frag[q]
      <4>1. kept = rx \o frag
        BY <1>2, <2>1
      <4>2. /\ Len(rx) \in Nat /\ Len(frag) \in Nat /\ Len(kept) = Len(rx) + Len(frag)
            /\ \A x \in 1..Len(rx) : kept[x] = rx[x]
            /\ \A x \in Len(rx) + 1..Len(rx) + Len(frag) : kept[x] = frag[x - Len(rx)]
        BY <4>1
      <4>3. \A p \in 1..Len(kept) : \/ p \in 1..Len(rx)
                                    \/ p \in Len(rx) + 1..Len(rx) + Len(frag) /\ p - Len(rx) \in 1..Len(frag)
        BY <4>2
      <4>. QED
        BY <4>2, <4>3
    <3>10. Owns(s, m, kept)
      BY <3>7, <3>8, <3>9 DEF Owns
    <3>. QED
      BY <2>2, <3>3, <3>10
  <2>. QED
    BY <2>3, <2>4
<1>3. \A i \in Slots : LET k == slot[i].fd
                           kept == slot[i].rx \o slot[i].frag
                       IN \A p \in DOMAIN kept :
                            kept[p] = Resume \/ \E q \in 1..sent[k] : script[k][q] = kept[p]
  <2>1. TAKE i \in Slots
  <2>2. PICK k, kept : k = slot[i].fd /\ kept = slot[i].rx \o slot[i].frag
    OBVIOUS
  <2>3. Owns(script[k], sent[k], kept) /\ DOMAIN kept = 1..Len(kept)
    BY <1>2, <2>2
  <2>. QED
    BY <2>2, <2>3 DEF Owns
<1>4. /\ \A i \in Slots : slot[i].fd = NoConn => slot[i] = NoClient
      /\ \A i, j \in Slots : slot[i].fd = slot[j].fd /\ slot[i].fd # NoConn => i = j
  BY <1>1 DEF PlaceInv
<1>. QED
  BY <1>3, <1>4 DEF SlotIsOneClient

\* A sequence over a set is one over a larger set.
LEMMA SeqWider ==
    ASSUME NEW A, NEW B, A \subseteq B, NEW s \in Seq(A)
    PROVE  s \in Seq(B)
OBVIOUS

\* What a client sends and what it is sent stays in one piece: the stream of a
\* slot is its client's, messages are dispatched whole and in order, and no
\* frame follows half of another that the server knows of.
THEOREM CdpStreamsStayWhole == CdpSpec => []StreamsStayWhole
<1>1. CdpInv => CdpTypeOK
  <2>1. SUFFICES ASSUME CdpInv PROVE CdpTypeOK
    OBVIOUS
  <2>2. CdpTypes /\ PauseOK(stack, paused)
    BY <2>1 DEF CdpInv
  <2>3. DOMAIN stack = 1..Len(stack)
    BY <2>2 DEF CdpTypes
  <2>4. stack \in Seq([call : {"poll", "script", "pause"}, n : Nat, i : Slots \cup {0},
                       at : {"", "serve", "frames", "flush", "asked", "inner"},
                       of : Conns \cup {NoConn}])
    <3>1. stack \in Seq(Calls)
      BY <2>2 DEF CdpTypes
    <3>2. Calls \subseteq [call : {"poll", "script", "pause"}, n : Nat, i : Slots \cup {0},
                           at : {"", "serve", "frames", "flush", "asked", "inner"},
                           of : Conns \cup {NoConn}]
      BY DEF Calls
    <3>. QED
      BY <3>1, <3>2, SeqWider
  <2>. QED
    BY <2>2, <2>3, <2>4 DEF CdpTypes, Client0, Pair, PauseOK, CdpTypeOK
<1>2. CdpInv => NothingAfterACutFrame
  BY DEF CdpInv, CutInv, NothingAfterACutFrame
<1>3. CdpInv /\ StreamInv => WholeMessages
  BY WholeIs DEF CdpInv, StreamInv
<1>4. CdpInv /\ StreamInv => StreamsStayWhole
  BY <1>1, <1>2, <1>3, StreamOwns DEF StreamsStayWhole
<1>. QED
  BY <1>4, StreamInit, StreamStep, CdpInvariant, PTL DEF CdpSpec

-----------------------------------------------------------------------------

\* Message x was dispatched; it was answered.
Given(x) == x.of \in Conns /\ \E p \in 1..Len(got[x.of]) : got[x.of][p][1].n = x.n
Replied(x) == \E k \in Conns : \E p \in 1..Len(answers[k]) : answers[k][p] = x

\* A message that was dispatched is answered once or is being evaluated once.
UniqueInv ==
  /\ \A k \in Conns : \A p \in 1..Len(answers[k]) : Given(answers[k][p])
  /\ \A p \in 1..Len(stack) : Asks(stack[p]) => Given(Asked0(stack[p])) /\ ~Replied(Asked0(stack[p]))
  /\ \A k, l \in Conns : \A p \in 1..Len(answers[k]), q \in 1..Len(answers[l]) :
        answers[k][p] = answers[l][q] => k = l /\ p = q
  /\ \A p, q \in 1..Len(stack) :
        Asks(stack[p]) /\ Asks(stack[q]) /\ Asked0(stack[p]) = Asked0(stack[q]) => p = q

\* No evaluation is begun: those in progress were so before.
Shifted(e) == \A p \in 1..Len(stack') : Asks(stack'[p]) => p + e \in 1..Len(stack) /\ stack'[p] = stack[p + e]

\* What was dispatched stays so.
GotGrows == \A x : Given(x) => Given(x)'

\* UniqueInv holds at the start.
LEMMA UniqueInit == CdpInit => UniqueInv
<1>. SUFFICES ASSUME CdpInit PROVE UniqueInv
  OBVIOUS
<1>1. stack = <<>> /\ \A k \in Conns : answers[k] = <<>>
  BY DEF CdpInit
<1>2. (\A p \in 1..Len(stack) : FALSE) /\ \A k \in Conns : \A p \in 1..Len(answers[k]) : FALSE
  BY <1>1
<1>. QED
  BY <1>2 DEF UniqueInv

\* Evaluations that only move on the stack are still unanswered and distinct.
LEMMA ShiftedAsks ==
    ASSUME UniqueInv, NEW e \in {0, 1, 0 - 1}, Shifted(e), Len(stack) \in Nat, Len(stack') \in Nat
    PROVE  /\ \A p \in 1..Len(stack') : Asks(stack'[p]) =>
                Given(Asked0(stack'[p])) /\ ~Replied(Asked0(stack'[p]))
           /\ \A p, q \in 1..Len(stack') :
                Asks(stack'[p]) /\ Asks(stack'[q]) /\ Asked0(stack'[p]) = Asked0(stack'[q]) => p = q
<1>1. ASSUME NEW p \in 1..Len(stack'), Asks(stack'[p])
      PROVE  p + e \in 1..Len(stack) /\ stack'[p] = stack[p + e]
  BY <1>1 DEF Shifted
<1>2. \A p \in 1..Len(stack') : Asks(stack'[p]) =>
                Given(Asked0(stack'[p])) /\ ~Replied(Asked0(stack'[p]))
  BY <1>1 DEF UniqueInv
<1>3. ASSUME NEW p \in 1..Len(stack'), NEW q \in 1..Len(stack'), Asks(stack'[p]), Asks(stack'[q]),
             Asked0(stack'[p]) = Asked0(stack'[q])
      PROVE  p = q
  <2>1. p + e = q + e
    BY <1>1, <1>3 DEF UniqueInv
  <2>. QED
    BY <2>1
<1>. QED
  BY <1>2, <1>3

\* Nothing is answered.
LEMMA UniqueSame ==
    ASSUME UniqueInv, NEW e \in {0, 1, 0 - 1}, Shifted(e), Len(stack) \in Nat, Len(stack') \in Nat,
           answers' = answers, GotGrows
    PROVE  UniqueInv'
<1>1. /\ \A p \in 1..Len(stack') : Asks(stack'[p]) =>
           Given(Asked0(stack'[p])) /\ ~Replied(Asked0(stack'[p]))
      /\ \A p, q \in 1..Len(stack') :
           Asks(stack'[p]) /\ Asks(stack'[q]) /\ Asked0(stack'[p]) = Asked0(stack'[q]) => p = q
  BY ShiftedAsks
<1>2. \A x : ~Replied(x) => ~Replied(x)'
  BY DEF Replied
<1>3. ASSUME NEW p \in 1..Len(stack'), Asks(stack'[p]) PROVE Given(Asked0(stack[p]))' /\ ~Replied(Asked0(stack[p]))'
  <2>1. PICK x : x = Asked0(stack'[p]) /\ Given(x) /\ ~Replied(x)
    BY <1>1, <1>3
  <2>2. Given(x)' /\ ~Replied(x)'
    BY <2>1, <1>2 DEF GotGrows
  <2>. QED
    BY <2>1, <2>2 DEF Given, Replied
<1>4. ASSUME NEW k \in Conns, NEW p \in 1..Len(answers[k]) PROVE Given(answers[k][p])'
  <2>1. PICK x : x = answers[k][p] /\ Given(x)
    BY DEF UniqueInv
  <2>2. Given(x)'
    BY <2>1 DEF GotGrows
  <2>. QED
    BY <2>1, <2>2 DEF Given
<1>5. \A k, l \in Conns : \A p \in 1..Len(answers'[k]), q \in 1..Len(answers'[l]) :
        answers'[k][p] = answers'[l][q] => k = l /\ p = q
  BY DEF UniqueInv
<1>. QED
  BY <1>1, <1>3, <1>4, <1>5 DEF UniqueInv

\* An answer is written to l, for a message that had none and is not being
\* evaluated any more.
LEMMA UniqueAnswer ==
    ASSUME UniqueInv, NEW e \in {0, 1, 0 - 1}, Shifted(e), Len(stack) \in Nat, Len(stack') \in Nat,
           answers \in [Conns -> Seq(Pair)], NEW l \in Conns, NEW x \in Pair,
           answers' = [answers EXCEPT ![l] = Append(@, x)], GotGrows,
           Given(x)', ~Replied(x), \A p \in 1..Len(stack') : Asks(stack'[p]) => Asked0(stack'[p]) # x
    PROVE  UniqueInv'
<1>1. /\ \A p \in 1..Len(stack') : Asks(stack'[p]) =>
           Given(Asked0(stack'[p])) /\ ~Replied(Asked0(stack'[p]))
      /\ \A p, q \in 1..Len(stack') :
           Asks(stack'[p]) /\ Asks(stack'[q]) /\ Asked0(stack'[p]) = Asked0(stack'[q]) => p = q
  BY ShiftedAsks
<1>2. PICK n \in Nat : n = Len(answers[l])
  OBVIOUS
<1>3. /\ \A k \in Conns : k # l => answers'[k] = answers[k]
      /\ answers'[l] = Append(answers[l], x)
  OBVIOUS
<1>4. \A k \in Conns : \A p \in 1..Len(answers'[k]) :
        \/ k = l /\ p = n + 1 /\ answers'[k][p] = x
        \/ p \in 1..Len(answers[k]) /\ answers'[k][p] = answers[k][p]
  <2>1. \A p \in 1..Len(Append(answers[l], x)) :
          \/ p = n + 1 /\ Append(answers[l], x)[p] = x
          \/ p \in 1..Len(answers[l]) /\ Append(answers[l], x)[p] = answers[l][p]
    <3>1. answers[l] \in Seq(Pair)
      OBVIOUS
    <3>. QED
      BY <3>1, <1>2
  <2>. QED
    BY <2>1, <1>3
<1>5. \A y : y # x /\ ~Replied(y) => ~Replied(y)'
  BY <1>4 DEF Replied
<1>6. ASSUME NEW p \in 1..Len(stack'), Asks(stack'[p]) PROVE Given(Asked0(stack[p]))' /\ ~Replied(Asked0(stack[p]))'
  <2>1. PICK y : y = Asked0(stack'[p]) /\ Given(y) /\ ~Replied(y) /\ y # x
    BY <1>1, <1>6
  <2>2. Given(y)' /\ ~Replied(y)'
    BY SMTT(30), <2>1, <1>5 DEF GotGrows
  <2>. QED
    BY <2>1, <2>2 DEF Given, Replied
<1>7. ASSUME NEW k \in Conns, NEW p \in 1..Len(answers'[k]) PROVE Given(answers[k][p])'
  <2>1. PICK y : y = answers'[k][p]
    OBVIOUS
  <2>2. Given(y)'
    BY <2>1, <1>4 DEF GotGrows, UniqueInv
  <2>. QED
    BY <2>1, <2>2 DEF Given
<1>8. \A k \in Conns : \A p \in 1..Len(answers[k]) : answers[k][p] # x
  BY DEF Replied
<1>9. \A k, j \in Conns : \A p \in 1..Len(answers'[k]), q \in 1..Len(answers'[j]) :
        answers'[k][p] = answers'[j][q] => k = j /\ p = q
  <2>. SUFFICES ASSUME NEW k \in Conns, NEW j \in Conns, NEW p \in 1..Len(answers'[k]),
                       NEW q \in 1..Len(answers'[j]), answers'[k][p] = answers'[j][q]
                PROVE  k = j /\ p = q
    OBVIOUS
  <2>1. \/ k = l /\ p = n + 1 /\ answers'[k][p] = x
        \/ p \in 1..Len(answers[k]) /\ answers'[k][p] = answers[k][p]
    BY <1>4
  <2>2. \/ j = l /\ q = n + 1 /\ answers'[j][q] = x
        \/ q \in 1..Len(answers[j]) /\ answers'[j][q] = answers[j][q]
    BY <1>4
  <2>3. CASE p \in 1..Len(answers[k]) /\ answers'[k][p] = answers[k][p]
    <3>1. answers'[j][q] # x
      BY <2>3, <1>8
    <3>. QED
      BY <2>2, <2>3, <3>1 DEF UniqueInv
  <2>4. CASE k = l /\ p = n + 1 /\ answers'[k][p] = x
    BY <2>2, <2>4, <1>8
  <2>. QED
    BY <2>1, <2>3, <2>4
<1>. QED
  BY <1>1, <1>6, <1>7, <1>9 DEF UniqueInv

\* An evaluation begins, of a message that was not answered or evaluated before.
LEMMA UniqueAsk ==
    ASSUME UniqueInv, stack \in Seq(Calls), NEW f \in Calls, Call(f), NEW x, x = Asked0(f),
           answers' = answers, GotGrows, Given(x)', ~Given(x)
    PROVE  UniqueInv'
<1>1. /\ Len(stack') = Len(stack) + 1 /\ Len(stack) \in Nat /\ stack'[1] = f
      /\ \A p \in 2..Len(stack) + 1 : stack'[p] = stack[p - 1]
  BY PushFacts0 DEF Call
<1>2. \A p \in 1..Len(stack') : p = 1 \/ (p \in 2..Len(stack) + 1 /\ p - 1 \in 1..Len(stack))
  BY <1>1
<1>3. ASSUME NEW p \in 1..Len(stack'), Asks(stack'[p])
      PROVE  /\ Given(Asked0(stack[p]))' /\ ~Replied(Asked0(stack[p]))'
             /\ p # 1 => Asked0(stack'[p]) # x
  <2>1. PICK y : y = Asked0(stack'[p])
    OBVIOUS
  <2>2. Given(y)' /\ ~Replied(y) /\ (p # 1 => y # x)
    <3>1. CASE p = 1
      <4>1. y = x
        BY <3>1, <2>1, <1>1
      <4>2. ~Replied(x)
        BY DEF Replied, UniqueInv
      <4>. QED
        BY <3>1, <4>1, <4>2
    <3>2. CASE p # 1
      <4>1. p - 1 \in 1..Len(stack) /\ stack'[p] = stack[p - 1]
        BY <3>2, <1>1, <1>2
      <4>2. Given(y) /\ ~Replied(y)
        BY <1>3, <2>1, <4>1 DEF UniqueInv
      <4>. QED
        BY <4>2 DEF GotGrows
    <3>. QED
      BY <3>1, <3>2
  <2>3. ~Replied(y)'
    BY <2>2 DEF Replied
  <2>. QED
    BY <2>1, <2>2, <2>3 DEF Given, Replied
<1>4. ASSUME NEW p \in 1..Len(stack'), NEW q \in 1..Len(stack'), Asks(stack'[p]), Asks(stack'[q]),
             Asked0(stack'[p]) = Asked0(stack'[q])
      PROVE  p = q
  <2>1. p = 1 <=> q = 1
    BY <1>1, <1>3, <1>4
  <2>2. CASE p # 1
    <3>1. /\ p - 1 \in 1..Len(stack) /\ stack'[p] = stack[p - 1]
          /\ q - 1 \in 1..Len(stack) /\ stack'[q] = stack[q - 1]
      BY <2>1, <2>2, <1>1, <1>2
    <3>2. p - 1 = q - 1
      BY SMTT(30), <3>1, <1>4 DEF UniqueInv
    <3>. QED
      BY <3>2
  <2>. QED
    BY <2>1, <2>2
<1>5. ASSUME NEW k \in Conns, NEW p \in 1..Len(answers[k]) PROVE Given(answers[k][p])'
  <2>1. PICK y : y = answers[k][p] /\ Given(y)
    BY DEF UniqueInv
  <2>2. Given(y)'
    BY <2>1 DEF GotGrows
  <2>. QED
    BY <2>1, <2>2 DEF Given
<1>6. \A k, l \in Conns : \A p \in 1..Len(answers'[k]), q \in 1..Len(answers'[l]) :
        answers'[k][p] = answers'[l][q] => k = l /\ p = q
  BY DEF UniqueInv
<1>. QED
  BY <1>3, <1>4, <1>5, <1>6 DEF UniqueInv

\* Nothing is dispatched.
LEMMA GotSame == ASSUME UNCHANGED got PROVE GotGrows
BY DEF GotGrows, Given

\* A message later than the others is dispatched.
LEMMA GotMore ==
    ASSUME CdpTypes, NEW k \in Conns, NEW parts \in Seq(Items), parts[1].n \in Nat,
           got' = [got EXCEPT ![k] = Append(@, parts)],
           \A p \in 1..Len(got[k]) : got[k][p][1].n < parts[1].n,
           NEW x, x = [of |-> k, n |-> parts[1].n]
    PROVE  GotGrows /\ Given(x)' /\ ~Given(x)
<1>1. got \in [Conns -> Seq(Seq(Items))] /\ got[k] \in Seq(Seq(Items))
  BY DEF CdpTypes
<1>2. PICK h : h = Append(got[k], parts)
  OBVIOUS
<1>3. /\ Len(h) = Len(got[k]) + 1 /\ Len(got[k]) \in Nat /\ h[Len(h)] = parts
      /\ \A p \in 1..Len(got[k]) : h[p] = got[k][p]
  BY <1>1, <1>2
<1>4. got'[k] = h /\ \A l \in Conns : l # k => got'[l] = got[l]
  BY <1>1, <1>2
<1>5. \A p \in 1..Len(got[k]) : p \in 1..Len(h)
  BY <1>3
<1>6. ASSUME NEW y, Given(y) PROVE Given(y)'
  <2>1. PICK p \in 1..Len(got[y.of]) : y.of \in Conns /\ got[y.of][p][1].n = y.n
    BY <1>6 DEF Given
  <2>2. p \in 1..Len(got'[y.of]) /\ got'[y.of][p] = got[y.of][p]
    BY <2>1, <1>3, <1>4, <1>5
  <2>. QED
    BY <2>1, <2>2 DEF Given
<1>7. Given(x)'
  <2>1. Len(h) \in 1..Len(h)
    BY <1>3
  <2>. QED
    BY <2>1, <1>3, <1>4 DEF Given
<1>8. ~Given(x)
  <2>1. \A p \in 1..Len(got[k]) : got[k][p][1].n # parts[1].n
    OBVIOUS
  <2>. QED
    BY <2>1 DEF Given
<1>. QED
  BY <1>6, <1>7, <1>8 DEF GotGrows

\* The stack stays.
LEMMA ShiftSame == ASSUME CdpTypes, UNCHANGED stack PROVE Shifted(0)
<1>1. \A p \in 1..Len(stack) : p + 0 = p
  BY DEF CdpTypes
<1>. QED
  BY <1>1 DEF Shifted

\* A call returns.
LEMMA ShiftReturn == ASSUME CdpTypes, stack # <<>>, Return PROVE Shifted(1)
<1>1. stack \in Seq(Calls)
  BY DEF CdpTypes
<1>2. /\ Len(stack') = Len(stack) - 1 /\ Len(stack) \in Nat \ {0}
      /\ \A p \in 1..Len(stack) - 1 : stack'[p] = stack[p + 1]
  BY <1>1, PopFacts DEF Return
<1>3. \A p \in 1..Len(stack') : p \in 1..Len(stack) - 1 /\ p + 1 \in 1..Len(stack)
  BY <1>2
<1>. QED
  BY <1>2, <1>3 DEF Shifted

\* A call begins that is no evaluation.
LEMMA ShiftPush == ASSUME CdpTypes, NEW f \in Calls, ~Asks(f), Call(f) PROVE Shifted(0 - 1)
<1>1. /\ stack'[1] = f /\ Len(stack') = Len(stack) + 1 /\ Len(stack) \in Nat
      /\ \A p \in 2..Len(stack') : p - 1 \in 1..Len(stack) /\ stack'[p] = stack[p - 1]
  BY PushedFacts
<1>2. ASSUME NEW p \in 1..Len(stack'), Asks(stack'[p])
      PROVE  p + (0 - 1) \in 1..Len(stack) /\ stack'[p] = stack[p + (0 - 1)]
  <2>1. p # 1
    BY <1>1, <1>2
  <2>2. p \in 2..Len(stack') /\ p + (0 - 1) = p - 1
    BY <2>1, <1>1
  <2>. QED
    BY <2>2, <1>1
<1>. QED
  BY <1>2 DEF Shifted

\* The poll on top of the stack goes on.
LEMMA ShiftBecome == ASSUME CdpTypes, stack # <<>>, NEW f \in Calls, ~Asks(f), Become(f) PROVE Shifted(0)
<1>1. stack \in Seq(Calls)
  BY DEF CdpTypes
<1>2. PICK t \in Seq(Calls) : /\ t = Tail(stack) /\ Len(t) = Len(stack) - 1 /\ Len(stack) \in Nat \ {0}
                              /\ \A p \in 1..Len(stack) - 1 : t[p] = stack[p + 1]
  BY <1>1, PopFacts
<1>3. /\ stack'[1] = f /\ Len(stack') = Len(t) + 1
      /\ \A p \in 2..Len(t) + 1 : stack'[p] = t[p - 1]
  BY <1>2, PushFacts0 DEF Become
<1>4. ASSUME NEW p \in 1..Len(stack'), Asks(stack'[p])
      PROVE  p + 0 \in 1..Len(stack) /\ stack'[p] = stack[p + 0]
  <2>1. p # 1
    BY <1>3, <1>4
  <2>2. /\ p \in 2..Len(t) + 1 /\ p - 1 \in 1..Len(stack) - 1 /\ (p - 1) + 1 = p /\ p + 0 = p
        /\ p \in 1..Len(stack)
    BY <2>1, <1>2, <1>3
  <2>3. stack'[p] = t[p - 1] /\ t[p - 1] = stack[(p - 1) + 1]
    BY <2>2, <1>2, <1>3
  <2>. QED
    BY <2>2, <2>3
<1>. QED
  BY <1>4 DEF Shifted

\* The innermost pause is marked.
LEMMA ShiftMark == ASSUME CdpTypes, stack' = MarkPause(stack, "asked") PROVE Shifted(0)
<1>0. stack \in Seq(Calls) /\ Len(stack) \in Nat
  BY DEF CdpTypes
<1>1. /\ Len(stack') = Len(stack) /\ Len(stack) \in Nat
      /\ \A p \in 1..Len(stack) : /\ stack'[p].call = stack[p].call
                                  /\ stack[p].call # "pause" => stack'[p] = stack[p]
  BY <1>0, MarkFacts
<1>2. \A p \in 1..Len(stack) : p + 0 = p
  BY <1>1
<1>3. \A p \in 1..Len(stack') : Asks(stack'[p]) => stack[p].call # "pause"
  BY <1>1 DEF Asks
<1>. QED
  BY <1>1, <1>2, <1>3 DEF Shifted

\* A pause ends, and the one around it is marked.
LEMMA ShiftMarkTail == ASSUME CdpTypes, stack # <<>>, stack' = MarkPause(Tail(stack), "inner") PROVE Shifted(1)
<1>1. PICK t \in Seq(Calls) : /\ t = Tail(stack) /\ Len(t) = Len(stack) - 1 /\ Len(stack) \in Nat \ {0}
                              /\ \A p \in 1..Len(stack) - 1 : t[p] = stack[p + 1]
  BY PopFacts DEF CdpTypes
<1>2. /\ Len(stack') = Len(t)
      /\ \A p \in 1..Len(t) : stack'[p].call = t[p].call /\ (t[p].call # "pause" => stack'[p] = t[p])
  BY <1>1, MarkFacts
<1>3. \A p \in 1..Len(stack') : Asks(stack'[p]) => t[p].call # "pause"
  BY <1>2 DEF Asks
<1>4. \A p \in 1..Len(stack') : p \in 1..Len(stack) - 1 /\ p + 1 \in 1..Len(stack) /\ p \in 1..Len(t)
  BY <1>1, <1>2
<1>. QED
  BY <1>1, <1>2, <1>3, <1>4 DEF Shifted
-----------------------------------------------------------------------------

\* Most of the actions answer nothing, dispatch nothing and begin no evaluation.
LEMMA UniqueQuiet ==
    ASSUME CdpTypes, CdpTypes', UniqueInv, UNCHANGED <<got, answers>>,
           \E e \in {0, 1, 0 - 1} : Shifted(e)
    PROVE  UniqueInv'
<1>1. PICK e \in {0, 1, 0 - 1} : Shifted(e)
  OBVIOUS
<1>2. Len(stack) \in Nat /\ Len(stack') \in Nat
  BY DEF CdpTypes
<1>. QED
  BY <1>1, <1>2, GotSame, UniqueSame

\* Every action but DecodeMessage and ScriptEnds is such.
LEMMA QuietShifts ==
    ASSUME CdpInv,
           \/ UNCHANGED cdpVars
           \/ PollStarts \/ Ended \/ Serve \/ DecodePing \/ DecodeLast \/ DecodeFragment
           \/ DecodeHead \/ FramesDone \/ Flush \/ PauseEnds
           \/ PageScript \/ ScriptLogs \/ ScriptPauses
           \/ \E k \in Conns : Client(k)
    PROVE  UNCHANGED <<got, answers>> /\ \E e \in {0, 1, 0 - 1} : Shifted(e)
<1>1. CdpTypes
  BY SMTT(30) DEF CdpInv
<1>2. UNCHANGED <<got, answers>>
  BY DEF cdpVars, history, PollStarts, Ended, Serve, DecodePing, DecodeLast, DecodeFragment, DecodeHead,
         FramesDone, Flush, PauseEnds, PageScript, ScriptLogs, ScriptPauses, Client, PeerConnects,
         PeerSends, PeerResumes, PeerLeaves
<1>3. UNCHANGED stack => Shifted(0)
  BY <1>1, ShiftSame
<1>4. ASSUME In("poll", "serve") \/ In("poll", "frames"), NEW f, Become(f),
             f = NextClient(slot, Top.i) \/ f = Poll("frames", Top.i)
      PROVE  Shifted(0)
  <2>1. stack # <<>> /\ Top.i \in Slots
    BY <1>1, <1>4, PollFacts
  <2>2. NextClient(slot, Top.i) \in Calls /\ NextClient(slot, Top.i).call = "poll"
    BY <2>1, NextClientType
  <2>3. Poll("frames", Top.i) \in Calls /\ Poll("frames", Top.i).call = "poll"
    BY <2>1 DEF Poll, Calls
  <2>4. f \in Calls /\ ~Asks(f)
    BY <1>4, <2>2, <2>3 DEF Asks
  <2>. QED
    BY <1>1, <1>4, <2>1, <2>4, ShiftBecome
<1>5. CASE PollStarts
  <2>1. PICK f : f = NextClient(slot', 0)
    OBVIOUS
  <2>2. f \in Calls /\ f.call = "poll" /\ Call(f)
    BY <1>5, <2>1, NextClientType DEF PollStarts
  <2>3. ~Asks(f)
    BY <2>2 DEF Asks
  <2>. QED
    BY <1>1, <1>2, <2>2, <2>3, ShiftPush
<1>6. CASE Ended \/ Serve
  <2>1. In("poll", "serve")
    BY <1>6 DEF Ended, Serve
  <2>2. \E f : Become(f) /\ (f = NextClient(slot, Top.i) \/ f = Poll("frames", Top.i))
    BY <1>6 DEF Ended, Serve
  <2>. QED
    BY SMTT(30), <1>2, <1>4, <2>1, <2>2
<1>7. CASE DecodeLast \/ DecodeHead \/ FramesDone
  <2>1. In("poll", "frames")
    BY <1>7 DEF DecodeLast, DecodeHead, FramesDone, Decoding
  <2>2. UNCHANGED stack \/ \E f : Become(f) /\ (f = NextClient(slot, Top.i) \/ f = Poll("frames", Top.i))
    BY <1>7 DEF DecodeLast, DecodeHead, FramesDone
  <2>. QED
    BY <1>2, <1>3, <1>4, <2>1, <2>2
<1>8. CASE UNCHANGED cdpVars \/ DecodePing \/ DecodeFragment \/ ScriptLogs \/ \E k \in Conns : Client(k)
  <2>1. UNCHANGED stack
    BY <1>8 DEF cdpVars, DecodePing, DecodeFragment, ScriptLogs, Client, PeerConnects, PeerSends,
                PeerResumes, PeerLeaves
  <2>. QED
    BY <1>2, <1>3, <2>1
<1>9. CASE Flush
  <2>1. stack # <<>> /\ Return
    BY <1>9 DEF Flush, In
  <2>. QED
    BY <1>1, <1>2, <2>1, ShiftReturn
<1>10. CASE PauseEnds
  <2>1. stack # <<>> /\ stack' = MarkPause(Tail(stack), "inner")
    BY <1>10 DEF PauseEnds
  <2>. QED
    BY <1>1, <1>2, <2>1, ShiftMarkTail
<1>11. CASE PageScript \/ ScriptPauses
  <2>1. ScriptCall(0, NoConn, 0) \in Calls /\ ~Asks(ScriptCall(0, NoConn, 0))
    BY DEF ScriptCall, Calls, Asks
  <2>2. Pause("") \in Calls /\ ~Asks(Pause(""))
    BY DEF Pause, Calls, Asks
  <2>3. \E f \in Calls : ~Asks(f) /\ Call(f)
    BY <1>11, <2>1, <2>2 DEF PageScript, ScriptPauses
  <2>. QED
    BY <1>1, <1>2, <2>3, ShiftPush
<1>. QED
  BY <1>5, <1>6, <1>7, <1>8, <1>9, <1>10, <1>11

\* A message is dispatched: it is later than all the others of its client, so
\* it was not answered before.
LEMMA DecodeMessageUnique == ASSUME CdpInv, StreamInv, UniqueInv, DecodeMessage PROVE UniqueInv'
<1>1. CdpTypes /\ PlaceInv /\ CutInv /\ CdpTypes'
  BY SMTT(30), DecodeMessageInv DEF CdpInv
<1>2. /\ Decoding /\ Item.op \in {"text", "cont"} /\ Item.fin
      /\ UNCHANGED <<script, sent, peer, backlog, wire>>
  BY DEF DecodeMessage, peers
<1>3. PICK i, k, parts, after : Handled(i, k, parts, after)
  BY <1>2, HandledNext
<1>4. /\ i = Top.i /\ i \in Slots /\ k = slot[i].fd /\ k \in Conns /\ parts \in Seq(Items)
      /\ parts = TakeMessage.parts /\ after = [Consumed EXCEPT ![i].frag = TakeMessage.rest]
  BY <1>3 DEF Handled
<1>5. Kept(after)
  <2>1. TakeMessage.rest = <<>> /\ <<>> \in Seq(Items)
    BY <1>2, TakeMessageType
  <2>. QED
    BY <1>2, <1>4, <2>1, ConsumedFacts
<1>6. PICK n, x : n = parts[1].n /\ x = [of |-> k, n |-> n]
  OBVIOUS
<1>7. ASSUME n \in Nat, Reply(after, i, k, n)
      PROVE  answers' = answers \/ (n # 0 /\ answers' = [answers EXCEPT ![k] = Append(@, x)])
  BY SMTT(30), <1>1, <1>2, <1>4, <1>5, <1>6, <1>7, ReplyFacts
<1>. DEFINE dispatched == [got EXCEPT ![k] = Append(@, parts)]
            here(method) == parts # <<>> /\ parts[1].first /\ parts[1].method = method
<1>8. \/ /\ parts = <<>> \/ ~parts[1].first
         /\ got' = IF parts = <<>> THEN got ELSE dispatched
         /\ UNCHANGED <<stack, answers>>
      \/ here("ack") /\ got' = dispatched /\ Reply(after, i, k, n) /\ UNCHANGED stack
      \/ /\ here("enable") /\ got' = dispatched
         /\ answers' \in {answers, [answers EXCEPT ![k] = Append(@, x)]}
         /\ UNCHANGED stack
      \/ /\ here("resume") /\ got' = (IF n = 0 THEN got ELSE dispatched)
         /\ Reply(after, i, k, n) /\ stack' = MarkPause(stack, "asked")
      \/ /\ here("eval") /\ got' = dispatched /\ UNCHANGED answers
         /\ Call(ScriptCall(i, k, n))
  BY <1>4, <1>6 DEF DecodeMessage
<1>9. /\ UNCHANGED stack => Shifted(0)
      /\ stack' = MarkPause(stack, "asked") => Shifted(0)
  BY <1>1, ShiftSame, ShiftMark
<1>10. CASE parts = <<>> \/ parts = <<Resume>>
  <2>1. parts = <<Resume>> => parts[1].first /\ parts[1].method = "resume" /\ n = 0 /\ parts # <<>>
    BY <1>6 DEF Resume
  <2>2. UNCHANGED got /\ UNCHANGED answers /\ (UNCHANGED stack \/ stack' = MarkPause(stack, "asked"))
    <3>1. CASE parts = <<>>
      BY <3>1, <1>8
    <3>2. CASE parts = <<Resume>>
      <4>1. here("resume") /\ n = 0
        BY <2>1, <3>2
      <4>2. UNCHANGED got /\ Reply(after, i, k, n) /\ stack' = MarkPause(stack, "asked")
        BY <4>1, <1>8
      <4>. QED
        BY <4>1, <4>2, <1>7
    <3>. QED
      BY <1>10, <3>1, <3>2
  <2>3. Shifted(0)
    BY <1>9, <2>2
  <2>. QED
    BY <1>1, <2>2, <2>3, UniqueQuiet
<1>11. CASE ~(parts = <<>> \/ parts = <<Resume>>)
  <2>1. /\ parts[1].n \in Nat /\ n # 0
        /\ \A p \in 1..Len(got[k]) : got[k][p][1].n < parts[1].n
    BY <1>3, <1>6, <1>11 DEF Handled, NextMessage
  <2>2. got' = dispatched
    BY <1>8, <1>11, <2>1
  <2>3. GotGrows /\ Given(x)' /\ ~Given(x)
    BY <1>1, <1>4, <1>6, <2>1, <2>2, GotMore
  <2>4. Len(stack) \in Nat /\ Len(stack') \in Nat /\ stack \in Seq(Calls) /\ answers \in [Conns -> Seq(Pair)]
    BY <1>1 DEF CdpTypes
  <2>5. ~Replied(x)
    BY <2>3 DEF Replied, UniqueInv
  <2>6. x \in Pair /\ n \in Nat
    BY <1>4, <1>6, <2>1 DEF Pair
  <2>7. CASE Shifted(0) /\ answers' = answers
    BY <2>3, <2>4, <2>7, UniqueSame
  <2>8. CASE Shifted(0) /\ answers' = [answers EXCEPT ![k] = Append(@, x)]
    <3>1. \A p \in 1..Len(stack') : Asks(stack'[p]) => Given(Asked0(stack'[p]))
      BY <2>4, <2>8, ShiftedAsks
    <3>2. \A p \in 1..Len(stack') : Asks(stack'[p]) => Asked0(stack'[p]) # x
      BY <2>3, <3>1
    <3>. QED
      BY <1>4, <2>3, <2>4, <2>5, <2>6, <2>8, <3>2, UniqueAnswer
  <2>9. CASE Call(ScriptCall(i, k, n)) /\ answers' = answers
    <3>1. PICK f \in Calls : f = ScriptCall(i, k, n)
      BY <1>4, <2>6 DEF ScriptCall, Calls
    <3>2. x = Asked0(f)
      BY <1>6, <3>1 DEF ScriptCall, Asked0
    <3>. QED
      BY <2>3, <2>4, <2>9, <3>1, <3>2, UniqueAsk
  <2>. QED
    BY SMTT(30), <1>7, <1>8, <1>9, <1>11, <2>6, <2>7, <2>8, <2>9
<1>. QED
  BY <1>10, <1>11

\* An evaluation ends: it was in progress once and not answered.
LEMMA ScriptEndsUnique == ASSUME CdpInv, UniqueInv, ScriptEnds PROVE UniqueInv'
<1>1. CdpTypes /\ PlaceInv /\ CutInv /\ CdpTypes'
  BY ScriptEndsInv DEF CdpInv
<1>2. /\ stack # <<>> /\ Top.call = "script" /\ Return /\ UNCHANGED <<peer, backlog, got>>
  BY DEF ScriptEnds, In, peers
<1>3. Top = stack[1] /\ Top \in Calls /\ 1 \in 1..Len(stack)
  BY <1>1, <1>2, TopFacts
<1>4. Shifted(1)
  BY <1>1, <1>2, ShiftReturn
<1>5. CASE answers' = answers
  BY <1>1, <1>2, <1>4, <1>5, UniqueQuiet
<1>6. CASE answers' # answers
  <2>1. Top.of # NoConn /\ Reply(slot, Top.i, Top.of, Top.n)
    BY <1>6 DEF ScriptEnds
  <2>2. Asks(stack[1])
    BY <1>2, <1>3, <2>1 DEF Asks
  <2>3. PICK i \in Slots, k \in Conns, n \in Nat : i = Top.i /\ k = Top.of /\ n = Top.n
    BY <1>3, <2>2, CallTypes
  <2>4. PICK x : x = [of |-> k, n |-> n]
    OBVIOUS
  <2>5. Reply(slot, i, k, n) /\ Kept(slot)
    BY <1>1, <2>1, <2>3 DEF Kept, PlaceInv, CdpTypes
  <2>6. slot[i].fd \in Conns /\ answers' = [answers EXCEPT ![slot[i].fd] = Append(@, x)]
    BY <1>1, <1>2, <1>6, <2>4, <2>5, ReplyFacts
  <2>7. PICK l \in Conns : l = slot[i].fd
    BY <2>6
  <2>8. x = Asked0(stack[1]) /\ x \in Pair
    BY <1>3, <2>3, <2>4 DEF Asked0, Pair
  <2>9. Given(x) /\ ~Replied(x)
    BY <1>3, <2>2, <2>8 DEF UniqueInv
  <2>10. GotGrows /\ Given(x)'
    BY <1>2, <2>9, GotSame DEF GotGrows
  <2>11. Len(stack) \in Nat /\ Len(stack') \in Nat /\ answers \in [Conns -> Seq(Pair)]
    <3>1. stack \in Seq(Calls) /\ answers \in [Conns -> Seq(Pair)]
      BY <1>1 DEF CdpTypes
    <3>2. stack' \in Seq(Calls)
      BY <1>1 DEF CdpTypes
    <3>. QED
      BY <3>1, <3>2
  <2>12. ASSUME NEW p \in 1..Len(stack'), Asks(stack'[p]) PROVE Asked0(stack'[p]) # x
    <3>1. p + 1 \in 1..Len(stack) /\ stack'[p] = stack[p + 1]
      BY <1>4, <2>12 DEF Shifted
    <3>2. p + 1 # 1
      BY <2>11
    <3>. QED
      BY <1>3, <2>2, <2>8, <2>12, <3>1, <3>2 DEF UniqueInv
  <2>13. answers' = [answers EXCEPT ![l] = Append(@, x)]
    BY <2>6, <2>7
  <2>. QED
    BY <1>4, <2>8, <2>9, <2>10, <2>11, <2>12, <2>13, UniqueAnswer
<1>. QED
  BY <1>5, <1>6

\* Every step preserves UniqueInv.
LEMMA UniqueStep == CdpInv /\ StreamInv /\ UniqueInv /\ [CdpNext]_cdpVars => UniqueInv'
<1>. SUFFICES ASSUME CdpInv, StreamInv, UniqueInv, [CdpNext]_cdpVars PROVE UniqueInv'
  OBVIOUS
<1>1. CASE DecodeMessage
  BY <1>1, DecodeMessageUnique
<1>2. CASE ScriptEnds
  BY <1>2, ScriptEndsUnique
<1>3. CASE ~DecodeMessage /\ ~ScriptEnds
  <2>1. \/ UNCHANGED cdpVars
        \/ PollStarts \/ Ended \/ Serve \/ DecodePing \/ DecodeLast \/ DecodeFragment
        \/ DecodeHead \/ FramesDone \/ Flush \/ PauseEnds
        \/ PageScript \/ ScriptLogs \/ ScriptPauses
        \/ \E k \in Conns : Client(k)
    BY <1>3 DEF CdpNext, Server
  <2>2. UNCHANGED <<got, answers>> /\ \E e \in {0, 1, 0 - 1} : Shifted(e)
    BY <2>1, QuietShifts
  <2>3. CdpTypes /\ CdpTypes'
    BY CdpStep DEF CdpInv
  <2>. QED
    BY <2>2, <2>3, UniqueQuiet
<1>. QED
  BY <1>1, <1>2, <1>3

\* An answer is written once, and to the client that asked, unless that client
\* left while its evaluation was stopped in the debugger.
THEOREM CdpAnswersReachTheAsker == CdpSpec => []AnswersReachTheAsker
<1>1. CdpInv /\ UniqueInv => AnswersReachTheAsker
  <2>. SUFFICES ASSUME CdpInv, UniqueInv PROVE AnswersReachTheAsker
    OBVIOUS
  <2>1. \A k \in Conns : DOMAIN answers[k] = 1..Len(answers[k])
    <3>1. \A k \in Conns : answers[k] \in Seq(Pair)
      BY DEF CdpInv, CdpTypes
    <3>. QED
      BY <3>1
  <2>2. \A k : Left(k) => ~Connected(k)
    BY DEF Left, Connected
  <2>3. AnswerInv
    BY DEF CdpInv
  <2>4. \A k \in Conns : \A p \in DOMAIN answers[k] :
          \/ answers[k][p].of = k
          \/ answers[k][p] \in held /\ ~Connected(answers[k][p].of)
    BY <2>1, <2>2, <2>3 DEF AnswerInv
  <2>5. \A k, l \in Conns : \A p \in DOMAIN answers[k], q \in DOMAIN answers[l] :
          answers[k][p] = answers[l][q] => k = l /\ p = q
    BY <2>1 DEF UniqueInv
  <2>. QED
    BY <2>4, <2>5 DEF AnswersReachTheAsker
<1>. QED
  BY <1>1, StreamInit, StreamStep, UniqueInit, UniqueStep, CdpInvariant, PTL DEF CdpSpec
=============================================================================
