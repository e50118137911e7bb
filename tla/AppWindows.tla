------------------------------ MODULE AppWindows ------------------------------
(***************************************************************************)
(* The host run loop (main.c), the window list (mini_window.c) and the     *)
(* BrowserWindow wrappers of the main script (mini_native.c).              *)
(*                                                                         *)
(* Every window has its own document and its own JavaScript runtime.  Two  *)
(* process-wide pointers, the active document and the active bridge, say   *)
(* whose they are; the loop moves them as it goes from window to window.   *)
(* A secondary window is held by the window list and by its BrowserWindow  *)
(* wrapper, one reference each, and is destroyed with the last of them.    *)
(*                                                                         *)
(* Window 0 is the primary.  Ids are handed out in the order windows are   *)
(* appended to the list, so the list is a set that the loop walks upwards. *)
(* Everything runs on one thread: pc is the phase of the loop, and scripts *)
(* run inside a phase.                                                     *)
(***************************************************************************)
EXTENDS Integers, FiniteSets, FiniteSetsExt

CONSTANTS MaxWindows,    \* bound: ids handed out to secondary windows
          FailAt         \* the stages of window creation that may fail

Stages == {"renderer", "bridge", "runtime", "events", "wrapper"}

ASSUME WindowsAssumption == MaxWindows \in Nat /\ FailAt \subseteq Stages

Primary == 0
Secondary == 1 .. MaxWindows
Nil == -1        \* a null pointer
Dangling == -2   \* a pointer to memory that was freed

VARIABLES
    pc,            \* phase of mini_app_run and mini_app_destroy
    idx,           \* the secondary window the phase is at (0: none)
    nextId,        \* next_window_id
    listed,        \* the window list
    ref,           \* MiniWindow.ref
    wrapper,       \* windows whose BrowserWindow wrapper is alive
    listeners,     \* the wrapper's listener table
    closing,       \* MiniWindow.closing
    shouldClose,   \* GLFW's should-close flag of the primary
    dirty,         \* windows that have something to draw
    freed,         \* windows given to mini_window_destroy
    activeDoc,     \* g_active_doc
    activeBridge,  \* g_active_js_bridge
    outside        \* history: a native object that is no window, such as a child
                   \* process, held a closure of the main script at its end

vars == <<pc, idx, nextId, listed, ref, wrapper, listeners, closing,
          shouldClose, dirty, freed, activeDoc, activeBridge, outside>>
lifetime == <<nextId, listed, ref, wrapper, listeners, freed, outside>>
active == <<activeDoc, activeBridge>>

MainPhases == {"load", "poll", "pump", "ipc", "net", "raf", "endFrame", "quit"}
SecondaryPhases == {"secPump", "secIpc", "secRender"}
Phases == MainPhases \cup SecondaryPhases
            \cup {"head", "gate", "sweep", "teardown", "dropList", "done", "corrupt"}

\* The listener table: empty, or holding closures that do not capture the
\* BrowserWindow object, or holding one that does (a cycle through C).
Tables == {"none", "plain", "self"}

\* mini_app_create: the primary is registered and its script is being loaded.
Init ==
    /\ pc = "load" /\ idx = 0 /\ nextId = 1
    /\ listed = {Primary}
    /\ ref = [w \in Secondary |-> 0]
    /\ wrapper = {} /\ listeners = [w \in Secondary |-> "none"]
    /\ closing = {} /\ shouldClose = FALSE /\ dirty = {Primary} /\ freed = {}
    /\ activeDoc = Primary /\ activeBridge = Primary /\ outside = FALSE

-----------------------------------------------------------------------------
(* What scripts do.                                                        *)

MainRuns == pc \in MainPhases

\* The context whose script runs in this phase.
Running == IF pc \in SecondaryPhases THEN idx ELSE Primary

\* mini_window_destroy frees the document and the bridge: the active pointers
\* that point at them are cleared.
ActiveAfterFree(ws) ==
    /\ activeDoc' = IF activeDoc \in ws THEN Nil ELSE activeDoc
    /\ activeBridge' = IF activeBridge \in ws THEN Nil ELSE activeBridge

\* new BrowserWindow(): the document and the bridge of the new window make
\* themselves active and nothing switches back; the list and the wrapper take
\* a reference each.
NewWindow ==
    /\ MainRuns /\ nextId \in Secondary
    /\ nextId' = nextId + 1
    /\ listed' = listed \cup {nextId}
    /\ ref' = [ref EXCEPT ![nextId] = 2]
    /\ wrapper' = wrapper \cup {nextId}
    /\ dirty' = dirty \cup {nextId}
    /\ activeDoc' = nextId /\ activeBridge' = nextId
    /\ UNCHANGED <<pc, idx, listeners, closing, shouldClose, freed, outside>>

\* Window creation that fails: what was built is destroyed again and the
\* constructor throws.  Only a failure of JS_NewRuntime or JS_NewContext frees a
\* bridge without clearing the active pointer.
NewWindowFails(stage) ==
    /\ MainRuns /\ stage \in FailAt
    /\ stage = "wrapper" => nextId \in Secondary
    /\ nextId' = IF stage = "wrapper" THEN nextId + 1 ELSE nextId
    /\ freed' = IF stage = "wrapper" THEN freed \cup {nextId} ELSE freed
    /\ activeDoc' = IF stage = "renderer" THEN activeDoc ELSE Nil
    /\ activeBridge' = IF stage \in {"renderer", "bridge"} THEN activeBridge
                       ELSE IF stage = "runtime" THEN Dangling ELSE Nil
    /\ UNCHANGED <<pc, idx, listed, ref, wrapper, listeners, closing,
                   shouldClose, dirty, outside>>

\* A node that has no wrapper is destroyed, first of all those of the document
\* of the window that failed: mini_bridge_on_node_destroyed looks for their
\* listeners in the freed bridge.  Nothing is modelled behind such a read that
\* goes wrong.
UseFreedBridge ==
    /\ activeBridge = Dangling /\ pc \notin {"done", "corrupt"}
    /\ pc' = "corrupt"
    /\ UNCHANGED <<idx, lifetime, closing, shouldClose, dirty, active>>

\* BrowserWindow.on / once: the closure may capture the window object.
AddListener(w) ==
    /\ MainRuns /\ w \in wrapper /\ listeners[w] # "self"
    /\ \E t \in {"plain", "self"} : listeners' = [listeners EXCEPT ![w] = t]
    /\ UNCHANGED <<pc, idx, nextId, listed, ref, wrapper, closing, shouldClose,
                   dirty, freed, active, outside>>

\* BrowserWindow.off.
RemoveListeners(w) ==
    /\ MainRuns /\ w \in wrapper /\ listeners[w] # "none"
    /\ listeners' = [listeners EXCEPT ![w] = "none"]
    /\ UNCHANGED <<pc, idx, nextId, listed, ref, wrapper, closing, shouldClose,
                   dirty, freed, active, outside>>

\* BrowserWindow.close: 'close' and 'closed' are emitted, then the flag is set.
CloseWindow(w) ==
    /\ MainRuns /\ w \in wrapper
    /\ closing' = closing \cup {w}
    /\ UNCHANGED <<pc, idx, lifetime, shouldClose, dirty, active>>

\* app.quit(), or a second instance that found the first one running.
AppQuit ==
    /\ MainRuns
    /\ closing' = closing \cup listed
    /\ shouldClose' = (shouldClose \/ Primary \in listed)
    /\ UNCHANGED <<pc, idx, lifetime, dirty, active>>

\* Mutant: the finalizer leaves the reference of the wrapper in place.
FinalizeKeepsRef(w) ==
    /\ MainRuns /\ w \in wrapper /\ listeners[w] # "self"
    /\ wrapper' = wrapper \ {w}
    /\ listeners' = [listeners EXCEPT ![w] = "none"]
    /\ UNCHANGED <<pc, idx, nextId, listed, ref, closing, shouldClose, dirty,
                   freed, active, outside>>

\* Mutant: the finalizer destroys the window whatever the count.
FinalizeDestroys(w) ==
    /\ MainRuns /\ w \in wrapper /\ listeners[w] # "self"
    /\ wrapper' = wrapper \ {w}
    /\ listeners' = [listeners EXCEPT ![w] = "none"]
    /\ ref' = [ref EXCEPT ![w] = @ - 1]
    /\ freed' = freed \cup {w}
    /\ UNCHANGED <<pc, idx, nextId, listed, closing, shouldClose, dirty, active,
                   outside>>

\* js_bw_finalizer: the script dropped its last handle and no listener keeps
\* the wrapper alive.
Finalize(w) ==
    /\ MainRuns /\ w \in wrapper /\ listeners[w] # "self"
    /\ wrapper' = wrapper \ {w}
    /\ listeners' = [listeners EXCEPT ![w] = "none"]
    /\ ref' = [ref EXCEPT ![w] = @ - 1]
    /\ LET dead == {v \in {w} : ref[v] - 1 <= 0} IN
         /\ freed' = freed \cup dead
         /\ listed' = listed \ dead
         /\ ActiveAfterFree(dead)
    /\ UNCHANGED <<pc, idx, nextId, closing, shouldClose, dirty, outside>>

\* A script mutates its own document or registers a rAF; the main script also
\* loads pages into the windows it holds.
Touch(w) ==
    /\ MainRuns \/ pc \in SecondaryPhases
    /\ w \in listed /\ w \notin dirty
    /\ w = Running \/ (MainRuns /\ w \in wrapper)
    /\ dirty' = dirty \cup {w}
    /\ UNCHANGED <<pc, idx, lifetime, closing, shouldClose, active>>

MainScript ==
    \/ NewWindow
    \/ \E stage \in FailAt : NewWindowFails(stage)
    \/ \E w \in wrapper : \/ AddListener(w) \/ RemoveListeners(w)
                          \/ CloseWindow(w) \/ Finalize(w)
    \/ AppQuit

Script == MainScript \/ \E w \in listed : Touch(w)

\* The user closes the primary window, or input arrives for some window.
UserCloses ==
    /\ pc = "poll" /\ shouldClose' = TRUE
    /\ UNCHANGED <<pc, idx, lifetime, closing, dirty, active>>

Input(w) ==
    /\ pc = "poll" /\ w \in listed /\ dirty' = dirty \cup {w}
    /\ UNCHANGED <<pc, idx, lifetime, closing, shouldClose, active>>

-----------------------------------------------------------------------------
(* The phases of mini_app_run.                                             *)

Goto(from, to) ==
    /\ pc = from /\ pc' = to
    /\ UNCHANGED <<idx, lifetime, closing, shouldClose, dirty>>

\* The loop over the secondaries in ws: the next one after i, or the phase
\* that follows the loop.
Walk(ws, i, phase, after) ==
    LET rest == {w \in ws : w > i} IN
    /\ pc' = IF rest = {} THEN after ELSE phase
    /\ idx' = IF rest = {} THEN 0 ELSE Min(rest)

Loaded == Goto("load", "head") /\ UNCHANGED active

\* Mutant: the loop ends only when nothing is left to draw.
LoopHeadWaitsForFrame ==
    /\ Goto("head", IF shouldClose /\ dirty = {} THEN "quit" ELSE "poll")
    /\ UNCHANGED active

\* while (!glfwWindowShouldClose(win))
LoopHead ==
    /\ Goto("head", IF shouldClose THEN "quit" ELSE "poll")
    /\ UNCHANGED active

\* After glfwPollEvents the primary becomes the active window.
PollDone ==
    /\ Goto("poll", "pump")
    /\ activeDoc' = Primary /\ activeBridge' = Primary

\* mini_ipc_dispatch for the main context makes its bridge active.
PumpDone ==
    /\ Goto("pump", "ipc")
    /\ activeBridge' = Primary /\ UNCHANGED activeDoc

IpcDone == Goto("ipc", "net") /\ UNCHANGED active

\* mini_net_api_pump dispatches a finished request in the main context.
NetEvents ==
    /\ pc = "net" /\ activeBridge' = Primary
    /\ UNCHANGED <<pc, idx, lifetime, closing, shouldClose, dirty, activeDoc>>

NetDone ==
    /\ pc = "net" /\ Walk(listed, 0, "secPump", "gate")
    /\ UNCHANGED <<lifetime, closing, shouldClose, dirty, active>>

\* mini_window_pump is over; mini_ipc_dispatch makes the bridge active.
SecPumpDone ==
    /\ Goto("secPump", "secIpc")
    /\ activeBridge' = idx /\ UNCHANGED activeDoc

SecIpcDone ==
    /\ pc = "secIpc" /\ Walk(listed, idx, "secPump", "gate")
    /\ UNCHANGED <<lifetime, closing, shouldClose, dirty, active>>

NeedFrame == Primary \in dirty \/ (dirty \cap listed) \ closing # {}

\* The idle gate: a frame nobody needs is skipped, and the rest of the
\* iteration with it.
Gate ==
    /\ Goto("gate", IF NeedFrame THEN "raf" ELSE "head")
    /\ UNCHANGED active

RafDone == Goto("raf", "endFrame") /\ UNCHANGED active

\* mini_window_render_frame makes the window active, both pointers.
EnterRender(i) ==
    LET rest == {w \in listed \ closing : w > i} IN
    IF rest = {}
    THEN activeDoc' = Primary /\ activeBridge' = Primary
    ELSE activeDoc' = Min(rest) /\ activeBridge' = Min(rest)

EndFrame ==
    /\ pc = "endFrame"
    /\ Walk(listed \ closing, 0, "secRender", "sweep")
    /\ EnterRender(0)
    /\ UNCHANGED <<lifetime, closing, shouldClose, dirty>>

\* The frame of idx is drawn; its rAF callbacks may want another one.
RenderDone ==
    /\ pc = "secRender"
    /\ Walk(listed \ closing, idx, "secRender", "sweep")
    /\ EnterRender(idx) /\ dirty' \in {dirty, dirty \ {idx}}
    /\ UNCHANGED <<lifetime, closing, shouldClose>>

\* mini_window_sweep_closed, then the end of the frame.
Sweep ==
    LET kill == (listed \cap closing) \ {Primary}
        dead == {w \in kill : ref[w] - 1 <= 0}
    IN  /\ pc = "sweep" /\ pc' = "head"
        /\ listed' = listed \ kill
        /\ ref' = [w \in Secondary |-> IF w \in kill THEN ref[w] - 1 ELSE ref[w]]
        /\ freed' = freed \cup dead
        /\ ActiveAfterFree(dead)
        /\ dirty' \in {dirty, dirty \ {Primary}}
        /\ UNCHANGED <<idx, nextId, wrapper, listeners, closing, shouldClose,
                       outside>>

-----------------------------------------------------------------------------
(* The end: before-quit, then mini_app_destroy.                            *)

\* The loop has emitted 'before-quit' and 'window-all-closed'.
QuitDone == Goto("quit", "teardown") /\ UNCHANGED active

\* mini_bridge_destroy of the main bridge: the listener tables of the listed
\* windows are freed, then the context goes and the collector finalizes what it
\* can.  A closure that is left in the table of a window that was swept, or in a
\* native object of another kind, keeps its realm, and with it any wrappers
\* (kept) that it or the globals reach.  Without that context the
\* finalizer leaves the table as it is.
DestroyMainBridge ==
    LET tables == [w \in Secondary |-> IF w \in listed THEN "none" ELSE listeners[w]]
    IN  /\ pc = "teardown" /\ pc' = "dropList"
        /\ outside' \in BOOLEAN
        /\ \E kept \in SUBSET wrapper :
             LET dead == {w \in wrapper \ kept : ref[w] - 1 <= 0}
             IN  /\ \A w \in wrapper : tables[w] = "self" => w \in kept
                 /\ kept # {} => outside' \/ \E w \in wrapper : tables[w] # "none"
                 /\ wrapper' = kept
                 /\ ref' = [w \in Secondary |->
                             IF w \in wrapper \ kept THEN ref[w] - 1 ELSE ref[w]]
                 /\ freed' = freed \cup dead
                 /\ listed' = listed \ dead
                 /\ ActiveAfterFree(dead \cup {Primary})
        /\ listeners' = tables
        /\ UNCHANGED <<idx, nextId, closing, shouldClose, dirty>>

\* Mutant: the list references are dropped without looking at the count.
DropListForgets ==
    /\ pc = "dropList" /\ pc' = "done"
    /\ listed' = {}
    /\ ref' = [w \in Secondary |-> IF w \in listed THEN ref[w] - 1 ELSE ref[w]]
    /\ UNCHANGED <<idx, nextId, wrapper, listeners, closing, shouldClose, dirty,
                   freed, active, outside>>

\* The list references are dropped last.
DropList ==
    LET dead == {w \in listed \ {Primary} : ref[w] - 1 <= 0} IN
    /\ pc = "dropList" /\ pc' = "done"
    /\ listed' = {}
    /\ ref' = [w \in Secondary |-> IF w \in listed THEN ref[w] - 1 ELSE ref[w]]
    /\ freed' = freed \cup dead
    /\ ActiveAfterFree(dead)
    /\ UNCHANGED <<idx, nextId, wrapper, listeners, closing, shouldClose, dirty,
                   outside>>

LoopStep ==
    \/ Loaded \/ LoopHead \/ PollDone \/ PumpDone \/ IpcDone \/ NetDone
    \/ SecPumpDone \/ SecIpcDone \/ Gate \/ RafDone \/ EndFrame \/ RenderDone
    \/ Sweep \/ QuitDone \/ DestroyMainBridge \/ DropList

Next ==
    \/ Script
    \/ UserCloses
    \/ \E w \in listed : Input(w)
    \/ NetEvents
    \/ UseFreedBridge
    \/ LoopStep

Spec == Init /\ [][Next]_vars

\* The host thread never stops between two phases, and a script that is run
\* returns.
FairSpec == Spec /\ WF_vars(LoopStep)

-----------------------------------------------------------------------------
(* Properties.                                                             *)

(* The type of the run loop's state, the window list and the wrappers of    *)
(* mini_native.c; a reference counter stays within 0 .. 2.                  *)
TypeOK ==
    /\ pc \in Phases /\ idx \in {0} \cup Secondary
    /\ nextId \in 1 .. MaxWindows + 1
    /\ listed \subseteq {Primary} \cup Secondary
    /\ ref \in [Secondary -> 0 .. 2]
    /\ wrapper \subseteq Secondary
    /\ listeners \in [Secondary -> Tables]
    /\ closing \subseteq {Primary} \cup Secondary
    /\ shouldClose \in BOOLEAN
    /\ dirty \subseteq {Primary} \cup Secondary
    /\ freed \subseteq Secondary
    /\ activeDoc \in {Nil, Dangling, Primary} \cup Secondary
    /\ activeBridge \in {Nil, Dangling, Primary} \cup Secondary
    /\ outside \in BOOLEAN

Created == 1 .. nextId - 1

(* The rule of the reference count (mini_window.h): a window is destroyed   *)
(* as soon as neither the list nor a BrowserWindow wrapper holds it, and    *)
(* never while one of them does, in whatever order the sweep, the finalizer *)
(* and the teardown drop their references.                                  *)
Lifetimes ==
    \A w \in Created : w \in freed <=> w \notin listed /\ w \notin wrapper

(* The active pointers never point at a window that was destroyed, and the  *)
(* active document is never one that was freed.  The active bridge is freed *)
(* memory only because a runtime or a context could not be created          *)
(* (mini_bridge_create_ex), and no secondary's IPC drain, no render    *)
(* and no sweep of closed windows is ever entered with it: the loop has     *)
(* moved the pointer by then, whichever phase left it.                      *)
ActiveIsLive ==
    /\ activeDoc \notin freed \cup {Dangling}
    /\ activeBridge \notin freed
    /\ activeBridge = Dangling =>
         "runtime" \in FailAt /\ pc \notin {"secIpc", "secRender", "sweep"}

(* The render of a secondary runs on that window's document and bridge, and *)
(* the window still exists (mini_window_render_frame).                      *)
SecondaryRendersItself ==
    pc = "secRender" => /\ activeDoc = idx /\ activeBridge = idx
                        /\ idx \in listed \ freed

(* After teardown a window is still alive only because a closure outlived   *)
(* the main bridge: one in the listener table of a window that was swept,   *)
(* which mini_native_destroy does not look at, or one that a native object  *)
(* of another kind holds.  Without such a closure every window is           *)
(* destroyed, listed or swept, with listeners or without.                   *)
TeardownFreesWindows ==
    pc = "done" => \/ Created \subseteq freed
                   \/ outside
                   \/ \E w \in Created : listeners[w] # "none"

(* A primary that should close leads to a finished teardown, whatever the   *)
(* scripts do meanwhile, unless a freed bridge is read.                     *)
QuitFinishes == shouldClose ~> pc \in {"done", "corrupt"}

(* As long as frames are drawn, a window that is closing leaves the list.   *)
ClosingSweptByFrames ==
    []<>(pc = "sweep") => \A w \in Secondary : w \in closing ~> w \notin listed

(* The run loop gets there: to the end of teardown, and to the sweep of     *)
(* every window that closes while frames are drawn (mini_app_run).          *)
LoopProgress == QuitFinishes /\ ClosingSweptByFrames
=============================================================================
