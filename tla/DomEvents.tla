---------------------------- MODULE DomEvents ----------------------------
(* Native input of a page (mini_events.c): the pointer, focus, the change  *)
(* event of form controls and HTML5 drag and drop.                         *)
(*                                                                         *)
(* An input event runs a handler that fires DOM events one after another;  *)
(* in each of them a listener of the page may destroy nodes (innerHTML),   *)
(* move the focus, or prevent the default.  What the handler has still to  *)
(* do is the sequence todo: an item is an event to dispatch, or a piece of *)
(* the handler between two dispatches.  A listener that calls focus() puts *)
(* the calls of mini_events_focus in front of it.                          *)
(*                                                                         *)
(* The engine keeps pointers to nodes.  Once it reads a node that was      *)
(* destroyed nothing is known of the process: lost, and the model stops.   *)
(*                                                                         *)
(* Left out: page-text selection, the data-drag="move" drag, mouse         *)
(* gestures, carets, checkboxes and links, wheel and resize, :hover and    *)
(* :active bits, nodes detached but not destroyed.                         *)
EXTENDS ArrayOps, FiniteSets

CONSTANTS Nodes,      \* the elements of the page
          Body,       \* doc->body, which is never destroyed
          Parent,     \* the tree: a function on Nodes \ {Body}
          Text,       \* text inputs
          Ranges,     \* inputs of type range
          Draggables, \* elements with the draggable attribute
          TabOrder,   \* the focusable elements in document order
          NoNode,     \* NULL
          MaxInputs,  \* bound: input events
          MaxActs     \* bound: script actions

ASSUME Tree == Body \in Nodes /\ NoNode \notin Nodes \cup {0, 1} /\ Parent \in [Nodes \ {Body} -> Nodes]
ASSUME Controls == /\ Text \cap Ranges = {} /\ Text \cup Ranges \cup Draggables \subseteq Nodes
                   /\ TabOrder \in Seq(Nodes \ {Body})
ASSUME Bounds == MaxInputs \in Nat /\ MaxActs \in Nat

MaybeNode == Nodes \cup {NoNode}
Positions == Nodes \cup {NoNode}  \* where the pointer is: over a node, or over none
Fields == Text \cup Ranges

VARIABLES live,      \* nodes that are not destroyed
          unheard,   \* history: nodes destroyed while another document was the active one
          hover, focus, press, lastClick, dragRange,  \* kept nodes, or NoNode
          dnd,       \* source, target, started and allowed of the drag
          scrolling, \* drag_scrollbar
          flag,      \* nodes with state_focused
          val,       \* the value of every field
          snap,      \* edit_snapshot, or NoNode
          suppress,  \* suppress_char
          todo,      \* what the running handler has still to do
          lost,      \* a destroyed node was read
          pointer,   \* where the pointer is, and
          down,      \* the buttons the user holds
          inputs, acts, \* how many so far
          armed,     \* history: node of a left press nothing has interfered with
          dragging,  \* history: node whose dragstart had no dragend yet
          accepts,   \* history: node that prevented the last dragover
          owed,      \* history: fields edited by the user with no change event yet
          odd        \* history: "nested" focus calls, "mixed" snapshots

kept    == <<hover, focus, press, lastClick, dragRange>>
control == <<flag, val, snap, suppress>>
history == <<armed, dragging, accepts, owed, odd>>
user    == <<pointer, down, inputs>>
domVars == <<live, unheard, kept, dnd, scrolling, control, todo, lost, user, acts, history>>

NoDrag == [source |-> NoNode, target |-> NoNode, started |-> FALSE, allowed |-> FALSE]

DomInit == /\ live = Nodes /\ unheard = {}
           /\ hover = NoNode /\ focus = NoNode /\ press = NoNode /\ lastClick = NoNode /\ dragRange = NoNode
           /\ dnd = NoDrag /\ scrolling = FALSE
           /\ flag = {} /\ val = [f \in Fields |-> 0] /\ snap = NoNode /\ suppress = FALSE
           /\ todo = <<>> /\ lost = FALSE
           /\ pointer = NoNode /\ down = {} /\ inputs = 0 /\ acts = 0
           /\ armed = NoNode /\ dragging = NoNode /\ accepts = NoNode /\ owed = {} /\ odd = {}

--------------------------------------------------------------------------
(* The tree. *)

\* S has the parent of each of its nodes
Rooted(S) == \A m \in S \ {Body} : Parent[m] \in S

\* n and its ancestors: the least such set that n is in
Up == [n \in Nodes |-> {a \in Nodes : \A S \in SUBSET Nodes : n \in S /\ Rooted(S) => a \in S}]

\* the first of n and its ancestors that is in S
Closest(n, S) == IF Up[n] \cap S = {} THEN NoNode
                 ELSE CHOOSE a \in Up[n] \cap S : \A b \in Up[n] \cap S : b \in Up[a]

\* mini_dom_hit_test_doc, over boxes that lie within their parent's: over a node
\* that is gone the pointer is over what is behind it.  Layout does not move
\* another node under a pointer at rest
Hit == IF pointer = NoNode THEN NoNode ELSE Closest(pointer, live)
\* the node under the pointer, or the body
Under == IF Hit = NoNode THEN Body ELSE Hit

Focusable == {TabOrder[i] : i \in DOMAIN TabOrder}

--------------------------------------------------------------------------
(* The items of todo: k names an event or a piece of a handler, n is the   *)
(* node it is about, b a button, a key or another detail.                  *)

Item(k, n, b) == [k |-> k, n |-> n, b |-> b]
Do(k, n) == Item(k, n, "-")

Events == {"mousedown", "mouseup", "click", "dblclick", "contextmenu", "mouseout", "mouseover",
           "mousemove", "input", "change", "keydown", "dragstart", "drag", "dragenter",
           "dragover", "drop", "mouseleave", "mouseenter", "blur", "focus", "dragleave", "dragend"}
Cancelable == {"mousedown", "click", "keydown", "dragstart", "dragover"}
FocusPieces == {"blurred", "unsnap", "focusSet", "focused"}
Pieces == FocusPieces \cup {"call", "touch", "range", "dndBegin", "dndMove", "dndHit", "dndOver", "dndDrop",
            "dragEnd", "dndStarted", "dndReset", "dndAllow", "dndDeny", "hover", "hoverSet",
            "pressed", "default", "rangeEnd", "rangeDone", "released", "clicked", "unclick",
            "unpress", "tab", "edit", "suppress"}
Items == [k : Events \cup Pieces, n : MaybeNode, b : {"-", "left", "right", "file", "Tab", "no"}]

Busy == todo # <<>> /\ ~lost
Idle == todo = <<>> /\ ~lost
Top == Head(todo)
At(k) == Busy /\ Top.k = k
Then(items) == todo' = items \o Tail(todo)

\* these pieces only compare or pass on the node
Reads(e) == e.n # NoNode /\ e.k \notin {"call", "blurred", "clicked"}
\* the kept node that an item reads
ReadsKept(e) == CASE e.k \in {"blurred", "edit"} \/ (e.k = "suppress" /\ e.b = "no") -> focus
                  [] e.k = "released" \/ (e.k = "mouseup" /\ e.b = "left") -> press
                  [] e.k = "rangeEnd" -> dragRange
                  [] OTHER -> NoNode
Readable(e) == (Reads(e) => e.n \in live) /\ ReadsKept(e) \in live \cup {NoNode}

\* a node that is gone is read.  A move with the left button held may select
\* in the pressed node
ReadsDestroyed == /\ Busy
                  /\ \/ ~Readable(Top)
                     \/ Top.k = "mousemove" /\ "left" \in down /\ press \notin live \cup {NoNode}
                  /\ lost' = TRUE /\ todo' = <<>>
                  /\ UNCHANGED <<live, unheard, kept, dnd, scrolling, control, user, acts, history>>
Step(k) == At(k) /\ Readable(Top) /\ UNCHANGED <<live, unheard, lost, user, acts>>

--------------------------------------------------------------------------
(* What a script does: nodes are destroyed, focus() and blur().            *)

\* mini_node_set_inner_html(el) destroys everything below el
Below(el) == {n \in live : el \in Up[n]} \ {el}
Emptied == {Below(el) : el \in live} \ {{}}

\* Mutant: mini_events_on_node_destroyed leaves the pressed node.
DestroyedKeepsPress(dead) ==
  \E heard \in BOOLEAN :
    LET Keep(n) == IF heard /\ n \in dead THEN NoNode ELSE n IN
    /\ live' = live \ dead
    /\ unheard' = IF heard THEN unheard ELSE unheard \cup dead
    /\ hover' = Keep(hover) /\ focus' = Keep(focus) /\ press' = press
    /\ lastClick' = Keep(lastClick) /\ dragRange' = Keep(dragRange)
    /\ armed' = Keep(armed)
    /\ UNCHANGED <<dnd, scrolling, control>>

\* mini_node_destroy for every node of dead.  It tells the event state that was
\* last rendered with the active document (mini_events_on_node_destroyed), which
\* may be that of another window, or none; the drag keeps its nodes anyway
Destroyed(dead) ==
  \E heard \in BOOLEAN :
    LET Keep(n) == IF heard /\ n \in dead THEN NoNode ELSE n IN
    /\ live' = live \ dead
    /\ unheard' = IF heard THEN unheard ELSE unheard \cup dead
    /\ hover' = Keep(hover) /\ focus' = Keep(focus) /\ press' = Keep(press)
    /\ lastClick' = Keep(lastClick) /\ dragRange' = Keep(dragRange)
    /\ armed' = Keep(armed)
    /\ UNCHANGED <<dnd, scrolling, control>>

\* focus() of m, or blur() of the focused element when m is NoNode, before
\* the rest of what runs
CanFocus == live \cup IF focus \in live THEN {NoNode} ELSE {}
FocusCall(m, rest) ==
  /\ todo' = <<Do("call", m)>> \o rest
  /\ odd' = odd \cup IF \E i \in DOMAIN rest : rest[i].k \in FocusPieces THEN {"nested"} ELSE {}
  /\ UNCHANGED <<live, unheard, kept, dnd, scrolling, control, lost, armed>>

Scripted == acts < MaxActs /\ acts' = acts + 1

\* a timer, a promise or a message runs a script between two inputs
Task == /\ Idle /\ Scripted
        /\ \/ \E m \in CanFocus : FocusCall(m, todo)
           \/ \E dead \in Emptied : Destroyed(dead) /\ UNCHANGED <<todo, lost, odd>>
        /\ UNCHANGED <<user, dragging, accepts, owed>>

--------------------------------------------------------------------------
(* mini_event_dispatch: the listeners run, then what follows the event.    *)

After(e, prevented) ==
  CASE e.k = "mousedown" -> <<Item("pressed", e.n, IF prevented THEN "no" ELSE e.b)>>
    [] e.k = "mouseup" -> <<Item("released", e.n, e.b)>>
    [] e.k = "click" /\ ~prevented -> \* links and labels: the target and the node released on
         <<Do("touch", e.n), Do("touch", todo[2].n)>>
    [] e.k = "dragstart" -> <<Do(IF prevented THEN "dndReset" ELSE "dndStarted", NoNode)>>
    [] e.k = "dragover" /\ e.b # "file" ->
         <<Do(IF prevented THEN "dndAllow" ELSE "dndDeny", NoNode)>>
    [] e.k = "keydown" ->
         (IF e.b = "Tab" THEN <<Do("tab", NoNode)>> ELSE IF prevented THEN <<>> ELSE <<Do("edit", NoNode)>>)
         \o <<Item("suppress", NoNode, IF prevented \/ e.b = "Tab" THEN "no" ELSE "-")>>
    [] OTHER -> <<>>

Prevents(e) == IF e.k \in Cancelable THEN BOOLEAN ELSE {FALSE}

\* what the page learns from the event
Told(e, prevented) ==
  /\ dragging' = IF e.k = "dragend" THEN NoNode
                 ELSE IF e.k = "dragstart" /\ ~prevented THEN e.n ELSE dragging
  /\ accepts' = IF e.k = "dragstart" THEN NoNode
                ELSE IF e.k = "dragover" THEN IF prevented THEN e.n ELSE NoNode
                ELSE accepts
  /\ owed' = IF e.k \in {"change", "focus"} THEN owed \ {e.n} ELSE owed

Fires == Busy /\ Top.k \in Events /\ Top.n \in live /\ Readable(Top) /\ UNCHANGED user

\* no listener, or one that at most prevents the default
Dispatch == /\ Fires
            /\ \E prevented \in Prevents(Top) : /\ Told(Top, prevented)
                                                /\ Then(After(Top, prevented))
            /\ UNCHANGED <<live, unheard, kept, dnd, scrolling, control, lost, acts, armed, odd>>

\* a listener moves the focus: mini_events_focus runs inside the dispatch
DispatchFocuses ==
  /\ Fires /\ Scripted
  /\ \E prevented \in Prevents(Top), m \in CanFocus :
       /\ Told(Top, prevented)
       /\ FocusCall(m, After(Top, prevented) \o Tail(todo))

\* a listener destroys nodes.  When the target of the event is among them
\* the dispatch goes on to read it, unless the listener stopped it or was on a
\* node that stays and the event had bubbled up to it
DispatchDestroys ==
  /\ Fires /\ Scripted
  /\ \E prevented \in Prevents(Top), dead \in Emptied :
       /\ Told(Top, prevented)
       /\ Destroyed(dead)
       /\ \/ Then(After(Top, prevented)) /\ UNCHANGED lost
          \/ Top.n \in dead /\ lost' = TRUE /\ todo' = <<>>
  /\ UNCHANGED odd

--------------------------------------------------------------------------
(* mini_events_focus(n), where n may be NoNode. *)

Call == /\ Step("call")
        /\ Then(IF Top.n = focus THEN <<>>
                ELSE IF focus = NoNode THEN <<Do("focusSet", Top.n)>>
                ELSE <<Do("blur", focus), Do("blurred", Top.n)>>)
        /\ UNCHANGED <<kept, dnd, scrolling, control, history>>

Changed(f) == snap # NoNode /\ val[f] # snap

\* Mutant: a text input reports its edit only when a range is not focused next.
BlurredUnlessRange ==
  /\ Step("blurred")
  /\ flag' = flag \ {focus}
  /\ Then((IF focus \in Text /\ Changed(focus) /\ Top.n \notin Ranges
           THEN <<Do("change", focus)>> ELSE <<>>)
          \o <<Do("unsnap", NoNode), Do("focusSet", Top.n)>>)
  /\ UNCHANGED <<kept, dnd, scrolling, val, snap, suppress, history>>

\* the focused node, whichever it is after the blur event, loses its state
\* and reports an edit
Blurred ==
  /\ Step("blurred")
  /\ flag' = flag \ {focus}
  /\ Then((IF focus \in Text /\ Changed(focus) THEN <<Do("change", focus)>> ELSE <<>>)
          \o <<Do("unsnap", NoNode), Do("focusSet", Top.n)>>)
  /\ UNCHANGED <<kept, dnd, scrolling, val, snap, suppress, history>>

Unsnap == /\ Step("unsnap")
          /\ snap' = NoNode
          /\ Then(<<>>)
          /\ UNCHANGED <<kept, dnd, scrolling, flag, val, suppress, history>>

FocusSet == /\ Step("focusSet")
            /\ focus' = Top.n
            /\ Then(IF Top.n = NoNode THEN <<>> ELSE <<Do("focus", Top.n), Do("focused", Top.n)>>)
            /\ UNCHANGED <<hover, press, lastClick, dragRange, dnd, scrolling, control, history>>

Focused == /\ Step("focused")
           /\ flag' = flag \cup {Top.n}
           /\ snap' = IF Top.n \in Fields THEN val[Top.n] ELSE snap
           /\ Then(<<>>)
           /\ odd' = odd \cup IF Top.n \in Fields /\ dragRange # NoNode THEN {"mixed"} ELSE {}
           /\ UNCHANGED <<kept, dnd, scrolling, val, suppress, armed, dragging, accepts, owed>>

--------------------------------------------------------------------------
(* mini_events_handle_mouse_move *)

Input == Idle /\ inputs < MaxInputs /\ inputs' = inputs + 1

Handler(items) == /\ Input
                  /\ todo' = items
                  /\ UNCHANGED <<live, unheard, lost, acts>>

Move(p) == /\ pointer' = p
           /\ Handler((IF dragRange # NoNode THEN <<Do("range", dragRange)>> ELSE <<>>)
                      \o <<Do("dndBegin", NoNode), Do("hover", NoNode)>>)
           /\ UNCHANGED <<kept, dnd, scrolling, control, down, history>>

\* range_set_from_x may find another value
RangeMoves(f, then) == \/ UNCHANGED val /\ Then(then)
                       \/ val' = [val EXCEPT ![f] = 1 - @] /\ Then(<<Do("input", f)>> \o then)

RangeFollows == /\ Step("range")
                /\ RangeMoves(Top.n, <<>>)
                /\ UNCHANGED <<kept, dnd, scrolling, flag, snap, suppress, history>>

\* dnd_begin on the first move
DndBegin ==
  /\ Step("dndBegin")
  /\ IF dnd.source # NoNode /\ ~dnd.started
     THEN /\ Then(<<Do("dragstart", dnd.source), Do("dndMove", NoNode), Do("dndHit", NoNode)>>)
          /\ dnd' = [NoDrag EXCEPT !.source = dnd.source]
     ELSE /\ Then(IF dnd.started THEN <<Do("dndMove", NoNode), Do("dndHit", NoNode)>> ELSE <<>>)
          /\ UNCHANGED dnd
  /\ UNCHANGED <<kept, scrolling, control, history>>

DndStarted == /\ Step("dndStarted")
              /\ dnd' = [dnd EXCEPT !.started = TRUE]
              /\ Then(<<>>)
              /\ UNCHANGED <<kept, scrolling, control, history>>

DndReset == /\ Step("dndReset")
            /\ dnd' = NoDrag
            /\ Then(<<>>)
            /\ UNCHANGED <<kept, scrolling, control, history>>

\* dnd_move returns at once, and skips the hit test, when there is no drag
DndMove == /\ Step("dndMove")
           /\ IF dnd.started /\ dnd.source # NoNode
              THEN Then(<<Do("drag", dnd.source)>>)
              ELSE todo' = Tail(Tail(todo))
           /\ UNCHANGED <<kept, dnd, scrolling, control, history>>

DndHit == /\ Step("dndHit")
          /\ LET hit == Hit IN
             Then(IF hit = NoNode THEN <<>>
                  ELSE IF hit = dnd.target THEN <<Do("dragover", hit)>>
                  ELSE (IF dnd.target = NoNode THEN <<>> ELSE <<Do("dragleave", dnd.target)>>)
                       \o <<Do("dragenter", hit), Do("dndOver", hit)>>)
          /\ UNCHANGED <<kept, dnd, scrolling, control, history>>

DndOver == /\ Step("dndOver")
           /\ dnd' = [dnd EXCEPT !.target = Top.n, !.allowed = FALSE]
           /\ Then(<<Do("dragover", Top.n)>>)
           /\ UNCHANGED <<kept, scrolling, control, history>>

\* drop_allowed is what the last dragover said
DndAnswer == /\ \/ Step("dndAllow") /\ dnd' = [dnd EXCEPT !.allowed = TRUE]
                \/ Step("dndDeny") /\ dnd' = [dnd EXCEPT !.allowed = FALSE]
             /\ Then(<<>>)
             /\ UNCHANGED <<kept, scrolling, control, history>>

\* the pointer enters t: out of the old node, into t, then mousemove
Hover == /\ Step("hover")
         /\ LET t == Hit IN
            Then((IF t = hover THEN <<>>
                     ELSE (IF hover = NoNode THEN <<>>
                           ELSE <<Do("mouseout", hover), Do("mouseleave", hover), Do("touch", hover)>>)
                          \o (IF t = NoNode THEN <<>>
                              ELSE <<Do("mouseover", t), Do("mouseenter", t)>>)
                          \o <<Do("hoverSet", t)>>)
                    \o <<Do("mousemove", Under)>>)
         /\ UNCHANGED <<kept, dnd, scrolling, control, history>>

HoverSet == /\ Step("hoverSet")
            /\ hover' = Top.n
            /\ Then(<<>>)
            /\ UNCHANGED <<focus, press, lastClick, dragRange, dnd, scrolling, control, history>>

\* a node is read between two dispatches
Touch == /\ Step("touch")
         /\ Then(<<>>)
         /\ UNCHANGED <<kept, dnd, scrolling, control, history>>

--------------------------------------------------------------------------
(* mini_events_handle_mouse_button: press *)

Press(b) ==
  /\ b \notin down /\ down' = down \cup {b}
  /\ Handler(<<Item("mousedown", Under, b)>>)
  /\ press' = Under
  /\ armed' = IF b = "left" THEN Under ELSE NoNode
  /\ UNCHANGED <<hover, focus, lastClick, dragRange, dnd, scrolling, control,
                 pointer, dragging, accepts, owed, odd>>

\* a left press on the scrollbar
PressScrollbar ==
  /\ "left" \notin down /\ down' = down \cup {"left"}
  /\ Handler(<<>>)
  /\ scrolling' = TRUE
  /\ armed' = NoNode
  /\ UNCHANGED <<kept, dnd, control, pointer, dragging, accepts, owed, odd>>

Pressed == /\ Step("pressed")
           /\ Then(<<Do("call", IF Top.n \in Focusable THEN Top.n ELSE NoNode)>>
                   \o IF Top.b = "left" THEN <<Do("default", Top.n)>> ELSE <<>>)
           /\ UNCHANGED <<kept, dnd, scrolling, control, history>>

\* what a left press does of itself: a range follows the pointer, a
\* draggable element may be dragged
Default ==
  /\ Step("default")
  /\ IF Top.n \in Ranges
     THEN /\ snap' = val[Top.n] /\ dragRange' = Top.n
          /\ RangeMoves(Top.n, <<Do("touch", Top.n)>>)
          /\ odd' = odd \cup IF focus \in Text THEN {"mixed"} ELSE {}
          /\ UNCHANGED dnd
     ELSE /\ dnd' = IF Top.n \in Text \/ Closest(Top.n, Draggables) = NoNode THEN dnd
                    ELSE [dnd EXCEPT !.source = Closest(Top.n, Draggables), !.started = FALSE]
          /\ Then(<<>>)
          /\ UNCHANGED <<snap, dragRange, val, odd>>
  /\ UNCHANGED <<hover, focus, press, lastClick, scrolling, flag, suppress,
                 armed, dragging, accepts, owed>>

--------------------------------------------------------------------------
(* mini_events_handle_mouse_button: release *)

Release(b) ==
  /\ b \in down /\ down' = down \ {b}
  /\ Handler((IF dnd.source # NoNode THEN <<Do("dndDrop", NoNode)>> ELSE <<>>)
             \o <<Do("rangeEnd", NoNode), Item("mouseup", Under, b), Do("unpress", NoNode)>>)
  /\ scrolling' = FALSE
  /\ UNCHANGED <<kept, dnd, control, pointer, history>>

\* dnd_end
DndDrop ==
  /\ Step("dndDrop")
  /\ Then(IF dnd.started
          THEN (IF dnd.allowed /\ dnd.target # NoNode THEN <<Do("drop", dnd.target)>> ELSE <<>>)
               \o <<Do("dragEnd", NoNode)>>
          ELSE <<Do("dndReset", NoNode)>>)
  /\ UNCHANGED <<kept, dnd, scrolling, control, history>>

DragEnd == /\ Step("dragEnd")
           /\ Then((IF dnd.source # NoNode THEN <<Do("dragend", dnd.source)>> ELSE <<>>)
                   \o <<Do("dndReset", NoNode)>>)
           /\ UNCHANGED <<kept, dnd, scrolling, control, history>>

\* the thumb is let go: change when the value is not the snapshot
RangeEnd == /\ Step("rangeEnd")
            /\ Then(IF dragRange = NoNode THEN <<>>
                    ELSE (IF Changed(dragRange) THEN <<Do("change", dragRange)>> ELSE <<>>)
                         \o <<Do("rangeDone", NoNode)>>)
            /\ dragRange' = NoNode
            /\ UNCHANGED <<hover, focus, press, lastClick, dnd, scrolling, control, history>>

RangeDone == /\ Step("rangeDone")
             /\ snap' = NoNode
             /\ Then(<<>>)
             /\ odd' = odd \cup IF focus \in Text THEN {"mixed"} ELSE {}
             /\ UNCHANGED <<kept, dnd, scrolling, flag, val, suppress, armed, dragging, accepts, owed>>

\* Mutant: a release clicks whatever is under it.
ClickTargetAnywhere(t) == t

\* the pressed node and t when one is t or contains the other; t when no
\* node is known to be pressed
ClickTarget(t) == CASE press = NoNode -> t
                    [] press # NoNode /\ press \in Up[t] -> press
                    [] press # NoNode /\ press \notin Up[t] /\ t \in Up[press] -> t
                    [] OTHER -> NoNode

Released ==
  /\ Step("released")
  /\ LET c == ClickTarget(Top.n) IN
     Then(IF Top.b = "right" THEN <<Do("contextmenu", Top.n)>>
          ELSE IF c = NoNode THEN <<>>
          ELSE <<Do("click", c), Do("clicked", Top.n)>>)
  /\ UNCHANGED <<kept, dnd, scrolling, control, history>>

\* two clicks within half a second are a double click
Clicked == /\ Step("clicked")
           /\ \/ lastClick' = Top.n /\ Then(<<>>)
              \/ /\ Top.n = lastClick
                 /\ Then(<<Do("dblclick", Top.n), Do("unclick", NoNode)>>)
                 /\ UNCHANGED lastClick
           /\ UNCHANGED <<hover, focus, press, dragRange, dnd, scrolling, control, history>>

Unclick == /\ Step("unclick")
           /\ lastClick' = NoNode
           /\ Then(<<>>)
           /\ UNCHANGED <<hover, focus, press, dragRange, dnd, scrolling, control, history>>

Unpress == /\ Step("unpress")
           /\ press' = NoNode /\ armed' = NoNode
           /\ Then(<<>>)
           /\ UNCHANGED <<hover, focus, lastClick, dragRange, dnd, scrolling, control,
                          dragging, accepts, owed, odd>>

--------------------------------------------------------------------------
(* The other inputs. *)

\* the window loses the focus or the pointer leaves it:
\* mini_events_release_capture, which reads the pressed node
ReleaseCapture ==
  /\ Handler(IF press \in live \cup {NoNode} THEN <<>> ELSE <<Do("touch", press)>>)
  /\ scrolling' = FALSE /\ dragRange' = NoNode /\ press' = NoNode
  /\ snap' = IF dragRange = NoNode THEN snap ELSE NoNode
  /\ dnd' = [dnd EXCEPT !.source = NoNode, !.started = FALSE]
  /\ armed' = NoNode /\ dragging' = NoNode
  /\ odd' = odd \cup IF dragRange # NoNode /\ focus \in Text THEN {"mixed"} ELSE {}
  /\ UNCHANGED <<hover, focus, lastClick, flag, val, suppress, pointer, down, accepts, owed>>

\* files of the desktop are dropped: mini_events_handle_drop_files
DropFiles ==
  /\ Handler(<<Do("dragenter", Under), Item("dragover", Under, "file"),
               Item("drop", Under, "file")>>)
  /\ dnd' = [dnd EXCEPT !.source = NoNode, !.target = Under, !.allowed = TRUE]
  /\ dragging' = NoNode
  /\ UNCHANGED <<kept, scrolling, control, pointer, down, armed, accepts, owed, odd>>

\* mini_events_handle_key for a keydown: Tab, or a key that types or edits
KeyDown(key) ==
  /\ Handler(<<Item("keydown", IF focus = NoNode THEN Body ELSE focus, key)>>)
  /\ UNCHANGED <<kept, dnd, scrolling, control, pointer, down, history>>

\* next_focusable, forwards
LiveOrder == Filter(TabOrder, live)
NextFocusable == LET after == {i \in DOMAIN LiveOrder : i > 1 /\ LiveOrder[i - 1] = focus} IN
                 IF LiveOrder = <<>> THEN NoNode
                 ELSE IF after = {} THEN LiveOrder[1]
                 ELSE LiveOrder[CHOOSE i \in after : TRUE]

\* a Tab moves the focus, whatever the listeners said
Tab == /\ Step("tab")
       /\ Then(IF NextFocusable = NoNode THEN <<>> ELSE <<Do("call", NextFocusable)>>)
       /\ UNCHANGED <<kept, dnd, scrolling, control, history>>

\* the user changes the text of the focused input
Edited == /\ val' = [val EXCEPT ![focus] = 1 - @]
          /\ owed' = IF focus \in owed THEN owed \ {focus} ELSE owed \cup {focus}

\* apply_text_edit_key: a key that edits the focused text input, one that
\* moves its caret and counts as prevented, or another key
Edit == /\ Step("edit")
        /\ \/ focus \in Text /\ Edited /\ Then(<<Do("input", focus), Do("touch", focus)>>)
           \/ /\ focus \in Text
              /\ todo' = <<[todo[2] EXCEPT !.b = "no"]>> \o Tail(Tail(todo))
              /\ UNCHANGED <<val, owed>>
           \/ Then(<<>>) /\ UNCHANGED <<val, owed>>
        /\ UNCHANGED <<kept, dnd, scrolling, flag, snap, suppress, armed, dragging, accepts, odd>>

Suppress == /\ Step("suppress")
            /\ suppress' = (Top.b = "no")
            /\ Then(<<>>)
            /\ UNCHANGED <<kept, dnd, scrolling, flag, val, snap, history>>

\* mini_events_handle_char: the focused text input is edited
Char == /\ IF suppress \/ focus = NoNode
           THEN Handler(<<>>) /\ UNCHANGED <<val, owed>>
           ELSE IF focus \in live \cap Text
           THEN Handler(<<Do("input", focus), Do("touch", focus)>>) /\ Edited
           ELSE Handler(<<Do("touch", focus)>>) /\ UNCHANGED <<val, owed>>
        /\ suppress' = FALSE
        /\ UNCHANGED <<kept, dnd, scrolling, flag, snap, pointer, down, armed, dragging, accepts, odd>>

--------------------------------------------------------------------------
User == \/ \E p \in Positions : Move(p)
        \/ \E b \in {"left", "right"} : Press(b) \/ Release(b)
        \/ PressScrollbar \/ ReleaseCapture \/ DropFiles \/ Char
        \/ \E key \in {"Tab", "-"} : KeyDown(key)
Pointer == RangeFollows \/ DndBegin \/ DndStarted \/ DndReset \/ DndMove \/ DndHit \/ DndOver
           \/ DndAnswer \/ Hover \/ HoverSet \/ Touch
Button == Pressed \/ Default \/ DndDrop \/ DragEnd \/ RangeEnd \/ RangeDone \/ Released
          \/ Clicked \/ Unclick \/ Unpress
Focusing == Call \/ Blurred \/ Unsnap \/ FocusSet \/ Focused \/ Tab \/ Edit \/ Suppress

DomNext == User \/ Task \/ Dispatch \/ DispatchFocuses \/ DispatchDestroys \/ ReadsDestroyed
           \/ Pointer \/ Button \/ Focusing

DomSpec == DomInit /\ [][DomNext]_domVars

--------------------------------------------------------------------------
(* Properties *)

\* The state of the input layer.
DomTypes == /\ live \subseteq Nodes /\ Body \in live /\ unheard \subseteq Nodes
            /\ hover \in MaybeNode /\ focus \in MaybeNode /\ press \in MaybeNode
            /\ lastClick \in MaybeNode /\ dragRange \in MaybeNode
            /\ dnd \in [source : MaybeNode, target : MaybeNode, started : BOOLEAN, allowed : BOOLEAN]
            /\ scrolling \in BOOLEAN /\ suppress \in BOOLEAN /\ lost \in BOOLEAN
            /\ flag \subseteq Nodes /\ val \in [Fields -> 0..1] /\ snap \in {0, 1, NoNode}
            /\ \A i \in DOMAIN todo : todo[i] \in Items
            /\ pointer \in MaybeNode /\ down \subseteq {"left", "right"}
            /\ inputs \in 0..MaxInputs /\ acts \in 0..MaxActs
            /\ armed \in MaybeNode /\ dragging \in MaybeNode /\ accepts \in MaybeNode
            /\ owed \subseteq Text /\ odd \subseteq {"nested", "mixed"}

\* The hovered, the focused and the pressed node and the range that follows
\* the pointer are nodes of the page, although they are stored at the end
\* of handlers whose listeners may have destroyed them (hover after
\* mouseenter, focus after blur) and are read by later ones; unless they were
\* destroyed while another document was the active one.  The nodes of the drag
\* and of the last click are not covered: nobody forgets the former, and the
\* latter is stored unread.
KeptNodesLive == ~lost => {hover, focus, press, dragRange} \ {NoNode} \subseteq live \cup unheard

\* A click goes to the node of the press, to a node inside it or to one
\* around it, whatever happened between the press and the release, unless
\* the press was overtaken: by the other button, by the scrollbar, by a
\* window that lost the pointer, or by a listener that destroyed the node.
ClickWasPressed == At("click") /\ armed # NoNode => Top.n \in Up[armed] \/ armed \in Up[Top.n]

\* A drag the page was told of (dragstart) ends with a dragend to the same
\* node, once, before another starts and by the time no button is held;
\* only a window that loses the pointer and a drop of files abandon it.
DragsEnd == /\ At("dragstart") => dragging = NoNode
            /\ At("dragend") => dragging = Top.n
            /\ Idle /\ "left" \notin down => dragging = NoNode

\* A drop goes to the node that prevented the last dragover of this drag.
DropWasAccepted == At("drop") /\ Top.b # "file" => accepts = Top.n

\* Between inputs the node with the :focus state is the focused one, unless
\* a listener of blur, change or focus moved the focus again (then the
\* outer call of mini_events_focus still marks its own node).  A focused node
\* that was destroyed unheard stays the focused one and shows nothing.
FocusIsShown == Idle /\ "nested" \notin odd => flag \cap live = {focus} \cap live

\* A text input the user edited has had its change event by the time it is
\* not focused any more, unless focus calls were nested or a range drag
\* shared the one snapshot with it.
EditsAreReported == Idle /\ odd = {} => owed \cap live \subseteq {focus}

\* The nodes that mini_events.c keeps for the pointer and the focus are nodes
\* of the page, except what it is not told of (mini_node_destroy).
NodesAreSound == DomTypes /\ KeptNodesLive

\* What the page learns from the pointer is consistent: clicks belong to
\* presses, drags end, drops were accepted (mini_events_handle_mouse_button,
\* dnd_move, dnd_end).
PointerProtocol == ClickWasPressed /\ DragsEnd /\ DropWasAccepted

\* Focus and edits end up as the page was told (mini_events_focus).
FocusProtocol == FocusIsShown /\ EditsAreReported
==========================================================================
