------------------------------ MODULE ChildProcs ------------------------------
(***************************************************************************)
(* Child processes of one bridge (child_process.exec and spawn in          *)
(* mini_native.c): the array of children, the pump that drains their pipes *)
(* and reports their end, the reference counts shared with the wrapper     *)
(* objects, and what mini_native_destroy releases.                         *)
(*                                                                         *)
(* bridge_pump_children reads the address and the length of the array      *)
(* once.  Below it a callback may append to the array, which realloc may   *)
(* move, and the pump itself moves the last entry into the slot of a child *)
(* it sweeps; a slot past children_n keeps what it held.                   *)
(*                                                                         *)
(* A child is numbered in the order of creation.  Its stdout and stderr,   *)
(* which the pump treats alike one after the other, are one output counted *)
(* in units; its exit and close listeners, which are called in a row, are  *)
(* one listener of its end.                                                *)
(***************************************************************************)
EXTENDS Integers, Sequences, FiniteSets, FiniteSetsExt

CONSTANTS MaxKids,      \* bound: children created
          MaxOut,       \* bound: units of output of all children
          MaxListeners, \* bound: listeners registered
          Hideable,     \* bound: children whose end the poll may fail to tell
          InitCap       \* first capacity of the array (8 in the code)

ASSUME ChildAssumption ==
    /\ MaxKids \in Nat /\ MaxOut \in Nat /\ MaxListeners \in Nat
    /\ Hideable \subseteq 1 .. MaxKids /\ InitCap \in Nat \ {0}

Kids == 1 .. MaxKids
Events == {"data", "end"}
None == 0

VARIABLES
    next,       \* the number of the next child
    mode,       \* mode[k]: "none", "exec" (has cb) or "spawn" (has a wrapper)
    proc,       \* proc[k]: the process: "none", "running", "exited", or "hidden"
                \* when it has ended and cp_poll_exit cannot tell
    wrote,      \* units written so far
    pipe,       \* pipe[k]: units written and not read
    len,        \* len[k]: units in stdout_buf (stdout_len)
    fired,      \* stdout_fired
    listens,    \* listens[k]: the events of k that have a listener
    exited,     \* children with c->exited
    ref,        \* c->ref
    wrapper,    \* children whose wrapper object exists
    freed,      \* children cp_free was called for
    slots,      \* the memory of b->children
    count, cap, \* children_n and children_cap
    pc,         \* "idle", the pump's step, or "gone" after the bridge
    inCb,       \* a callback of the pump is on the stack
    i, n,       \* the pump's locals; i counts from 1
    moved,      \* the pump's arr is a block that realloc has given back
    cur,        \* the child at hand, or None
    told,       \* history: how often the end was reported to the script
    untracked,  \* history: children add_child had no room for
    cut,        \* history: children whose output cp_drain lost
    astray,     \* history: children the sweep left in the array, and those it
                \* took out in their place
    corrupt     \* freed memory was used: nothing is modelled from here on

os == <<wrote, proc, pipe>>
object == <<listens, ref, wrapper, freed>>
array == <<slots, count, cap>>
walk == <<i, n, moved, cur>>
history == <<told, untracked, cut, astray>>
vars == <<next, mode, os, len, fired, object, exited, array, pc, inCb, walk,
          history, corrupt>>

Zero == [k \in Kids |-> 0]

Init ==
    /\ next = 1 /\ mode = [k \in Kids |-> "none"]
    /\ proc = [k \in Kids |-> "none"] /\ wrote = 0 /\ pipe = Zero
    /\ len = Zero /\ fired = Zero
    /\ listens = [k \in Kids |-> {}] /\ exited = {}
    /\ ref = Zero /\ wrapper = {} /\ freed = {}
    /\ slots = <<>> /\ count = 0 /\ cap = 0
    /\ pc = "idle" /\ inCb = FALSE
    /\ i = 1 /\ n = 0 /\ moved = FALSE /\ cur = None
    /\ told = Zero /\ untracked = {} /\ cut = {} /\ astray = {} /\ corrupt = FALSE

(***************************************************************************)
(* The processes                                                           *)
(***************************************************************************)

Alive(k) == proc[k] = "running" /\ k \notin untracked /\ pc # "gone" /\ ~corrupt

\* A process writes a unit.
Write(k) ==
    /\ Alive(k) /\ wrote < MaxOut
    /\ wrote' = wrote + 1 /\ pipe' = [pipe EXCEPT ![k] = @ + 1]
    /\ UNCHANGED <<next, mode, proc, len, fired, object, exited, array, pc,
                   inCb, walk, history, corrupt>>

\* It ends, by itself or because of kill().  On Windows an exit code of 259 is
\* the one that means STILL_ACTIVE, and GetExitCodeProcess or waitpid may fail.
Exit(k) ==
    /\ Alive(k)
    /\ \/ proc' = [proc EXCEPT ![k] = "exited"]
       \/ k \in Hideable /\ proc' = [proc EXCEPT ![k] = "hidden"]
    /\ UNCHANGED <<wrote, next, mode, pipe, len, fired, object, exited, array, pc,
                   inCb, walk, history, corrupt>>

\* GetExitCodeProcess or waitpid works again.
Reveal(k) ==
    /\ proc[k] = "hidden" /\ pc # "gone" /\ ~corrupt
    /\ proc' = [proc EXCEPT ![k] = "exited"]
    /\ UNCHANGED <<wrote, next, mode, pipe, len, fired, object, exited, array, pc,
                   inCb, walk, history, corrupt>>

(***************************************************************************)
(* What a script does, between two pumps or in a callback of one           *)
(***************************************************************************)

MayCall == ~corrupt /\ (inCb \/ pc = "idle")

\* mini_bridge_add_child: when the array is full it is grown, and may move
\* under the pump that called the script.
AddChild(k) ==
    IF count < cap
    THEN /\ slots' = IF count < Len(slots) THEN [slots EXCEPT ![count + 1] = k]
                     ELSE Append(slots, k)
         /\ count' = count + 1
         /\ UNCHANGED <<cap, moved, untracked>>
    ELSE \/ /\ slots' = Append(SubSeq(slots, 1, count), k)
            /\ count' = count + 1 /\ cap' = IF cap = 0 THEN InitCap ELSE 2 * cap
            /\ moved' \in {moved, inCb}
            /\ UNCHANGED untracked
         \/ /\ untracked' = untracked \cup {k}
            /\ UNCHANGED <<array, moved>>

\* A new process with its pipes (cp_spawn), held by references of the array and
\* of the wrapper; one that cannot be started changes nothing.
Start(m, references) ==
    /\ MayCall /\ next \in Kids
    /\ next' = next + 1
    /\ mode' = [mode EXCEPT ![next] = m]
    /\ proc' = [proc EXCEPT ![next] = "running"]
    /\ ref' = [ref EXCEPT ![next] = references]
    /\ AddChild(next)
    /\ UNCHANGED <<wrote, pipe, len, fired, listens, freed, exited, pc, inCb,
                   i, n, cur, told, cut, astray, corrupt>>

\* js_cp_exec: a callback and no wrapper
Exec == Start("exec", 1) /\ UNCHANGED wrapper

\* js_cp_spawn: a wrapper for the listeners
Spawn == Start("spawn", 2) /\ wrapper' = wrapper \cup {next}

\* js_cp_stream_on and js_cp_obj_on
On(k, e) ==
    /\ MayCall /\ k \in wrapper /\ e \notin listens[k]
    /\ MapThenSumSet(LAMBDA x : Cardinality(listens[x]), Kids) < MaxListeners
    /\ listens' = [listens EXCEPT ![k] = @ \cup {e}]
    /\ UNCHANGED <<next, mode, os, len, fired, ref, wrapper, freed, exited,
                   array, pc, inCb, walk, history, corrupt>>

\* drop[k] references less; with the last one the child is freed, its pipes,
\* buffers and listeners included (cp_free).
Unref(drop) ==
    LET gone == {k \in Kids : drop[k] > 0 /\ ref[k] <= drop[k]}
        Released(f, nothing) == [k \in Kids |-> IF k \in gone THEN nothing ELSE f[k]]
    IN  /\ ref' = [k \in Kids |-> ref[k] - drop[k]]
        /\ freed' = freed \cup gone
        /\ pipe' = Released(pipe, 0) /\ len' = Released(len, 0)
        /\ fired' = Released(fired, 0) /\ listens' = Released(listens, {})

One(k) == [x \in Kids |-> IF x = k THEN 1 ELSE 0]

\* js_cp_finalizer: the script has dropped the wrapper and it is collected.
Finalize(k) ==
    /\ MayCall /\ k \in wrapper
    /\ wrapper' = wrapper \ {k}
    /\ Unref(One(k))
    /\ UNCHANGED <<wrote, next, mode, proc, exited, array, pc, inCb, walk,
                   history, corrupt>>

\* The callback returns to the pump.
CallbackReturns ==
    /\ inCb /\ ~corrupt
    /\ inCb' = FALSE
    /\ UNCHANGED <<next, mode, os, len, fired, object, exited, array, pc, walk,
                   history, corrupt>>

(***************************************************************************)
(* bridge_pump_children                                                    *)
(***************************************************************************)

At(step) == pc = step /\ ~inCb /\ ~corrupt

\* cp_drain: all that has arrived.  Without memory for it, what has been read
\* so far is gone and the rest stays in the pipe.
Drain(k) ==
    \/ /\ pipe' = [pipe EXCEPT ![k] = 0]
       /\ len' = [len EXCEPT ![k] = @ + pipe[k]]
       /\ UNCHANGED cut
    \/ \E rest \in 0 .. pipe[k] - 1 :
          /\ pipe' = [pipe EXCEPT ![k] = rest]
          /\ len' = [len EXCEPT ![k] = 0]
          /\ cut' = cut \cup {k}

\* cp_fire_data: the units since the last call, to whoever listens now.
FireData(k) ==
    IF len'[k] > fired[k]
    THEN fired' = [fired EXCEPT ![k] = len'[k]] /\ inCb' = ("data" \in listens[k])
    ELSE UNCHANGED <<fired, inCb>>

PumpBegin ==
    /\ At("idle") /\ count > 0
    /\ pc' = "look" /\ i' = 1 /\ n' = count /\ moved' = FALSE
    /\ UNCHANGED <<next, mode, os, len, fired, object, exited, array, inCb, cur,
                   history, corrupt>>

\* c = arr[i], a child that is still to be reported.
Look ==
    /\ At("look") /\ i <= n /\ ~moved /\ slots[i] \notin freed \cup exited
    /\ cur' = slots[i] /\ pc' = "poll"
    /\ Drain(slots[i]) /\ FireData(slots[i])
    /\ UNCHANGED <<wrote, next, mode, proc, object, exited, array, i, n, moved,
                   told, untracked, astray, corrupt>>

\* One that has been reported; c->exited may be read from a freed child.
Skip ==
    /\ At("look") /\ i <= n /\ ~moved /\ slots[i] \in freed \cup exited
    /\ i' = i + 1
    /\ UNCHANGED <<next, mode, os, len, fired, object, exited, array, pc, inCb,
                   n, moved, cur, history, corrupt>>

\* The entry is read from a block that was given back, or c->exited from a
\* freed child whose memory has been used again.
UseFreed ==
    /\ At("look") /\ i <= n
    /\ moved \/ slots[i] \in freed
    /\ corrupt' = TRUE
    /\ UNCHANGED <<next, mode, os, len, fired, object, exited, array, pc, inCb,
                   walk, history>>

\* What lies past children_n will not be read again.
PumpEnd ==
    /\ At("look") /\ i > n
    /\ pc' = "idle" /\ i' = 1 /\ n' = 0 /\ moved' = FALSE
    /\ slots' = SubSeq(slots, 1, count)
    /\ UNCHANGED <<next, mode, os, len, fired, object, exited, count, cap, inCb,
                   cur, history, corrupt>>

\* cp_poll_exit: the process goes on, or its end does not show.
StillRunning ==
    /\ At("poll") /\ proc[cur] \in {"running", "hidden"}
    /\ pc' = "look" /\ i' = i + 1 /\ cur' = None
    /\ UNCHANGED <<next, mode, os, len, fired, object, exited, array, inCb, n,
                   moved, history, corrupt>>

\* Mutant: the end is reported without a last look at the pipes.
SeesExitAtOnce ==
    /\ At("poll") /\ proc[cur] = "exited"
    /\ exited' = exited \cup {cur}
    /\ pc' = "report"
    /\ UNCHANGED <<next, mode, os, len, fired, object, array, inCb, walk, history,
                   corrupt>>

\* It has ended: a last drain, and a last call of the data listeners, before
\* the end is reported.
SeesExit ==
    /\ At("poll") /\ proc[cur] = "exited"
    /\ exited' = exited \cup {cur}
    /\ pc' = "report"
    /\ Drain(cur) /\ FireData(cur)
    /\ UNCHANGED <<wrote, next, mode, proc, object, array, walk, told, untracked,
                   astray, corrupt>>

\* The callback of exec, or the exit and the close listener.
Report ==
    /\ At("report")
    /\ pc' = "sweep"
    /\ IF mode[cur] = "exec" \/ "end" \in listens[cur]
       THEN inCb' = TRUE /\ told' = [told EXCEPT ![cur] = @ + 1]
       ELSE UNCHANGED <<inCb, told>>
    /\ UNCHANGED <<next, mode, os, len, fired, object, exited, array, walk,
                   untracked, cut, astray, corrupt>>

\* Mutant: the array is cut short without filling the hole.
RemoveChildTruncates ==
    IF i <= count THEN count' = count - 1 /\ UNCHANGED <<slots, astray>>
    ELSE astray' = astray \cup {cur} /\ UNCHANGED <<slots, count>>

\* mini_bridge_remove_child: the last entry moves into the hole; an index past
\* the end is ignored.  The child at hand may have been found past the end, and
\* a callback may have put another one there since.
RemoveChild ==
    IF i <= count
    THEN /\ slots' = [slots EXCEPT ![i] = slots[count]]
         /\ count' = count - 1
         /\ astray' = IF slots[i] = cur THEN astray ELSE astray \cup {cur, slots[i]}
    ELSE astray' = astray \cup {cur} /\ UNCHANGED <<slots, count>>

\* The array's reference is dropped and the slot is looked at again.
Sweep ==
    /\ At("sweep")
    /\ RemoveChild /\ Unref(One(cur))
    /\ pc' = "look" /\ cur' = None
    /\ UNCHANGED <<wrote, next, mode, proc, wrapper, exited, cap, inCb, i, n,
                   moved, told, untracked, cut, corrupt>>

(***************************************************************************)
(* mini_native_destroy, then the end of the runtime, which finalizes the   *)
(* wrappers it can collect.  A listener is held by its child alone, where  *)
(* the collector does not see it; one that outlives the bridge keeps its   *)
(* realm, and so any wrappers, its own child's or others, that the globals *)
(* or the closure reach (held).  So do the listeners of closed windows.    *)
(***************************************************************************)

Listed == {slots[k] : k \in 1 .. count}

\* How many references of k the end of the bridge drops.
Dropped(k, held) == (IF k \in Listed THEN 1 ELSE 0)
                      + (IF k \in wrapper \ held THEN 1 ELSE 0)

\* A child that is freed, or has fewer references than that, because a pump
\* took one of them away twice.
Overdrawn(held) == \E k \in Kids : Dropped(k, held) > ref[k]

\* Mutant: the references of the array are not dropped.
DestroyWrappers(held) ==
    /\ At("idle") /\ ~Overdrawn(held)
    /\ held \subseteq wrapper
    /\ pc' = "gone" /\ count' = 0 /\ cap' = 0 /\ slots' = <<>>
    /\ Unref([k \in Kids |-> IF k \in wrapper \ held THEN 1 ELSE 0])
    /\ wrapper' = held
    /\ UNCHANGED <<wrote, next, mode, proc, exited, inCb, walk, history, corrupt>>

Destroy(held) ==
    /\ At("idle") /\ ~Overdrawn(held)
    /\ held \subseteq wrapper
    /\ pc' = "gone" /\ count' = 0 /\ cap' = 0 /\ slots' = <<>>
    /\ Unref([k \in Kids |-> Dropped(k, held)])
    /\ wrapper' = held
    /\ UNCHANGED <<wrote, next, mode, proc, exited, inCb, walk, history, corrupt>>

\* The count of a freed child is decremented and it is freed again.
DestroyFreed ==
    /\ At("idle") /\ Overdrawn({})
    /\ corrupt' = TRUE
    /\ UNCHANGED <<next, mode, os, len, fired, object, exited, array, pc, inCb,
                   walk, history>>

Script ==
    \/ Exec \/ Spawn
    \/ \E k \in Kids, e \in Events : On(k, e)
    \/ \E k \in Kids : Finalize(k)

Pump ==
    \/ Look \/ Skip \/ UseFreed \/ PumpEnd
    \/ StillRunning \/ SeesExit
    \/ Report \/ Sweep

Next ==
    \/ Script \/ CallbackReturns \/ PumpBegin \/ Pump
    \/ (\E held \in SUBSET Kids : Destroy(held)) \/ DestroyFreed
    \/ \E k \in Kids : Write(k) \/ Exit(k) \/ Reveal(k)

Spec == Init /\ [][Next]_vars

\* mini_bridge_pump runs in every iteration of the host's loop, and callbacks
\* return.  Nothing obliges a process to end.
FairSpec == Spec /\ WF_vars(PumpBegin \/ Pump \/ CallbackReturns)

-----------------------------------------------------------------------------

Created == 1 .. next - 1

\* The type of the children and of the pump's locals.
TypeOK ==
    /\ next \in 1 .. MaxKids + 1 /\ mode \in [Kids -> {"none", "exec", "spawn"}]
    /\ proc \in [Kids -> {"none", "running", "exited", "hidden"}]
    /\ \A k \in Kids : {pipe[k], len[k], fired[k]} \subseteq 0 .. MaxOut
    /\ ref \in [Kids -> 0 .. 2] /\ slots \in Seq(Kids)
    /\ count \in 0 .. Len(slots) /\ Len(slots) <= cap
    /\ cur \in Kids \cup {None} /\ i \in 1 .. n + 1
    /\ astray \cup cut \cup untracked \cup freed \cup exited \subseteq Created

\* A child is referred to by the array and by its wrapper, once each, and it
\* is freed with the last of the two; the one at hand is never freed while the
\* pump calls its listeners.  Excepted are the children that one pump reached
\* twice, the second time through a slot past children_n: their reference is
\* dropped and their entry stays, or that of another child goes in its place
\* (bridge_pump_children, js_cp_finalizer).
ChildrenOwned ==
    TypeOK /\ (~corrupt =>
        /\ \A a, b \in 1 .. count : slots[a] = slots[b] => a = b
        /\ cur # None => cur \notin freed
        /\ \A k \in Created \ astray :
             /\ k \in freed <=> ref[k] = 0
             /\ ref[k] = (IF k \in Listed \/ k \in untracked THEN 1 ELSE 0)
                           + (IF k \in wrapper THEN 1 ELSE 0)
        /\ pc = "gone" =>
             Created \ freed \subseteq untracked \cup wrapper \cup astray)

\* The end of a child is reported once, and last: its pipes are empty by then
\* and every unit of them has been handed out, unless there was no memory for
\* it (bridge_pump_children, cp_drain, cp_fire_data).
EndIsLast ==
    \A k \in Kids : told[k] > 0 =>
        /\ told[k] = 1
        /\ k \in cut \/ (pipe[k] = 0 /\ fired[k] = len[k])

\* The end of a process is noticed once cp_poll_exit can tell it, whatever the
\* callbacks of the others do to the array, unless the child never got into it
\* or was taken out in the place of another, or the bridge goes first: again
\* and again there is none left that the pump has not seen.  An end that the
\* poll cannot tell, of exit code 259 or while its system call fails, is not
\* noticed (bridge_pump_children, cp_poll_exit).
EndsAreSeen ==
    []<>(\/ pc = "gone" \/ corrupt
         \/ \A k \in Created \ (untracked \cup astray) :
                proc[k] = "exited" => k \in exited)
=============================================================================
