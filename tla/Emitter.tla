-------------------------------- MODULE Emitter --------------------------------
(***************************************************************************)
(* The listener tables of the native layer (mini_native.c): the table of a *)
(* BrowserWindow and the process-wide table of app, which have the same    *)
(* shape and the same loops.  An emit walks the live array with an index   *)
(* and calls back into the script, which may register, remove and emit     *)
(* again while the walk is suspended.                                      *)
(***************************************************************************)
EXTENDS Integers, Sequences, SequencesExt, FiniteSets, ArrayOps

CONSTANTS Events,         \* event names
          MaxListeners,   \* bound: listeners ever registered
          MaxEmits        \* bound: emits

ASSUME EmitterAssumption == MaxListeners \in Nat /\ MaxEmits \in Nat

Ids == 1 .. MaxListeners

VARIABLES
    table,     \* the array L->a[0 .. n-1]
    stack,     \* the emits in progress, the innermost last
    nextId,    \* listeners registered so far, plus one
    emits,     \* emits so far
    fired,     \* how often each listener was called
    removed,   \* listeners a script removed
    stale,     \* a listener was removed in the place of another one
    corrupt    \* an entry past the end of the array was freed again

hist == <<stale, corrupt>>
emitterVars == <<table, stack, nextId, emits, fired, removed, stale, corrupt>>

EmitterInit ==
    /\ table = <<>> /\ stack = <<>> /\ nextId = 1 /\ emits = 0
    /\ fired = [l \in Ids |-> 0] /\ removed = {}
    /\ stale = FALSE /\ corrupt = FALSE

Registered == {table[i].id : i \in 1 .. Len(table)}
Top == stack[Len(stack)]
SetTop(f) == stack' = [stack EXCEPT ![Len(stack)] = f]

\* The script runs: no emit in progress, or inside a listener.
ScriptRuns == ~corrupt /\ (stack # <<>> => Top.calling)

\* The first n emits in progress, now that the array they walk has shrunk.
Shrunk(n) == [k \in 1 .. Len(stack) |-> IF k <= n THEN [stack[k] EXCEPT !.shrunk = TRUE]
                                        ELSE stack[k]]

\* on / once.
On(ev, once) ==
    /\ ScriptRuns /\ nextId \in Ids
    /\ table' = Append(table, [id |-> nextId, ev |-> ev, once |-> once])
    /\ nextId' = nextId + 1
    /\ UNCHANGED <<stack, emits, fired, removed, hist>>

\* off and removeListener: every listener of the event goes.
Off(ev) ==
    LET gone == {i \in 1 .. Len(table) : table[i].ev = ev} IN
    /\ ScriptRuns /\ gone # {}
    /\ table' = Filter(table, {l \in ToSet(table) : l.ev # ev})
    /\ removed' = removed \cup {table[i].id : i \in gone}
    /\ stack' = Shrunk(Len(stack))
    /\ UNCHANGED <<nextId, emits, fired, hist>>

\* app.removeAllListeners() without an event.
RemoveAll ==
    /\ ScriptRuns /\ table # <<>>
    /\ table' = <<>> /\ removed' = removed \cup Registered
    /\ stack' = Shrunk(Len(stack))
    /\ UNCHANGED <<nextId, emits, fired, hist>>

\* bw_emit and app_emit_internal begin, from the host or from a listener.
\* due: the listeners this emit owes a call to.
Emit(ev) ==
    /\ ScriptRuns /\ emits < MaxEmits
    /\ emits' = emits + 1
    /\ stack' = Append(stack, [ev |-> ev, i |-> 1, calling |-> FALSE, once |-> FALSE,
                               cb |-> 0, shrunk |-> FALSE,
                               due |-> {table[i].id : i \in {j \in 1 .. Len(table) : table[j].ev = ev}}])
    /\ UNCHANGED <<table, nextId, fired, removed, hist>>

Scanning == stack # <<>> /\ ~Top.calling
Calling == ~corrupt /\ stack # <<>> /\ Top.calling

\* The entry at the index is for another event.
Skip ==
    /\ Scanning /\ Top.i <= Len(table) /\ table[Top.i].ev # Top.ev
    /\ SetTop([Top EXCEPT !.i = @ + 1])
    /\ UNCHANGED <<table, nextId, emits, fired, removed, hist>>

\* JS_Call of the listener at the index.
Call ==
    /\ Scanning /\ Top.i <= Len(table) /\ table[Top.i].ev = Top.ev
    /\ LET l == table[Top.i] IN
         /\ SetTop([Top EXCEPT !.calling = TRUE, !.once = l.once, !.cb = l.id, !.due = @ \ {l.id}])
         /\ fired' = [fired EXCEPT ![l.id] = @ + 1]
    /\ UNCHANGED <<table, nextId, emits, removed, hist>>

\* A listener that is no once-listener returns: on to the next index.
Returns ==
    /\ Calling /\ ~Top.once
    /\ SetTop([Top EXCEPT !.calling = FALSE, !.i = @ + 1])
    /\ UNCHANGED <<table, nextId, emits, fired, removed, hist>>

\* Mutant: the index moves on although the array was compacted.
OnceReturnsSkips ==
    /\ Calling /\ Top.once /\ Top.i <= Len(table)
    /\ table' = RemoveAt(table, Top.i)
    /\ stale' = (stale \/ table[Top.i].id # Top.cb)
    /\ stack' = [Shrunk(Len(stack) - 1) EXCEPT ![Len(stack)] = [Top EXCEPT !.calling = FALSE, !.i = @ + 1]]
    /\ UNCHANGED <<nextId, emits, fired, removed, corrupt>>

\* Mutant: the array is compacted by dropping its last entry.
OnceReturnsDropsLast ==
    /\ Calling /\ Top.once /\ Top.i <= Len(table)
    /\ table' = Front(table)
    /\ stack' = [Shrunk(Len(stack) - 1) EXCEPT ![Len(stack)] = [Top EXCEPT !.calling = FALSE]]
    /\ UNCHANGED <<nextId, emits, fired, removed, hist>>

\* A once-listener returns: the entry at the index is released, whoever it is
\* now, and the array closes up.
OnceReturns ==
    /\ Calling /\ Top.once /\ Top.i <= Len(table)
    /\ table' = RemoveAt(table, Top.i)
    /\ stale' = (stale \/ table[Top.i].id # Top.cb)
    /\ stack' = [Shrunk(Len(stack) - 1) EXCEPT ![Len(stack)] = [Top EXCEPT !.calling = FALSE]]
    /\ UNCHANGED <<nextId, emits, fired, removed, corrupt>>

\* The same with nothing left at the index: the entry freed when the array
\* closed up is freed again and the count drops below what is there.  What the
\* program does then is undefined.
OnceReturnsPastEnd ==
    /\ Calling /\ Top.once /\ Top.i > Len(table)
    /\ corrupt' = TRUE
    /\ UNCHANGED <<table, stack, nextId, emits, fired, removed, stale>>

\* The index has reached the end of the array.
EmitEnds ==
    /\ Scanning /\ Top.i > Len(table)
    /\ stack' = Front(stack)
    /\ UNCHANGED <<table, nextId, emits, fired, removed, hist>>

EmitterNext ==
    \/ \E ev \in Events : Off(ev) \/ Emit(ev) \/ \E once \in BOOLEAN : On(ev, once)
    \/ RemoveAll
    \/ Skip \/ Call \/ Returns \/ OnceReturns \/ OnceReturnsPastEnd \/ EmitEnds

EmitterSpec == EmitterInit /\ [][EmitterNext]_emitterVars

-----------------------------------------------------------------------------

(* The type of a listener table and of the emits in progress (BwListeners,  *)
(* bw_emit): a listener is in the table once.                               *)
EmitterTypeOK ==
    /\ \A i \in 1 .. Len(table) : table[i] \in [id : Ids, ev : Events, once : BOOLEAN]
    /\ IsInjective([i \in 1 .. Len(table) |-> table[i].id])
    /\ nextId \in 1 .. MaxListeners + 1 /\ emits \in 0 .. MaxEmits
    /\ fired \in [Ids -> Nat] /\ removed \subseteq Ids

(* A listener leaves the table only because a script removed its event, or  *)
(* because it was registered with once and has been called.  (bw_emit:      *)
(* "snapshot indices that match (the array may shrink as once-listeners     *)
(* fire)".)  The one exception is a once-listener during whose call the     *)
(* array shrank: the code removes whoever has moved to its index.           *)
NoneLost ==
    [][\A i \in 1 .. Len(table) :
           LET l == table[i]
               kept == \E j \in 1 .. Len(table') : table'[j] = l
           IN  kept \/ l.id \in removed' \/ (l.once /\ fired[l.id] > 0)
               \/ (Calling /\ Top.once /\ Top.shrunk)]_emitterVars

(* An emit calls every listener of its event that was registered when it    *)
(* began and that no script has removed since, even while listeners         *)
(* register more and its own once-listeners shrink the array under it,      *)
(* unless somebody else shrank the array during one of its calls (bw_emit). *)
EmitReachesAll ==
    Scanning /\ Top.i > Len(table) /\ ~Top.shrunk => Top.due = {}

(* A listener registered with once is called once over any number of emits, *)
(* unless it emits its own event, or an entry was removed in the place of   *)
(* another (bw_emit).                                                       *)
OnceFiresOnce ==
    \A i \in 1 .. Len(table) :
        table[i].once /\ ~stale =>
            fired[table[i].id] = Cardinality({k \in 1 .. Len(stack) :
                                    stack[k].calling /\ stack[k].cb = table[i].id})

(* An entry is freed twice only by an emit under which somebody else shrank *)
(* the array (bw_emit).                                                     *)
FreedTwiceOnlyIfShrunk ==
    corrupt => Top.shrunk

(* bw_emit calls each listener as often as it was asked to: all of them,    *)
(* and those of once one time only; it frees an entry twice only when the   *)
(* array shrank under a call.                                               *)
EmitIsExact == EmitterTypeOK /\ EmitReachesAll /\ OnceFiresOnce /\ FreedTwiceOnlyIfShrunk
=============================================================================
