-------------------------- MODULE ChildProcsProofs --------------------------
(***************************************************************************)
(* Proofs about the child processes of a bridge, for any number of         *)
(* children, units of output and listeners, and any first capacity of the  *)
(* array.                                                                  *)
(*                                                                         *)
(* ChildrenOwned excepts the children a pump takes for one another, and    *)
(* says of the others only what the array shows.  What makes it true is    *)
(* that the pump drops the array's reference of a child when it has seen   *)
(* its end, whatever entry it then takes out: References ties the count to *)
(* that, with no exception, and Entries says for which children the array  *)
(* shows the same.                                                         *)
(***************************************************************************)
EXTENDS ChildProcs, TLAPS

\* The pump holds a child from the look at its slot to its sweep.
Holding == pc \in {"poll", "report", "sweep"}

\* What is in the pipes and the buffers has been written; nothing was handed out
\* that is not in the buffer, and what ended has been emptied.
Output ==
    /\ wrote \in 0 .. MaxOut
    /\ proc \in [Kids -> {"none", "running", "exited", "hidden"}]
    /\ pipe \in [Kids -> Nat] /\ len \in [Kids -> Nat] /\ fired \in [Kids -> Nat]
    /\ told \in [Kids -> 0 .. 1]
    /\ \A k \in Kids :
         /\ pipe[k] + len[k] <= wrote /\ fired[k] <= wrote
         /\ k \in cut \/ fired[k] <= len[k]
         /\ k \in exited => /\ proc[k] = "exited"
                            /\ k \in cut \/ (pipe[k] = 0 /\ fired[k] = len[k])
         /\ told[k] > 0 => k \in exited /\ ~(pc = "report" /\ k = cur)

\* The array's reference of a child.
ArrayRef(k) == IF k \notin exited \/ k = cur THEN 1 ELSE 0

\* Every child has the array's reference until the pump has swept it, and that
\* of its wrapper; without any it is freed.
References ==
    /\ next \in 1 .. MaxKids + 1 /\ mode \in [Kids -> {"none", "exec", "spawn"}]
    /\ ref \in [Kids -> 0 .. 2]
    /\ wrapper \cup freed \cup exited \cup cut \subseteq Created
    /\ \A k \in Created : k \in freed <=> ref[k] = 0
    /\ pc # "gone" => \A k \in Created :
         ref[k] = ArrayRef(k) + (IF k \in wrapper THEN 1 ELSE 0)

\* The pump's locals.
Walk ==
    /\ pc \in {"idle", "look", "poll", "report", "sweep", "gone"}
    /\ n \in Nat /\ i \in 1 .. n + 1
    /\ Holding => cur \in Created \ untracked /\ i <= n
    /\ ~Holding => cur = None
    /\ Holding => (cur \in exited <=> pc # "poll")
    /\ pc \in {"idle", "gone"} => ~inCb /\ n = 0

\* The array: no child twice, and a child that is not astray is in it until it
\* is swept.
Entries ==
    /\ slots \in Seq(Kids) /\ count \in 0 .. Len(slots)
    /\ cap \in Nat /\ Len(slots) <= cap /\ n <= Len(slots)
    /\ untracked \cup astray \subseteq Created
    /\ untracked \cap exited = {}
    /\ \A a \in 1 .. Len(slots) : slots[a] \in Created \ untracked
    /\ \A a, b \in 1 .. count : slots[a] = slots[b] => a = b
    /\ pc # "gone" => \A k \in Created \ astray :
         k \in Listed \cup untracked <=> k \notin exited \/ k = cur
    /\ pc = "gone" => /\ count = 0
                      /\ \A k \in Created \ astray :
                           ref[k] = (IF k \in untracked THEN 1 ELSE 0)
                                      + (IF k \in wrapper THEN 1 ELSE 0)

ChildInv == Output /\ References /\ Walk /\ Entries

-----------------------------------------------------------------------------
(* Steps that leave a part of the state alone                              *)

\* Nothing is read, handed out or reported.
LEMMA OutputKept ==
    ASSUME Output, UNCHANGED <<wrote, proc, pipe, len, fired, told, cut, exited>>,
           pc' # "report" \/ UNCHANGED <<pc, cur>>
    PROVE  Output'
BY DEF Output

\* No reference comes or goes; the pump may take up a child that has not ended, or
\* let go of one.
LEMMA ReferencesKept ==
    ASSUME References, UNCHANGED <<next, mode, ref, wrapper, freed, exited, cut>>,
           pc # "gone", \A k \in exited : k = cur' <=> k = cur
    PROVE  References'
<1>1. Created' = Created
  BY DEF Created
<1>2. \A k \in Created : ArrayRef(k)' = ArrayRef(k)
  BY DEF ArrayRef
<1>. QED
  BY <1>1, <1>2 DEF References

\* The array stays; the pump may take up a child that has not ended, or let go
\* of one.
LEMMA EntriesKept ==
    ASSUME Entries, UNCHANGED <<array, untracked, astray, next, exited>>,
           n' <= Len(slots), pc # "gone", pc' # "gone",
           \A k \in exited : k = cur' <=> k = cur
    PROVE  Entries'
<1>1. Created' = Created /\ Listed' = Listed
  BY DEF Created, Listed, array
<1>. QED
  BY <1>1 DEF Entries, array

\* The numbers of the children are positive, so None is none of them.
LEMMA KidsFacts ==
    /\ None \notin Kids /\ None \notin Created
    /\ \A k \in Kids : k \in Int
    /\ References => Created \subseteq Kids
BY ChildAssumption DEF Kids, None, Created, References

-----------------------------------------------------------------------------
(* The operations the pump and the script share                            *)

\* cp_drain and cp_fire_data: the child's output is read and handed out, or cut;
\* that of the others is untouched.
LEMMA DrainFacts ==
    ASSUME Output, NEW k \in Kids, Drain(k), FireData(k)
    PROVE  /\ pipe' \in [Kids -> Nat] /\ len' \in [Kids -> Nat]
           /\ fired' \in [Kids -> Nat]
           /\ \A x \in Kids : x # k =>
                pipe'[x] = pipe[x] /\ len'[x] = len[x] /\ fired'[x] = fired[x]
           /\ pipe'[k] + len'[k] <= wrote /\ fired'[k] <= wrote
           /\ k \in cut' \/ (pipe'[k] = 0 /\ fired'[k] = len'[k])
           /\ cut \subseteq cut' /\ cut' \subseteq cut \cup {k}
<1>0. /\ pipe \in [Kids -> Nat] /\ len \in [Kids -> Nat] /\ fired \in [Kids -> Nat]
      /\ wrote \in Nat /\ pipe[k] + len[k] <= wrote /\ fired[k] <= wrote
      /\ k \in cut \/ fired[k] <= len[k]
  BY DEF Output
<1>1. /\ pipe' \in [Kids -> Nat] /\ len' \in [Kids -> Nat]
      /\ \A x \in Kids : x # k => pipe'[x] = pipe[x] /\ len'[x] = len[x]
      /\ pipe'[k] + len'[k] <= wrote
      /\ cut \subseteq cut' /\ cut' \subseteq cut \cup {k}
      /\ k \in cut' \/ (pipe'[k] = 0 /\ len'[k] >= len[k])
  <2>1. CASE /\ pipe' = [pipe EXCEPT ![k] = 0]
             /\ len' = [len EXCEPT ![k] = @ + pipe[k]]
             /\ UNCHANGED cut
    BY <1>0, <2>1
  <2>2. CASE \E rest \in 0 .. pipe[k] - 1 :
                /\ pipe' = [pipe EXCEPT ![k] = rest]
                /\ len' = [len EXCEPT ![k] = 0]
                /\ cut' = cut \cup {k}
    <3>1. PICK rest \in 0 .. pipe[k] - 1 :
                /\ pipe' = [pipe EXCEPT ![k] = rest]
                /\ len' = [len EXCEPT ![k] = 0]
                /\ cut' = cut \cup {k}
      BY <2>2
    <3>2. rest \in Nat /\ rest <= pipe[k]
      BY <1>0
    <3>. QED
      BY <1>0, <3>1, <3>2
  <2>. QED
    BY <2>1, <2>2 DEF Drain
<1>2. CASE len'[k] > fired[k]
  <2>1. fired' = [fired EXCEPT ![k] = len'[k]]
    BY <1>2 DEF FireData
  <2>. QED
    BY <1>0, <1>1, <2>1
<1>3. CASE ~(len'[k] > fired[k])
  <2>1. fired' = fired
    BY <1>3 DEF FireData
  <2>2. len'[k] \in Nat /\ fired[k] \in Nat /\ len[k] \in Nat
    BY <1>0, <1>1
  <2>3. k \in cut' \/ fired[k] = len'[k]
    BY <1>0, <1>1, <1>3, <2>2
  <2>. QED
    BY <1>0, <1>1, <2>1, <2>3
<1>. QED
  BY <1>2, <1>3

\* Dropping references that are there frees exactly the children left with none,
\* and empties them.
LEMMA UnrefFacts ==
    ASSUME References, NEW drop \in [Kids -> 0 .. 2], Unref(drop), UNCHANGED next,
           \A k \in Kids : drop[k] <= ref[k] /\ (drop[k] > 0 => k \in Created)
    PROVE  /\ ref' \in [Kids -> 0 .. 2]
           /\ \A k \in Kids : ref'[k] = ref[k] - drop[k]
           /\ freed' \subseteq Created
           /\ \A k \in Created : k \in freed' <=> ref'[k] = 0
<1>1. ref \in [Kids -> 0 .. 2] /\ ref' = [k \in Kids |-> ref[k] - drop[k]]
  BY DEF References, Unref
<1>2. \A k \in Kids : ref'[k] = ref[k] - drop[k] /\ ref'[k] \in 0 .. 2
  BY <1>1
<1>3. freed' = freed \cup {k \in Kids : drop[k] > 0 /\ ref[k] <= drop[k]}
  BY DEF Unref
<1>4. Created \subseteq Kids
  BY KidsFacts
<1>5. \A k \in Created : k \in freed' <=> ref'[k] = 0
  <2>1. SUFFICES ASSUME NEW k \in Created
                 PROVE  k \in freed' <=> ref'[k] = 0
    OBVIOUS
  <2>2. k \in freed <=> ref[k] = 0
    BY DEF References
  <2>3. k \in Kids /\ ref[k] \in 0 .. 2 /\ drop[k] \in 0 .. 2 /\ drop[k] <= ref[k]
    BY <1>1, <1>4
  <2>. QED
    BY <1>2, <1>3, <2>2, <2>3
<1>6. freed' \subseteq Created
  BY <1>3 DEF References
<1>. QED
  BY <1>1, <1>2, <1>5, <1>6

\* cp_free leaves a child with nothing to read and nothing to hand out.
LEMMA UnrefOutput ==
    ASSUME Output, NEW drop, Unref(drop), pc' # "report" \/ UNCHANGED <<pc, cur>>,
           UNCHANGED <<wrote, proc, told, cut, exited>>
    PROVE  Output'
<1>. DEFINE gone == {k \in Kids : drop[k] > 0 /\ ref[k] <= drop[k]}
<1>1. /\ pipe' = [k \in Kids |-> IF k \in gone THEN 0 ELSE pipe[k]]
      /\ len' = [k \in Kids |-> IF k \in gone THEN 0 ELSE len[k]]
      /\ fired' = [k \in Kids |-> IF k \in gone THEN 0 ELSE fired[k]]
  BY DEF Unref
<1>. HIDE DEF gone
<1>2. /\ pipe' \in [Kids -> Nat] /\ len' \in [Kids -> Nat]
      /\ fired' \in [Kids -> Nat]
  BY <1>1 DEF Output
<1>3. \A k \in Kids :
         \/ pipe'[k] = pipe[k] /\ len'[k] = len[k] /\ fired'[k] = fired[k]
         \/ pipe'[k] = 0 /\ len'[k] = 0 /\ fired'[k] = 0
  BY <1>1
<1>4. wrote \in Nat
  BY DEF Output
<1>. QED
  BY <1>2, <1>3, <1>4 DEF Output

-----------------------------------------------------------------------------
(* The processes and the script                                            *)

\* A bridge begins without children.
LEMMA ChildInit == Init => ChildInv
<1>. SUFFICES ASSUME Init PROVE ChildInv
  OBVIOUS
<1>. USE ChildAssumption
<1>1. Created = {}
  BY DEF Init, Created
<1>2. Output
  BY DEF Init, Output, Zero
<1>3. References
  <2>1. ref \in [Kids -> 0 .. 2] /\ mode \in [Kids -> {"none", "exec", "spawn"}]
    BY DEF Init, Zero
  <2>. QED
    BY <1>1, <2>1 DEF Init, References
<1>4. Walk
  BY DEF Init, Walk, Holding
<1>5. Entries
  <2>1. slots = <<>> /\ <<>> \in Seq(Kids) /\ Len(<<>>) = 0
    BY DEF Init
  <2>. QED
    BY <1>1, <2>1 DEF Init, Entries
<1>. QED
  BY <1>2, <1>3, <1>4, <1>5 DEF ChildInv

\* A process writes a unit; one that was seen to have ended does not.
LEMMA ChildWrite ==
    ASSUME ChildInv, NEW k \in Kids, Write(k)
    PROVE  ChildInv'
<1>. USE DEF ChildInv, Write, Alive
<1>1. Output'
  <2>1. /\ pipe' \in [Kids -> Nat] /\ pipe'[k] = pipe[k] + 1
        /\ \A x \in Kids : x # k => pipe'[x] = pipe[x]
    BY DEF Output
  <2>2. wrote' \in 0 .. MaxOut /\ wrote' = wrote + 1 /\ wrote \in Nat
    BY ChildAssumption DEF Output
  <2>3. k \notin exited
    BY DEF Output
  <2>4. UNCHANGED <<proc, len, fired, told, cut, exited, pc, cur>>
    BY DEF walk, history
  <2>. QED
    BY <2>1, <2>2, <2>3, <2>4 DEF Output
<1>2. References'
  BY ReferencesKept DEF object, walk, history
<1>3. Walk'
  BY DEF Walk, Holding, Created, walk, history
<1>4. Entries'
  BY EntriesKept DEF Entries, walk, history
<1>. QED
  BY <1>1, <1>2, <1>3, <1>4

\* A process ends, or its end begins to show.
LEMMA ChildExit ==
    ASSUME ChildInv, NEW k \in Kids, Exit(k) \/ Reveal(k)
    PROVE  ChildInv'
<1>. USE DEF ChildInv, Exit, Reveal, Alive
<1>1. Output'
  BY DEF Output, walk, history
<1>2. References'
  BY ReferencesKept DEF object, walk, history
<1>3. Walk'
  BY DEF Walk, Holding, Created, walk, history
<1>4. Entries'
  BY EntriesKept DEF Entries, walk, history
<1>. QED
  BY <1>1, <1>2, <1>3, <1>4

\* Registering a listener, a callback that returns, and the steps that end the
\* modelled behaviour touch nothing the invariant speaks of.
LEMMA ChildPlain ==
    ASSUME ChildInv,
           \/ \E k \in Kids, e \in Events : On(k, e)
           \/ CallbackReturns \/ UseFreed \/ DestroyFreed \/ UNCHANGED vars
    PROVE  ChildInv'
<1>1. /\ UNCHANGED <<next, mode, os, len, fired, ref, wrapper, freed, exited,
                     array, pc, walk, history>>
      /\ ~inCb => ~inCb'
  <2>1. ASSUME NEW k \in Kids, NEW e \in Events, On(k, e)
        PROVE  UNCHANGED <<next, mode, os, len, fired, ref, wrapper, freed, exited,
                           array, pc, walk, history, inCb>>
    BY <2>1 DEF On
  <2>2. CASE CallbackReturns
    BY <2>2 DEF CallbackReturns, object
  <2>3. CASE UseFreed \/ DestroyFreed
    BY <2>3 DEF UseFreed, DestroyFreed, object
  <2>4. CASE UNCHANGED vars
    BY <2>4 DEF vars, object
  <2>. QED
    BY <2>1, <2>2, <2>3, <2>4
<1>2. Output'
  BY <1>1, OutputKept DEF ChildInv, os, walk, history
<1>3. References' /\ Entries'
  BY <1>1 DEF ChildInv, References, Entries, Created, ArrayRef, Listed, array,
     walk, history
<1>4. Walk'
  BY <1>1 DEF ChildInv, Walk, Holding, Created, walk, history
<1>. QED
  BY <1>2, <1>3, <1>4 DEF ChildInv

\* mini_bridge_add_child puts the child in the slot after the last, in the block
\* or in a larger one, or has no room for it.
LEMMA AddChildFacts ==
    ASSUME Entries, NEW k \in Kids, AddChild(k)
    PROVE  /\ slots' \in Seq(Kids) /\ count' \in 0 .. Len(slots')
           /\ cap' \in Nat /\ Len(slots') <= cap' /\ Len(slots) <= Len(slots')
           /\ \/ /\ untracked' = untracked /\ count' = count + 1
                 /\ slots'[count + 1] = k
                 /\ \A a \in 1 .. Len(slots') : a # count + 1 =>
                      a \in 1 .. Len(slots) /\ slots'[a] = slots[a]
              \/ UNCHANGED array /\ untracked' = untracked \cup {k}
<1>0. /\ slots \in Seq(Kids) /\ count \in Nat /\ count <= Len(slots)
      /\ Len(slots) \in Nat /\ cap \in Nat /\ Len(slots) <= cap
  BY DEF Entries
<1>1. CASE count < cap /\ count < Len(slots)
  <2>1. /\ slots' = [slots EXCEPT ![count + 1] = k] /\ count + 1 \in 1 .. Len(slots)
        /\ count' = count + 1 /\ cap' = cap /\ untracked' = untracked
    BY <1>0, <1>1 DEF AddChild
  <2>. QED
    BY <1>0, <2>1
<1>2. CASE count < cap /\ ~(count < Len(slots))
  <2>1. /\ slots' = Append(slots, k) /\ count = Len(slots)
        /\ count' = count + 1 /\ cap' = cap /\ untracked' = untracked
    BY <1>0, <1>2 DEF AddChild
  <2>. QED
    BY <1>0, <1>2, <2>1
<1>3. CASE /\ ~(count < cap)
           /\ slots' = Append(SubSeq(slots, 1, count), k)
           /\ count' = count + 1 /\ cap' = (IF cap = 0 THEN InitCap ELSE 2 * cap)
           /\ UNCHANGED untracked
  <2>1. count = Len(slots) /\ count = cap
    BY <1>0, <1>3
  <2>2. SubSeq(slots, 1, Len(slots)) = slots
    BY <1>0
  <2>3. slots' = Append(slots, k)
    BY <1>3, <2>1, <2>2
  <2>4. cap' \in Nat /\ cap' >= cap + 1
    BY <1>0, <1>3, ChildAssumption
  <2>. QED
    BY <1>0, <1>3, <2>1, <2>3, <2>4
<1>4. CASE /\ untracked' = untracked \cup {k}
           /\ UNCHANGED array
  BY <1>0, <1>4 DEF array
<1>. QED
  BY <1>1, <1>2, <1>3, <1>4 DEF AddChild

\* js_cp_exec and js_cp_spawn: a child with the references of the array, which
\* is given one even when it has no room, and of the wrapper.
LEMMA ChildStart ==
    ASSUME ChildInv, Exec \/ Spawn
    PROVE  ChildInv'
<1>. USE DEF ChildInv
<1>1. PICK m \in {"exec", "spawn"}, r \in 1 .. 2 :
        /\ Start(m, r)
        /\ \/ r = 1 /\ wrapper' = wrapper
           \/ r = 2 /\ wrapper' = wrapper \cup {next}
  BY DEF Exec, Spawn
<1>2. /\ next \in Kids /\ next \in Nat /\ next \notin Created /\ pc # "gone"
      /\ Created' = Created \cup {next} /\ Created \subseteq Kids
      /\ next' \in 1 .. MaxKids + 1
  BY <1>1, ChildAssumption DEF Start, MayCall, References, Walk, Created, Kids
<1>3. cur # next /\ next \notin exited \cup wrapper \cup freed \cup cut
  BY <1>2, KidsFacts DEF Walk, References
<1>4. Output'
  BY <1>1, <1>2, <1>3 DEF Start, Output
<1>5. References'
  <2>1. /\ mode' \in [Kids -> {"none", "exec", "spawn"}]
        /\ ref' \in [Kids -> 0 .. 2] /\ ref'[next] = r
        /\ \A k \in Created : ref'[k] = ref[k]
    BY <1>1, <1>2 DEF Start, References
  <2>2. \A k \in Created : ArrayRef(k)' = ArrayRef(k)
    BY <1>1 DEF Start, ArrayRef
  <2>3. (\A k \in Kids : k = next => ArrayRef(k)' = 1) /\ r # 0
    BY <1>1, <1>3 DEF Start, ArrayRef
  <2>4. wrapper' \cup freed' \cup exited' \cup cut' \subseteq Created'
    BY <1>1, <1>2 DEF Start, References
  <2>5. \A k \in Created' : k \in freed' <=> ref'[k] = 0
    BY <1>1, <1>2, <1>3, <2>1, <2>3 DEF Start, References
  <2>6. \A k \in Created' :
           ref'[k] = ArrayRef(k)' + (IF k \in wrapper' THEN 1 ELSE 0)
    <3>1. SUFFICES ASSUME NEW k \in Created'
                   PROVE  ref'[k] = ArrayRef(k)' + (IF k \in wrapper' THEN 1 ELSE 0)
      OBVIOUS
    <3>2. CASE k = next
      BY <1>1, <1>2, <1>3, <2>1, <2>3, <3>2
    <3>3. CASE k # next
      <4>1. k \in Created /\ (k \in wrapper' <=> k \in wrapper)
        BY <1>1, <1>2, <3>3
      <4>. QED
        BY <1>2, <2>1, <2>2, <4>1 DEF References
    <3>. QED
      BY <3>2, <3>3
  <2>. QED
    BY <1>2, <2>1, <2>4, <2>5, <2>6 DEF References
<1>6. AddChild(next)
  BY <1>1 DEF Start
<1>7. Walk'
  <2>1. UNCHANGED <<pc, inCb, i, n, cur, exited>>
    BY <1>1 DEF Start
  <2>2. Created \ untracked \subseteq Created' \ untracked'
    BY <1>2, <1>6, AddChildFacts
  <2>. QED
    BY <2>1, <2>2 DEF Walk, Holding
<1>8. Entries'
  <2>1. UNCHANGED <<pc, n, cur, exited, astray>>
    BY <1>1 DEF Start
  <2>2. /\ slots' \in Seq(Kids) /\ count' \in 0 .. Len(slots')
        /\ cap' \in Nat /\ Len(slots') <= cap' /\ n' <= Len(slots')
    BY <1>2, <1>6, <2>1, AddChildFacts DEF Entries, Walk
  <2>3. CASE /\ untracked' = untracked /\ count' = count + 1
             /\ slots'[count + 1] = next
             /\ \A a \in 1 .. Len(slots') : a # count + 1 =>
                  a \in 1 .. Len(slots) /\ slots'[a] = slots[a]
    <3>1. \A a \in 1 .. count : a \in 1 .. Len(slots') /\ a # count + 1
                                /\ a \in 1 .. Len(slots) /\ slots'[a] = slots[a]
      BY <2>2, <2>3 DEF Entries
    <3>2. count \in Nat /\ count + 1 \in 1 .. Len(slots')
      BY <2>2, <2>3 DEF Entries
    <3>3. Listed' = Listed \cup {next}
      <4>1. \A x \in Listed' : x \in Listed \cup {next}
        <5>1. SUFFICES ASSUME NEW a \in 1 .. count + 1
                       PROVE  slots'[a] \in Listed \cup {next}
          BY <2>3 DEF Listed
        <5>2. CASE a = count + 1
          BY <2>3, <5>2
        <5>3. CASE a # count + 1
          <6>1. a \in 1 .. count
            BY <3>2, <5>3
          <6>. QED
            BY <3>1, <6>1 DEF Listed
        <5>. QED
          BY <5>2, <5>3
      <4>2. \A x \in Listed : x \in Listed'
        <5>1. \A a \in 1 .. count : a \in 1 .. count'
          BY <2>3, <3>2
        <5>. QED
          BY <3>1, <5>1 DEF Listed
      <4>3. count + 1 \in 1 .. count'
        BY <2>3, <3>2
      <4>4. next \in Listed'
        BY <2>3, <4>3 DEF Listed
      <4>. QED
        BY <4>1, <4>2, <4>4
    <3>4. \A a \in 1 .. Len(slots') : slots'[a] \in Created' \ untracked'
      BY <1>2, <2>3 DEF Entries
    <3>5. \A a, b \in 1 .. count' : slots'[a] = slots'[b] => a = b
      <4>1. \A a \in 1 .. count : slots'[a] \in Created
        BY <3>1 DEF Entries
      <4>2. \A a \in 1 .. count' : a = count + 1 \/ a \in 1 .. count
        BY <2>3, <3>2
      <4>. QED
        BY <1>2, <2>3, <3>1, <4>1, <4>2 DEF Entries
    <3>6. \A k \in Created' \ astray' :
             k \in Listed' \cup untracked' <=> k \notin exited' \/ k = cur'
      BY <1>2, <1>3, <2>1, <2>3, <3>3 DEF Entries
    <3>. QED
      BY <1>2, <2>1, <2>2, <2>3, <3>4, <3>5, <3>6 DEF Entries
  <2>4. CASE UNCHANGED array /\ untracked' = untracked \cup {next}
    <3>1. Listed' = Listed
      BY <2>4 DEF Listed, array
    <3>. QED
      BY <1>2, <1>3, <2>1, <2>2, <2>4, <3>1 DEF Entries, array
  <2>. QED
    BY <1>2, <1>6, <2>3, <2>4, AddChildFacts
<1>. QED
  BY <1>4, <1>5, <1>7, <1>8

\* js_cp_finalizer drops the wrapper's reference.
LEMMA ChildFinalize ==
    ASSUME ChildInv, NEW k \in Kids, Finalize(k)
    PROVE  ChildInv'
<1>. USE DEF ChildInv
<1>1. /\ pc # "gone" /\ k \in wrapper /\ wrapper' = wrapper \ {k}
      /\ Unref(One(k)) /\ Created' = Created /\ k \in Created
      /\ UNCHANGED <<wrote, next, mode, proc, exited, array, pc, inCb, walk, history>>
  BY DEF Finalize, MayCall, Walk, Created, References
<1>2. UNCHANGED <<cur, i, n, told, untracked, cut, astray>>
  BY <1>1 DEF walk, history
<1>3. /\ One(k) \in [Kids -> 0 .. 2]
      /\ \A x \in Kids : One(k)[x] = IF x = k THEN 1 ELSE 0
  BY DEF One
<1>4. Created \subseteq Kids
  BY KidsFacts
<1>5. \A x \in Created : ArrayRef(x) \in 0 .. 1 /\ ArrayRef(x)' = ArrayRef(x)
  BY <1>1, <1>2 DEF ArrayRef
<1>6. \A x \in Kids : One(k)[x] <= ref[x] /\ (One(k)[x] > 0 => x \in Created)
  BY <1>1, <1>3, <1>5 DEF References
<1>7. /\ ref' \in [Kids -> 0 .. 2]
      /\ \A x \in Kids : ref'[x] = ref[x] - One(k)[x]
      /\ freed' \subseteq Created
      /\ \A x \in Created : x \in freed' <=> ref'[x] = 0
  BY <1>1, <1>3, <1>6, UnrefFacts
<1>8. Output'
  BY <1>1, <1>2, UnrefOutput
<1>9. References'
  <2>1. \A x \in Created :
           ref'[x] = ArrayRef(x)' + (IF x \in wrapper' THEN 1 ELSE 0)
    BY <1>1, <1>3, <1>4, <1>5, <1>7 DEF References
  <2>. QED
    BY <1>1, <1>2, <1>7, <2>1 DEF References
<1>10. Walk'
  BY <1>1, <1>2 DEF Walk, Holding
<1>11. Entries'
  BY <1>1, <1>2, EntriesKept DEF Entries
<1>. QED
  BY <1>8, <1>9, <1>10, <1>11

-----------------------------------------------------------------------------
(* bridge_pump_children                                                    *)

\* The loop over the array begins and ends, and goes on to the next slot.
LEMMA ChildWalk ==
    ASSUME ChildInv, PumpBegin \/ Skip \/ StillRunning
    PROVE  ChildInv'
<1>. USE DEF ChildInv
<1>1. /\ UNCHANGED <<next, mode, wrote, proc, pipe, len, fired, ref, wrapper, freed,
                     exited, array, told, untracked, cut, astray, inCb>>
      /\ pc # "gone" /\ pc' \in {"look"} /\ ~inCb /\ cur' = None
  BY DEF PumpBegin, Skip, StillRunning, At, os, object, history, walk, Walk, Holding
<1>2. \A k \in exited : k = cur' <=> k = cur
  BY <1>1, KidsFacts DEF Walk, Holding, References, PumpBegin, Skip, StillRunning, At
<1>3. Output'
  BY <1>1, OutputKept
<1>4. References'
  BY <1>1, <1>2, ReferencesKept
<1>5. n' \in Nat /\ i' \in 1 .. n' + 1 /\ n' <= Len(slots)
  BY DEF PumpBegin, Skip, StillRunning, Walk, Entries, Holding, At
<1>6. Walk'
  BY <1>1, <1>5 DEF Walk, Holding
<1>7. Entries'
  BY <1>1, <1>2, <1>5, EntriesKept
<1>. QED
  BY <1>3, <1>4, <1>6, <1>7

\* The pump returns; the array keeps the entries it counts.
LEMMA ChildPumpEnd ==
    ASSUME ChildInv, PumpEnd
    PROVE  ChildInv'
<1>. USE DEF ChildInv
<1>1. /\ UNCHANGED <<next, mode, wrote, proc, pipe, len, fired, ref, wrapper, freed,
                     exited, count, cap, told, untracked, cut, astray, inCb, cur>>
      /\ pc = "look" /\ pc' = "idle" /\ ~inCb /\ i' = 1 /\ n' = 0
      /\ slots' = SubSeq(slots, 1, count)
  BY DEF PumpEnd, At, os, object, history
<1>2. Output'
  BY <1>1, OutputKept
<1>3. References'
  BY <1>1, ReferencesKept
<1>4. Walk'
  BY <1>1 DEF Walk, Holding
<1>5. /\ slots' \in Seq(Kids) /\ Len(slots') = count
      /\ \A a \in 1 .. count : slots'[a] = slots[a] /\ a \in 1 .. Len(slots)
  BY <1>1 DEF Entries
<1>6. Listed' = Listed /\ Created' = Created
  BY <1>1, <1>5 DEF Listed, Created
<1>7. Entries'
  <2>1. count \in Nat /\ count <= cap /\ cap \in Nat
    BY DEF Entries
  <2>. QED
    BY <1>1, <1>5, <1>6, <2>1 DEF Entries
<1>. QED
  BY <1>2, <1>3, <1>4, <1>7

\* The child in the slot is taken up and its output handed out.
LEMMA ChildLook ==
    ASSUME ChildInv, Look
    PROVE  ChildInv'
<1>. USE DEF ChildInv
<1>. DEFINE k == slots[i]
<1>1. /\ UNCHANGED <<wrote, next, mode, proc, ref, wrapper, freed, exited, array,
                     i, n, told, untracked, astray>>
      /\ pc = "look" /\ i <= n /\ k \notin exited /\ cur' = k /\ pc' = "poll"
      /\ Drain(k) /\ FireData(k)
  BY DEF Look, At, object
<1>2. i \in 1 .. Len(slots) /\ k \in Kids /\ k \in Created \ untracked
  BY <1>1, KidsFacts DEF Walk, Entries
<1>3. cur = None /\ \A x \in exited : x # cur /\ x # cur'
  BY <1>1, KidsFacts DEF Walk, Holding, References
<1>. HIDE DEF k
<1>4. Output'
  <2>1. /\ pipe' \in [Kids -> Nat] /\ len' \in [Kids -> Nat]
        /\ fired' \in [Kids -> Nat]
        /\ \A x \in Kids : x # k =>
             pipe'[x] = pipe[x] /\ len'[x] = len[x] /\ fired'[x] = fired[x]
        /\ pipe'[k] + len'[k] <= wrote /\ fired'[k] <= wrote
        /\ k \in cut' \/ (pipe'[k] = 0 /\ fired'[k] = len'[k])
        /\ cut \subseteq cut'
    BY <1>1, <1>2, DrainFacts
  <2>2. \A x \in Kids : x \in cut' \/ fired'[x] <= len'[x]
    BY <2>1 DEF Output
  <2>. QED
    BY <1>1, <1>2, <2>1, <2>2 DEF Output
<1>5. References'
  <2>1. cut' \subseteq Created
    BY <1>1, <1>2, DrainFacts DEF References
  <2>2. Created' = Created /\ \A x \in Created : ArrayRef(x)' = ArrayRef(x)
    BY <1>1, <1>3 DEF Created, ArrayRef
  <2>. QED
    BY <1>1, <2>1, <2>2 DEF References
<1>6. Walk'
  <2>1. Created' = Created
    BY <1>1 DEF Created
  <2>. QED
    BY <1>1, <1>2, <2>1 DEF Walk, Holding
<1>7. Entries'
  BY <1>1, <1>3, EntriesKept DEF Entries
<1>. QED
  BY <1>4, <1>5, <1>6, <1>7

\* The process has ended: a last look at its output.
LEMMA ChildSeesExit ==
    ASSUME ChildInv, SeesExit
    PROVE  ChildInv'
<1>. USE DEF ChildInv
<1>1. /\ UNCHANGED <<wrote, next, mode, proc, ref, wrapper, freed, array,
                     i, n, cur, told, untracked, astray>>
      /\ pc = "poll" /\ pc' = "report" /\ exited' = exited \cup {cur}
      /\ proc[cur] = "exited" /\ Drain(cur) /\ FireData(cur)
  BY DEF SeesExit, At, object, walk
<1>2. cur \in Kids /\ cur \in Created \ untracked /\ cur \notin exited
  BY <1>1, KidsFacts DEF Walk, Holding
<1>3. Created' = Created /\ Listed' = Listed
  BY <1>1 DEF Created, Listed, array
<1>4. Output'
  <2>1. told[cur] = 0
    BY <1>2 DEF Output
  <2>. QED
    BY <1>1, <1>2, <2>1, DrainFacts DEF Output
<1>5. References'
  <2>1. cut' \subseteq Created
    BY <1>1, <1>2, DrainFacts DEF References
  <2>2. \A x \in Created : ArrayRef(x)' = ArrayRef(x)
    BY <1>1 DEF ArrayRef
  <2>. QED
    BY <1>1, <1>2, <1>3, <2>1, <2>2 DEF References
<1>6. Walk'
  BY <1>1, <1>2, <1>3 DEF Walk, Holding
<1>7. Entries'
  BY <1>1, <1>2, <1>3 DEF Entries, array
<1>. QED
  BY <1>4, <1>5, <1>6, <1>7

\* The end is reported, for the first time.
LEMMA ChildReport ==
    ASSUME ChildInv, Report
    PROVE  ChildInv'
<1>. USE DEF ChildInv
<1>1. /\ UNCHANGED <<next, mode, wrote, proc, pipe, len, fired, ref, wrapper, freed,
                     exited, array, i, n, cur, untracked, cut, astray>>
      /\ pc = "report" /\ pc' = "sweep"
      /\ told' = told \/ told' = [told EXCEPT ![cur] = @ + 1]
  BY DEF Report, At, os, object, walk
<1>2. cur \in Kids /\ cur \in exited /\ told[cur] = 0
  BY <1>1, KidsFacts DEF Walk, Holding, Output
<1>3. told' \in [Kids -> 0 .. 1] /\ \A k \in Kids : told'[k] > 0 => k \in exited
  BY <1>1, <1>2 DEF Output
<1>4. Output'
  BY <1>1, <1>3 DEF Output
<1>5. References'
  BY <1>1, ReferencesKept
<1>6. Walk'
  BY <1>1 DEF Walk, Holding, Created
<1>7. Entries'
  BY <1>1, EntriesKept DEF Entries
<1>. QED
  BY <1>4, <1>5, <1>6, <1>7

\* mini_bridge_remove_child takes the entry at the index out, if it is one of the
\* array, and no other.
LEMMA RemoveChildFacts ==
    ASSUME Entries, Walk, Holding, RemoveChild
    PROVE  /\ slots' \in Seq(Kids) /\ Len(slots') = Len(slots)
           /\ count' \in 0 .. Len(slots')
           /\ \A a \in 1 .. Len(slots') : slots'[a] \in Created \ untracked
           /\ \A a, b \in 1 .. count' : slots'[a] = slots'[b] => a = b
           /\ cur \in astray' \/ (Listed' = Listed \ {cur} /\ astray' = astray)
           /\ \A k \in Created \ astray' : k # cur =>
                k \notin astray /\ (k \in Listed' <=> k \in Listed)
           /\ astray' \subseteq Created
<1>0. /\ slots \in Seq(Kids) /\ count \in 0 .. Len(slots) /\ i \in 1 .. n
      /\ \A a \in 1 .. Len(slots) : slots[a] \in Created \ untracked
      /\ \A a, b \in 1 .. count : slots[a] = slots[b] => a = b
      /\ cur \in Created /\ Len(slots) \in Nat
      /\ astray \subseteq Created
  BY DEF Entries, Walk
<1>1. CASE i <= count
  <2>1. /\ i \in 1 .. count /\ count \in 1 .. count /\ i \in 1 .. Len(slots)
        /\ count \in 1 .. Len(slots)
    BY <1>0, <1>1
  <2>2. /\ slots' = [slots EXCEPT ![i] = slots[count]] /\ count' = count - 1
        /\ astray' = (IF slots[i] = cur THEN astray ELSE astray \cup {cur, slots[i]})
    BY <1>1 DEF RemoveChild
  <2>3. /\ slots' \in Seq(Kids) /\ Len(slots') = Len(slots)
        /\ \A a \in 1 .. Len(slots) : slots'[a] = IF a = i THEN slots[count] ELSE slots[a]
    BY <1>0, <2>1, <2>2
  <2>4. \A a \in 1 .. count - 1 : a \in 1 .. count /\ a \in 1 .. Len(slots) /\ a # count
    BY <1>0
  <2>5. \A a, b \in 1 .. count' : slots'[a] = slots'[b] => a = b
    BY <1>0, <2>1, <2>2, <2>3, <2>4
  <2>6. Listed' = Listed \ {slots[i]}
    <3>1. \A x \in Listed' : x \in Listed /\ x # slots[i]
      <4>1. SUFFICES ASSUME NEW a \in 1 .. count - 1
                     PROVE  slots'[a] \in Listed /\ slots'[a] # slots[i]
        BY <2>2 DEF Listed
      <4>. QED
        BY <1>0, <2>1, <2>3, <2>4 DEF Listed
    <3>2. \A x \in Listed : x # slots[i] => x \in Listed'
      <4>1. SUFFICES ASSUME NEW a \in 1 .. count, slots[a] # slots[i]
                     PROVE  \E b \in 1 .. count - 1 : slots'[b] = slots[a]
        BY <2>2 DEF Listed
      <4>2. CASE a = count
        <5>1. i \in 1 .. count - 1
          BY <2>1, <4>1, <4>2
        <5>. QED
          BY <2>1, <2>3, <4>2, <5>1
      <4>3. CASE a # count
        <5>1. a \in 1 .. count - 1 /\ a # i /\ a \in 1 .. Len(slots)
          BY <2>1, <4>1, <4>3
        <5>. QED
          BY <2>3, <5>1
      <4>. QED
        BY <4>2, <4>3
    <3>. QED
      BY <3>1, <3>2
  <2>7. count' \in 0 .. Len(slots')
    BY <1>0, <2>1, <2>2, <2>3
  <2>8. \A a \in 1 .. Len(slots') : slots'[a] \in Created \ untracked
    BY <1>0, <2>1, <2>3
  <2>. QED
    BY <1>0, <2>1, <2>2, <2>3, <2>5, <2>6, <2>7, <2>8
<1>2. CASE ~(i <= count)
  <2>1. slots' = slots /\ count' = count /\ astray' = astray \cup {cur}
    BY <1>2 DEF RemoveChild
  <2>2. Listed' = Listed
    BY <2>1 DEF Listed
  <2>. QED
    BY <1>0, <2>1, <2>2
<1>. QED
  BY <1>1, <1>2

\* The array's reference of the child is dropped, whichever entry goes.
LEMMA ChildSweep ==
    ASSUME ChildInv, Sweep
    PROVE  ChildInv'
<1>. USE DEF ChildInv
<1>1. /\ UNCHANGED <<wrote, next, mode, proc, wrapper, exited, cap, inCb, i, n,
                     told, untracked, cut>>
      /\ pc = "sweep" /\ pc' = "look" /\ cur' = None
      /\ RemoveChild /\ Unref(One(cur)) /\ Created' = Created
  BY DEF Sweep, At, Created
<1>2. /\ Holding /\ cur \in Created \ untracked /\ cur \in exited /\ cur \in Kids
      /\ Created \subseteq Kids
  BY <1>1, KidsFacts DEF Walk, Holding
<1>3. /\ One(cur) \in [Kids -> 0 .. 2]
      /\ \A x \in Kids : One(cur)[x] = IF x = cur THEN 1 ELSE 0
  BY DEF One
<1>4. \A x \in Created : /\ ArrayRef(x) \in 0 .. 1
                         /\ ArrayRef(x)' = (IF x = cur THEN 0 ELSE ArrayRef(x))
  BY <1>1, <1>2, KidsFacts DEF ArrayRef
<1>5. ArrayRef(cur) = 1
  BY DEF ArrayRef
<1>6. \A x \in Kids : One(cur)[x] <= ref[x] /\ (One(cur)[x] > 0 => x \in Created)
  BY <1>1, <1>2, <1>3, <1>5 DEF References
<1>7. /\ ref' \in [Kids -> 0 .. 2]
      /\ \A x \in Kids : ref'[x] = ref[x] - One(cur)[x]
      /\ freed' \subseteq Created
      /\ \A x \in Created : x \in freed' <=> ref'[x] = 0
  BY <1>1, <1>3, <1>6, UnrefFacts
<1>8. Output'
  BY <1>1, UnrefOutput
<1>9. References'
  <2>1. \A x \in Created :
           ref'[x] = ArrayRef(x)' + (IF x \in wrapper' THEN 1 ELSE 0)
    BY <1>1, <1>2, <1>3, <1>4, <1>5, <1>7 DEF References
  <2>. QED
    BY <1>1, <1>7, <2>1 DEF References
<1>10. Walk'
  BY <1>1 DEF Walk, Holding
<1>11. Entries'
  <2>1. /\ slots' \in Seq(Kids) /\ Len(slots') = Len(slots)
        /\ count' \in 0 .. Len(slots')
        /\ \A a \in 1 .. Len(slots') : slots'[a] \in Created \ untracked
        /\ \A a, b \in 1 .. count' : slots'[a] = slots'[b] => a = b
        /\ cur \in astray' \/ (Listed' = Listed \ {cur} /\ astray' = astray)
        /\ \A k \in Created \ astray' : k # cur =>
             k \notin astray /\ (k \in Listed' <=> k \in Listed)
        /\ astray' \subseteq Created
    BY <1>1, <1>2, RemoveChildFacts
  <2>2. \A k \in Created \ astray' :
           k \in Listed' \cup untracked <=> k \notin exited \/ k = cur'
    <3>1. SUFFICES ASSUME NEW k \in Created \ astray'
                   PROVE  k \in Listed' \cup untracked <=> k \notin exited \/ k = cur'
      OBVIOUS
    <3>2. k # cur'
      BY <1>1, KidsFacts
    <3>3. CASE k = cur
      BY <1>2, <2>1, <3>2, <3>3
    <3>4. CASE k # cur
      BY <1>1, <2>1, <3>2, <3>4 DEF Entries
    <3>. QED
      BY <3>3, <3>4
  <2>. QED
    BY <1>1, <2>1, <2>2 DEF Entries
<1>. QED
  BY <1>8, <1>9, <1>10, <1>11

-----------------------------------------------------------------------------
(* The end of the bridge                                                   *)

\* mini_native_destroy and the end of the runtime drop what is left.
LEMMA ChildDestroy ==
    ASSUME ChildInv, NEW held \in SUBSET Kids, Destroy(held)
    PROVE  ChildInv'
<1>. USE DEF ChildInv
<1>. DEFINE drop == [k \in Kids |-> Dropped(k, held)]
<1>1. /\ UNCHANGED <<wrote, next, mode, proc, exited, inCb, i, n, cur, told,
                     untracked, cut, astray>>
      /\ pc = "idle" /\ pc' = "gone" /\ count' = 0 /\ cap' = 0 /\ slots' = <<>>
      /\ held \subseteq wrapper /\ wrapper' = held /\ ~inCb
      /\ Unref(drop) /\ Created' = Created
      /\ \A k \in Kids : ~(Dropped(k, held) > ref[k])
  BY DEF Destroy, At, Created, walk, history, Overdrawn
<1>2. \A k \in Kids : /\ drop[k] = Dropped(k, held) /\ drop[k] \in 0 .. 2
                      /\ drop[k] > 0 => k \in Created
  <2>1. Listed \subseteq Created
    BY DEF Entries, Listed
  <2>2. wrapper \subseteq Created
    BY DEF References
  <2>. QED
    BY <2>1, <2>2 DEF Dropped
<1>. HIDE DEF drop
<1>3. drop \in [Kids -> 0 .. 2]
  <2>1. drop = [k \in Kids |-> drop[k]]
    BY DEF drop
  <2>. QED
    BY <1>2, <2>1
<1>4. \A k \in Kids : drop[k] <= ref[k] /\ (drop[k] > 0 => k \in Created)
  <2>1. \A k \in Kids : ref[k] \in 0 .. 2
    BY DEF References
  <2>. QED
    BY <1>1, <1>2, <2>1
<1>5. /\ ref' \in [Kids -> 0 .. 2]
      /\ \A x \in Kids : ref'[x] = ref[x] - drop[x]
      /\ freed' \subseteq Created
      /\ \A x \in Created : x \in freed' <=> ref'[x] = 0
  BY <1>1, <1>3, <1>4, UnrefFacts
<1>6. Output'
  BY <1>1, UnrefOutput
<1>7. References'
  BY <1>1, <1>5 DEF References
<1>8. Walk'
  BY <1>1 DEF Walk, Holding
<1>9. Entries'
  <2>1. <<>> \in Seq(Kids) /\ Len(<<>>) = 0
    OBVIOUS
  <2>2. \A k \in Created \ astray :
           ref'[k] = (IF k \in untracked THEN 1 ELSE 0) + (IF k \in held THEN 1 ELSE 0)
    <3>1. SUFFICES ASSUME NEW k \in Created \ astray
                   PROVE  ref'[k] = (IF k \in untracked THEN 1 ELSE 0)
                                      + (IF k \in held THEN 1 ELSE 0)
      OBVIOUS
    <3>2. k \in Kids /\ k # cur
      BY <1>1, KidsFacts DEF Walk, Holding
    <3>3. k \notin exited <=> k \in Listed \/ k \in untracked
      BY <1>1, <3>2 DEF Entries
    <3>4. ~(k \in Listed /\ k \in untracked)
      BY DEF Entries, Listed
    <3>5. ref[k] = (IF k \notin exited THEN 1 ELSE 0)
                     + (IF k \in wrapper THEN 1 ELSE 0)
      BY <1>1, <3>2 DEF References, ArrayRef
    <3>6. ref'[k] = ref[k] - ((IF k \in Listed THEN 1 ELSE 0)
                                + (IF k \in wrapper \ held THEN 1 ELSE 0))
      BY <1>2, <1>5, <3>2 DEF Dropped
    <3>. QED
      BY <1>1, <3>3, <3>4, <3>5, <3>6
  <2>3. n = 0 /\ untracked \cup astray \subseteq Created /\ untracked \cap exited = {}
    BY <1>1 DEF Walk, Entries
  <2>. QED
    BY <1>1, <2>1, <2>2, <2>3 DEF Entries
<1>. QED
  BY <1>6, <1>7, <1>8, <1>9

-----------------------------------------------------------------------------

\* ChildInv holds in every reachable state, whatever processes, scripts and the
\* allocator do.
THEOREM ChildInvariant == Spec => []ChildInv
<1>1. ChildInv /\ [Next]_vars => ChildInv'
  <2>. SUFFICES ASSUME ChildInv, [Next]_vars PROVE ChildInv'
    OBVIOUS
  <2>1. CASE Script
    BY <2>1, ChildStart, ChildFinalize, ChildPlain DEF Script
  <2>2. CASE CallbackReturns \/ DestroyFreed \/ UNCHANGED vars
    BY <2>2, ChildPlain
  <2>3. CASE PumpBegin
    BY <2>3, ChildWalk
  <2>4. CASE Pump
    BY <2>4, ChildLook, ChildWalk, ChildPlain, ChildPumpEnd, ChildSeesExit,
       ChildReport, ChildSweep DEF Pump
  <2>5. ASSUME NEW held \in SUBSET Kids, Destroy(held) PROVE ChildInv'
    BY <2>5, ChildDestroy
  <2>6. ASSUME NEW k \in Kids, Write(k) \/ Exit(k) \/ Reveal(k) PROVE ChildInv'
    BY <2>6, ChildWrite, ChildExit
  <2>. QED
    BY <2>1, <2>2, <2>3, <2>4, <2>5, <2>6 DEF Next
<1>. QED
  BY <1>1, ChildInit, PTL DEF Spec

\* The reference counts are exact: a child is freed with its last owner and never
\* under the pump, the ones astray excepted (bridge_pump_children,
\* js_cp_finalizer, mini_native_destroy).
THEOREM ChildrenOwnedCorrect == Spec => []ChildrenOwned
<1>1. ChildInv => ChildrenOwned
  <2>. SUFFICES ASSUME ChildInv PROVE ChildrenOwned
    OBVIOUS
  <2>. USE DEF ChildInv
  <2>1. TypeOK
    <3>1. \A k \in Kids : {pipe[k], len[k], fired[k]} \subseteq 0 .. MaxOut
      BY ChildAssumption DEF Output
    <3>2. cur \in Kids \cup {None}
      BY KidsFacts DEF Walk
    <3>. QED
      BY <3>1, <3>2 DEF TypeOK, Output, References, Walk, Entries
  <2>2. cur # None => cur \notin freed
    <3>1. SUFFICES ASSUME cur # None PROVE cur \notin freed
      OBVIOUS
    <3>2. Holding /\ cur \in Created /\ pc # "gone"
      BY <3>1 DEF Walk, Holding
    <3>3. ArrayRef(cur) = 1
      BY DEF ArrayRef
    <3>. QED
      BY <3>2, <3>3 DEF References
  <2>3. \A k \in Created \ astray :
          /\ k \in freed <=> ref[k] = 0
          /\ ref[k] = (IF k \in Listed \/ k \in untracked THEN 1 ELSE 0)
                        + (IF k \in wrapper THEN 1 ELSE 0)
    <3>1. CASE pc # "gone"
      BY <3>1 DEF References, Entries, ArrayRef
    <3>2. CASE pc = "gone"
      <4>1. Listed = {}
        BY <3>2 DEF Entries, Listed
      <4>. QED
        BY <3>2, <4>1 DEF References, Entries
    <3>. QED
      BY <3>1, <3>2
  <2>4. pc = "gone" => Created \ freed \subseteq untracked \cup wrapper \cup astray
    <3>1. SUFFICES ASSUME pc = "gone", NEW k \in Created \ astray, k \notin freed
                   PROVE  k \in untracked \cup wrapper
      OBVIOUS
    <3>2. ref[k] # 0
      BY <3>1 DEF References
    <3>. QED
      BY <3>1, <3>2 DEF Entries
  <2>. QED
    BY <2>1, <2>2, <2>3, <2>4 DEF ChildrenOwned, Entries
<1>. QED
  BY <1>1, ChildInvariant, PTL

\* The end of a child is reported once, after all its output
\* (bridge_pump_children, cp_drain, cp_fire_data).
THEOREM EndIsLastCorrect == Spec => []EndIsLast
<1>1. ChildInv => EndIsLast
  BY DEF ChildInv, Output, EndIsLast
<1>. QED
  BY <1>1, ChildInvariant, PTL
=============================================================================
