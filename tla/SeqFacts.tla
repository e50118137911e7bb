------------------------------ MODULE SeqFacts ------------------------------
(***************************************************************************)
(* Facts about the arrays and stacks of the program, modelled as sequences:  *)
(* what appending, popping the end and consuming the head do to the set of  *)
(* elements and to their being pairwise different, what closing an array up  *)
(* keeps, and that a search from the front finds a first match.             *)
(***************************************************************************)
EXTENDS Integers, Sequences, SequencesExt, ArrayOps, SequenceTheorems,
        WellFoundedInduction, TLAPS

\* Appending an element adds exactly it.
LEMMA AppendFacts ==
    ASSUME NEW S, NEW s \in Seq(S), NEW e \in S
    PROVE  /\ Append(s, e) \in Seq(S)
           /\ Append(s, e) # <<>>
           /\ ToSet(Append(s, e)) = ToSet(s) \cup {e}
           /\ IsInjective(s) /\ e \notin ToSet(s) => IsInjective(Append(s, e))
<1>1. Append(s, e) \in Seq(S) /\ Append(s, e) # <<>>
  <2>1. Append(s, e) \in Seq(S) /\ Len(Append(s, e)) = Len(s) + 1
    OBVIOUS
  <2>2. Len(s) \in Nat /\ Len(<<>>) = 0
    OBVIOUS
  <2>. QED
    BY <2>1, <2>2
<1>2. ToSet(Append(s, e)) = ToSet(s) \cup {e}
  <2>1. \A x : x \in ToSet(Append(s, e)) => x \in ToSet(s) \cup {e}
    BY DEF ToSet
  <2>2. \A x \in ToSet(s) : x \in ToSet(Append(s, e))
    BY DEF ToSet
  <2>3. Append(s, e)[Len(s) + 1] = e /\ Len(s) + 1 \in DOMAIN Append(s, e)
    OBVIOUS
  <2>4. e \in ToSet(Append(s, e))
    BY <2>3 DEF ToSet
  <2>. QED
    BY <2>1, <2>2, <2>4
<1>3. ASSUME IsInjective(s), e \notin ToSet(s)
      PROVE  IsInjective(Append(s, e))
  BY <1>3 DEF IsInjective, ToSet
<1>. QED
  BY <1>1, <1>2, <1>3

\* A prefix of a sequence.
LEMMA PrefixFacts ==
    ASSUME NEW S, NEW s \in Seq(S), NEW n \in Nat, n <= Len(s)
    PROVE  /\ SubSeq(s, 1, n) \in Seq(S)
           /\ Len(SubSeq(s, 1, n)) = n
           /\ \A i \in 1..n : SubSeq(s, 1, n)[i] = s[i]
<1>1. SubSeq(s, 1, n) \in Seq(S)
  OBVIOUS
<1>2. Len(SubSeq(s, 1, n)) = n
  OBVIOUS
<1>3. \A i \in 1..n : SubSeq(s, 1, n)[i] = s[i]
  OBVIOUS
<1>. QED
  BY <1>1, <1>2, <1>3

\* Popping the end of a stack removes exactly its top.
LEMMA FrontFacts ==
    ASSUME NEW S, NEW s \in Seq(S), s # <<>>
    PROVE  /\ Front(s) \in Seq(S)
           /\ Last(s) \in S
           /\ ToSet(s) = ToSet(Front(s)) \cup {Last(s)}
           /\ IsInjective(s) => IsInjective(Front(s)) /\ Last(s) \notin ToSet(Front(s))
<1>1. Len(s) \in Nat \ {0}
  OBVIOUS
<1>2. /\ Front(s) \in Seq(S) /\ Len(Front(s)) = Len(s) - 1
      /\ \A i \in 1..(Len(s) - 1) : Front(s)[i] = s[i]
  <2>1. Len(s) - 1 \in Nat /\ Len(s) - 1 <= Len(s)
    BY <1>1
  <2>. QED
    BY <2>1, PrefixFacts DEF Front
<1>3. Last(s) = s[Len(s)] /\ Last(s) \in S
  BY <1>1 DEF Last
<1>4. ToSet(s) = ToSet(Front(s)) \cup {Last(s)}
  <2>1. \A x \in ToSet(s) : x \in ToSet(Front(s)) \cup {Last(s)}
    <3>1. SUFFICES ASSUME NEW i \in 1..Len(s)
                   PROVE  s[i] \in ToSet(Front(s)) \cup {Last(s)}
      BY DEF ToSet
    <3>2. CASE i = Len(s)
      BY <3>2, <1>3
    <3>3. CASE i # Len(s)
      BY <3>3, <1>1, <1>2 DEF ToSet
    <3>. QED
      BY <3>2, <3>3
  <2>2. \A x \in ToSet(Front(s)) : x \in ToSet(s)
    BY <1>1, <1>2 DEF ToSet
  <2>3. Last(s) \in ToSet(s)
    BY <1>1, <1>3 DEF ToSet
  <2>. QED
    BY <2>1, <2>2, <2>3
<1>5. ASSUME IsInjective(s)
      PROVE  IsInjective(Front(s)) /\ Last(s) \notin ToSet(Front(s))
  BY <1>1, <1>2, <1>3, <1>5 DEF IsInjective, ToSet
<1>. QED
  BY <1>2, <1>3, <1>4, <1>5

\* Consuming the head of the batch removes exactly it.
LEMMA TailFacts ==
    ASSUME NEW S, NEW s \in Seq(S), s # <<>>
    PROVE  /\ Tail(s) \in Seq(S)
           /\ Head(s) \in S
           /\ ToSet(s) = ToSet(Tail(s)) \cup {Head(s)}
           /\ IsInjective(s) => IsInjective(Tail(s)) /\ Head(s) \notin ToSet(Tail(s))
<1>1. Len(s) \in Nat \ {0}
  OBVIOUS
<1>2. /\ Tail(s) \in Seq(S) /\ Len(Tail(s)) = Len(s) - 1
      /\ \A i \in 1..(Len(s) - 1) : Tail(s)[i] = s[i + 1]
  BY <1>1
<1>3. Head(s) = s[1] /\ Head(s) \in S
  BY <1>1
<1>4. ToSet(s) = ToSet(Tail(s)) \cup {Head(s)}
  <2>1. \A x \in ToSet(s) : x \in ToSet(Tail(s)) \cup {Head(s)}
    <3>1. SUFFICES ASSUME NEW i \in 1..Len(s)
                   PROVE  s[i] \in ToSet(Tail(s)) \cup {Head(s)}
      BY DEF ToSet
    <3>2. CASE i = 1
      BY <3>2, <1>3
    <3>3. CASE i # 1
      <4>1. i - 1 \in 1..(Len(s) - 1) /\ Tail(s)[i - 1] = s[i]
        BY <3>3, <1>1, <1>2
      <4>2. i - 1 \in DOMAIN Tail(s)
        BY <4>1, <1>2
      <4>. QED
        BY <4>1, <4>2 DEF ToSet
    <3>. QED
      BY <3>2, <3>3
  <2>2. \A x \in ToSet(Tail(s)) : x \in ToSet(s)
    BY <1>1, <1>2 DEF ToSet
  <2>3. Head(s) \in ToSet(s)
    BY <1>1, <1>3 DEF ToSet
  <2>. QED
    BY <2>1, <2>2, <2>3
<1>5. ASSUME IsInjective(s)
      PROVE  IsInjective(Tail(s)) /\ Head(s) \notin ToSet(Tail(s))
  BY <1>1, <1>2, <1>3, <1>5 DEF IsInjective, ToSet
<1>. QED
  BY <1>2, <1>3, <1>4, <1>5

\* The empty sequence has no elements.
LEMMA EmptyFacts ==
    ASSUME NEW S
    PROVE  <<>> \in Seq(S) /\ ToSet(<<>>) = {} /\ IsInjective(<<>>)
BY DEF ToSet, IsInjective

\* Closing the hole at an index keeps the order of the rest.
LEMMA RemoveAtFacts ==
    ASSUME NEW S, NEW s \in Seq(S), NEW i \in 1 .. Len(s)
    PROVE  /\ RemoveAt(s, i) \in Seq(S) /\ Len(RemoveAt(s, i)) = Len(s) - 1
           /\ \A a \in 1 .. Len(s) - 1 :
                RemoveAt(s, i)[a] = IF a < i THEN s[a] ELSE s[a + 1]
           /\ IsInjective(s) => /\ IsInjective(RemoveAt(s, i))
                                /\ ToSet(RemoveAt(s, i)) = ToSet(s) \ {s[i]}
<1>. DEFINE u == SubSeq(s, 1, i - 1)
            v == SubSeq(s, i + 1, Len(s))
            r == RemoveAt(s, i)
<1>0. i \in Nat \ {0} /\ Len(s) \in Nat /\ i <= Len(s)
  OBVIOUS
<1>1. u \in Seq(S) /\ Len(u) = i - 1 /\ \A a \in 1 .. i - 1 : u[a] = s[a]
  <2>1. i - 1 \in Nat /\ i - 1 <= Len(s)
    BY <1>0
  <2>. QED
    BY <2>1, PrefixFacts
<1>2. /\ v \in Seq(S) /\ Len(v) = Len(s) - i
      /\ \A a \in 1 .. Len(s) - i : v[a] = s[i + a]
  <2>1. v \in Seq(S)
    BY <1>0
  <2>2. Len(v) = Len(s) - i
    BY <1>0
  <2>3. \A a \in 1 .. Len(s) - i : v[a] = s[i + a]
    BY <1>0
  <2>. QED
    BY <2>1, <2>2, <2>3
<1>. HIDE DEF u, v
<1>3. /\ u \o v \in Seq(S) /\ Len(u \o v) = Len(u) + Len(v)
      /\ \A a \in 1 .. Len(u) + Len(v) :
           (u \o v)[a] = IF a <= Len(u) THEN u[a] ELSE v[a - Len(u)]
  BY <1>1, <1>2, ConcatProperties
<1>4. r = u \o v
  BY DEF RemoveAt, u, v
<1>. HIDE DEF r
<1>5. /\ r \in Seq(S) /\ Len(r) = Len(s) - 1
      /\ \A a \in 1 .. Len(s) - 1 : r[a] = IF a < i THEN s[a] ELSE s[a + 1]
  <2>1. r \in Seq(S) /\ Len(r) = Len(s) - 1
    <3>1. (i - 1) + (Len(s) - i) = Len(s) - 1
      BY <1>0
    <3>2. Len(u) + Len(v) = Len(s) - 1
      BY <1>1, <1>2, <3>1
    <3>3. Len(u \o v) = Len(s) - 1
      BY <1>3, <3>2
    <3>. QED
      BY <1>3, <1>4, <3>3
  <2>2. ASSUME NEW a \in 1 .. Len(s) - 1
        PROVE  r[a] = IF a < i THEN s[a] ELSE s[a + 1]
    <3>1. a \in 1 .. Len(u) + Len(v)
      BY <1>0, <1>1, <1>2
    <3>2. CASE a < i
      <4>1. a \in 1 .. i - 1 /\ a <= Len(u)
        BY <1>0, <1>1, <3>2
      <4>. QED
        BY <1>1, <1>3, <1>4, <3>1, <3>2, <4>1
    <3>3. CASE ~(a < i)
      <4>1. /\ a - Len(u) \in 1 .. Len(s) - i /\ ~(a <= Len(u))
            /\ i + (a - Len(u)) = a + 1
        BY <1>0, <1>1, <3>3
      <4>2. v[a - Len(u)] = s[a + 1]
        BY <1>2, <4>1
      <4>. QED
        BY <1>3, <1>4, <3>1, <3>3, <4>1, <4>2
    <3>. QED
      BY <3>2, <3>3
  <2>. QED
    BY <2>1, <2>2
<1>6. ASSUME IsInjective(s)
      PROVE  IsInjective(r) /\ ToSet(r) = ToSet(s) \ {s[i]}
  <2>1. \A a, b \in 1 .. Len(s) : s[a] = s[b] => a = b
    BY <1>6 DEF IsInjective
  <2>2. \A a \in 1 .. Len(s) - 1 : IF a < i THEN a \in 1 .. Len(s) ELSE a + 1 \in 1 .. Len(s)
    BY <1>0
  <2>3. \A a, b \in 1 .. Len(s) - 1 : r[a] = r[b] => a = b
    BY <1>0, <1>5, <2>1, <2>2
  <2>4. IsInjective(r)
    BY <1>5, <2>3 DEF IsInjective
  <2>5. \A x \in ToSet(r) : x \in ToSet(s) /\ x # s[i]
    <3>1. SUFFICES ASSUME NEW a \in 1 .. Len(s) - 1
                   PROVE  r[a] \in ToSet(s) /\ r[a] # s[i]
      BY <1>5 DEF ToSet
    <3>. QED
      BY <1>0, <1>5, <2>1, <2>2 DEF ToSet
  <2>6. \A x \in ToSet(s) : x # s[i] => x \in ToSet(r)
    <3>1. SUFFICES ASSUME NEW a \in 1 .. Len(s), a # i
                   PROVE  \E b \in 1 .. Len(s) - 1 : r[b] = s[a]
      BY <1>5 DEF ToSet
    <3>2. CASE a < i
      BY <1>0, <1>5, <3>2
    <3>3. CASE a > i
      <4>1. a - 1 \in 1 .. Len(s) - 1 /\ ~(a - 1 < i) /\ (a - 1) + 1 = a
        BY <1>0, <3>3
      <4>. QED
        BY <1>5, <4>1
    <3>. QED
      BY <1>0, <3>1, <3>2, <3>3
  <2>. QED
    BY <2>4, <2>5, <2>6
<1>. QED
  BY <1>5, <1>6 DEF r

\* A set of naturals with an element has a least one: what a search of an
\* array from its front finds, and induction over the naturals as a single
\* first-order fact.
LEMMA LeastNat ==
    ASSUME NEW T, T \subseteq Nat, T # {}
    PROVE  \E x \in T : \A y \in T : x <= y
<1>. DEFINE R == OpToRel(<, Nat)
<1>1. IsWellFoundedOn(R, Nat)
  BY NatLessThanWellFounded, Zenon
<1>2. \A a, b \in Nat : a < b => <<a, b>> \in R
  BY DEF OpToRel
<1>. HIDE DEF R
<1>3. PICK x \in T : \A y \in T : ~(<<y, x>> \in R)
  BY <1>1, WFMin
<1>4. \A y \in T : ~(y < x)
  BY <1>2, <1>3
<1>. QED
  BY <1>4

-----------------------------------------------------------------------------
(* A loop that walks lo + 1 .. hi and collects v[n] for the n in P, written  *)
(* in the modules as a recursive function: what a walk over nothing, over    *)
(* one more place, over places that agree and over two ranges collects.      *)
(* A least counterexample takes the place of induction.                      *)

\* f holds what the loop has collected after each place.
Collects(f, lo, hi, P, v) ==
    f = [n \in lo .. hi |-> IF n = lo THEN <<>>
                            ELSE IF n \in P THEN Append(f[n - 1], v[n])
                            ELSE f[n - 1]]

Collected(lo, hi, P, v) == (CHOOSE f : Collects(f, lo, hi, P, v))[hi]

\* The loop can always go one place further.
LEMMA CollectsMore ==
    ASSUME NEW lo \in Nat, NEW hi \in Nat, lo < hi, NEW P, NEW v, NEW f,
           Collects(f, lo, hi - 1, P, v)
    PROVE  \E g : Collects(g, lo, hi, P, v)
<1>. DEFINE last == IF hi \in P THEN Append(f[hi - 1], v[hi]) ELSE f[hi - 1]
            g == [n \in lo .. hi |-> IF n = hi THEN last ELSE f[n]]
<1>1. hi - 1 \in lo .. hi - 1 /\ hi \in lo .. hi /\ hi # lo
  OBVIOUS
<1>2. \A n \in lo .. hi : n = hi \/ (n \in lo .. hi - 1 /\ n # hi)
  OBVIOUS
<1>3. \A n \in lo .. hi - 1 : n = lo \/ (n - 1 \in lo .. hi - 1 /\ n \in lo .. hi /\ n # hi)
  OBVIOUS
<1>. HIDE DEF last
<1>4. /\ g = [n \in lo .. hi |-> g[n]]
      /\ g[hi] = last /\ \A n \in lo .. hi - 1 : g[n] = f[n]
  BY <1>1
<1>. HIDE DEF g
<1>5. ASSUME NEW n \in lo .. hi
      PROVE  g[n] = IF n = lo THEN <<>>
                    ELSE IF n \in P THEN Append(g[n - 1], v[n]) ELSE g[n - 1]
  <2>1. CASE n = hi
    BY <2>1, <1>1, <1>4 DEF last
  <2>2. CASE n \in lo .. hi - 1
    <3>1. f[n] = IF n = lo THEN <<>> ELSE IF n \in P THEN Append(f[n - 1], v[n]) ELSE f[n - 1]
      BY <2>2 DEF Collects
    <3>. QED
      BY <2>2, <3>1, <1>3, <1>4
  <2>. QED
    BY <2>1, <2>2, <1>2
<1>6. Collects(g, lo, hi, P, v)
  BY <1>4, <1>5 DEF Collects
<1>. QED
  BY <1>4, <1>6 DEF last

\* Every run of the loop has a result.
LEMMA CollectsExists ==
    ASSUME NEW lo \in Nat, NEW P, NEW v
    PROVE  \A hi \in Nat : lo <= hi => \E f : Collects(f, lo, hi, P, v)
<1>. DEFINE T == {hi \in Nat : lo <= hi /\ ~ \E f : Collects(f, lo, hi, P, v)}
<1>1. SUFFICES ASSUME T # {} PROVE FALSE
  OBVIOUS
<1>2. PICK n \in T : \A m \in T : n <= m
  BY <1>1, LeastNat
<1>3. n \in Nat /\ lo <= n /\ ~ \E f : Collects(f, lo, n, P, v)
  OBVIOUS
<1>4. CASE n = lo
  <2>1. Collects([i \in lo .. lo |-> <<>>], lo, lo, P, v)
    BY DEF Collects
  <2>. QED
    BY <2>1, <1>3, <1>4
<1>5. CASE n # lo
  <2>1. n - 1 \in Nat /\ lo <= n - 1 /\ ~(n <= n - 1) /\ lo < n
    BY <1>3, <1>5
  <2>2. PICK f : Collects(f, lo, n - 1, P, v)
    BY <2>1, <1>2
  <2>. QED
    BY <2>1, <2>2, <1>3, CollectsMore
<1>. QED
  BY <1>4, <1>5

\* Loops that agree on what they look at collect the same.
LEMMA CollectsAgree ==
    ASSUME NEW lo \in Nat, NEW hi \in Nat, lo <= hi, NEW P, NEW v, NEW Q, NEW w,
           NEW f, NEW g, Collects(f, lo, hi, P, v), Collects(g, lo, hi, Q, w),
           \A n \in lo + 1 .. hi : (n \in P <=> n \in Q) /\ (n \in P => v[n] = w[n])
    PROVE  f = g
<1>. DEFINE T == {n \in lo .. hi : f[n] # g[n]}
<1>1. /\ f = [n \in lo .. hi |-> f[n]] /\ g = [n \in lo .. hi |-> g[n]]
  BY DEF Collects
<1>2. SUFFICES ASSUME T # {} PROVE FALSE
  BY <1>1
<1>3. T \subseteq Nat
  OBVIOUS
<1>4. PICK n \in T : \A m \in T : n <= m
  BY <1>2, <1>3, LeastNat
<1>5. n \in lo .. hi /\ f[n] # g[n]
  OBVIOUS
<1>6. CASE n = lo
  <2>1. f[lo] = <<>> /\ g[lo] = <<>>
    BY DEF Collects
  <2>. QED
    BY <2>1, <1>5, <1>6
<1>7. CASE n # lo
  <2>1. n - 1 \in lo .. hi /\ ~(n <= n - 1) /\ n \in lo + 1 .. hi
    BY <1>5, <1>7
  <2>2. f[n - 1] = g[n - 1]
    BY <2>1, <1>4
  <2>3. /\ f[n] = IF n \in P THEN Append(f[n - 1], v[n]) ELSE f[n - 1]
        /\ g[n] = IF n \in Q THEN Append(g[n - 1], w[n]) ELSE g[n - 1]
    BY <1>5, <1>7 DEF Collects
  <2>. QED
    BY <2>1, <2>2, <2>3, <1>5
<1>. QED
  BY <1>6, <1>7

\* Whatever satisfies the loop's equation holds what it collects.
LEMMA CollectedIs ==
    ASSUME NEW lo \in Nat, NEW hi \in Nat, lo <= hi, NEW P, NEW v, NEW f,
           Collects(f, lo, hi, P, v)
    PROVE  Collected(lo, hi, P, v) = f[hi]
<1>1. Collects((CHOOSE g : Collects(g, lo, hi, P, v)), lo, hi, P, v)
  OBVIOUS
<1>2. (CHOOSE g : Collects(g, lo, hi, P, v)) = f
  BY <1>1, CollectsAgree
<1>. QED
  BY <1>2 DEF Collected

\* Over no places the loop collects nothing.
LEMMA CollectedNone ==
    ASSUME NEW lo \in Nat, NEW P, NEW v
    PROVE  Collected(lo, lo, P, v) = <<>>
<1>1. Collects([i \in lo .. lo |-> <<>>], lo, lo, P, v)
  BY DEF Collects
<1>2. Collected(lo, lo, P, v) = [i \in lo .. lo |-> <<>>][lo]
  BY <1>1, CollectedIs
<1>. QED
  BY <1>2

\* What the last turn of the loop does.
LEMMA CollectedLast ==
    ASSUME NEW lo \in Nat, NEW hi \in Nat, lo < hi, NEW P, NEW v
    PROVE  Collected(lo, hi, P, v) = IF hi \in P THEN Append(Collected(lo, hi - 1, P, v), v[hi])
                                     ELSE Collected(lo, hi - 1, P, v)
<1>1. hi - 1 \in Nat /\ lo <= hi - 1 /\ lo <= hi
  OBVIOUS
<1>2. PICK g : Collects(g, lo, hi, P, v)
  BY <1>1, CollectsExists
<1>. DEFINE f == [n \in lo .. hi - 1 |-> g[n]]
<1>3. \A n \in lo .. hi - 1 : n \in lo .. hi /\ (n = lo \/ n - 1 \in lo .. hi - 1)
  OBVIOUS
<1>4. \A n \in lo .. hi : g[n] = IF n = lo THEN <<>>
                                 ELSE IF n \in P THEN Append(g[n - 1], v[n]) ELSE g[n - 1]
  BY <1>2 DEF Collects
<1>5. ASSUME NEW n \in lo .. hi - 1
      PROVE  g[n] = IF n = lo THEN <<>>
                    ELSE IF n \in P THEN Append(f[n - 1], v[n]) ELSE f[n - 1]
  <2>1. CASE n = lo
    BY <2>1, <1>3, <1>4
  <2>2. CASE n # lo
    <3>1. f[n - 1] = g[n - 1] /\ n \in lo .. hi
      BY <2>2, <1>3
    <3>. QED
      BY <2>2, <3>1, <1>4
  <2>. QED
    BY <2>1, <2>2
<1>6. Collects(f, lo, hi - 1, P, v)
  BY <1>5 DEF Collects
<1>7. Collected(lo, hi - 1, P, v) = f[hi - 1] /\ f[hi - 1] = g[hi - 1]
  <2>1. hi - 1 \in lo .. hi - 1
    OBVIOUS
  <2>2. f[hi - 1] = g[hi - 1]
    BY <2>1
  <2>. HIDE DEF f
  <2>. QED
    BY <1>1, <1>6, <2>2, CollectedIs
<1>8. Collected(lo, hi, P, v) = g[hi]
  BY <1>1, <1>2, CollectedIs
<1>9. g[hi] = IF hi \in P THEN Append(g[hi - 1], v[hi]) ELSE g[hi - 1]
  <2>1. hi \in lo .. hi /\ hi # lo
    OBVIOUS
  <2>. QED
    BY <2>1, <1>4
<1>. QED
  BY <1>7, <1>8, <1>9

\* The loop depends only on the places it visits and on what is there.
LEMMA CollectedAgree ==
    ASSUME NEW lo \in Nat, NEW hi \in Nat, lo <= hi, NEW P, NEW v, NEW Q, NEW w,
           \A n \in lo + 1 .. hi : (n \in P <=> n \in Q) /\ (n \in P => v[n] = w[n])
    PROVE  Collected(lo, hi, P, v) = Collected(lo, hi, Q, w)
<1>1. PICK f : Collects(f, lo, hi, P, v)
  BY CollectsExists
<1>2. PICK g : Collects(g, lo, hi, Q, w)
  BY CollectsExists
<1>3. f = g
  BY <1>1, <1>2, CollectsAgree
<1>4. Collected(lo, hi, P, v) = f[hi] /\ Collected(lo, hi, Q, w) = g[hi]
  BY <1>1, <1>2, CollectedIs
<1>. QED
  BY <1>3, <1>4

\* What is collected is a sequence of the values collected.
LEMMA CollectedType ==
    ASSUME NEW lo \in Nat, NEW P, NEW v, NEW S, NEW top \in Nat,
           \A n \in lo + 1 .. top : n \in P => v[n] \in S
    PROVE  \A hi \in lo .. top : Collected(lo, hi, P, v) \in Seq(S)
<1>. DEFINE T == {hi \in lo .. top : Collected(lo, hi, P, v) \notin Seq(S)}
<1>1. SUFFICES ASSUME T # {} PROVE FALSE
  OBVIOUS
<1>2. T \subseteq Nat
  OBVIOUS
<1>3. PICK n \in T : \A m \in T : n <= m
  BY <1>1, <1>2, LeastNat
<1>4. n \in lo .. top /\ Collected(lo, n, P, v) \notin Seq(S)
  OBVIOUS
<1>5. CASE n = lo
  <2>1. Collected(lo, n, P, v) = <<>> /\ <<>> \in Seq(S)
    BY <1>5, CollectedNone
  <2>. QED
    BY <2>1, <1>4
<1>6. CASE n # lo
  <2>1. n - 1 \in lo .. top /\ ~(n <= n - 1) /\ n \in lo + 1 .. top /\ lo < n /\ n \in Nat
    BY <1>4, <1>6
  <2>. DEFINE w == Collected(lo, n - 1, P, v)
  <2>2. w \in Seq(S)
    BY <2>1, <1>3
  <2>3. Collected(lo, n, P, v) = IF n \in P THEN Append(w, v[n]) ELSE w
    BY <2>1, CollectedLast
  <2>. HIDE DEF w
  <2>4. n \in P => Append(w, v[n]) \in Seq(S)
    BY <2>1, <2>2
  <2>. QED
    BY <2>2, <2>3, <2>4, <1>4
<1>. QED
  BY <1>5, <1>6

\* c is a followed by b.
Joins(a, b, c) ==
    /\ Len(c) = Len(a) + Len(b)
    /\ \A i \in 1 .. Len(a) : c[i] = a[i]
    /\ \A i \in 1 .. Len(b) : c[Len(a) + i] = b[i]

\* Joining goes on at the end of the second part.
LEMMA JoinsAppend ==
    ASSUME NEW S, NEW a \in Seq(S), NEW b \in Seq(S), NEW c \in Seq(S), NEW e \in S,
           Joins(a, b, c)
    PROVE  Joins(a, Append(b, e), Append(c, e))
<1>. DEFINE d == Append(b, e)
            f == Append(c, e)
<1>0. Len(a) \in Nat /\ Len(b) \in Nat /\ Len(c) = Len(a) + Len(b)
  BY DEF Joins
<1>1. /\ d \in Seq(S) /\ Len(d) = Len(b) + 1 /\ d[Len(b) + 1] = e
      /\ \A i \in 1 .. Len(b) : d[i] = b[i]
  BY AppendProperties
<1>2. /\ f \in Seq(S) /\ Len(f) = Len(c) + 1 /\ f[Len(c) + 1] = e
      /\ \A i \in 1 .. Len(c) : f[i] = c[i]
  BY AppendProperties
<1>. HIDE DEF d, f
<1>3. Len(f) = Len(a) + Len(d)
  BY <1>0, <1>1, <1>2
<1>4. ASSUME NEW i \in 1 .. Len(a) PROVE f[i] = a[i]
  <2>1. i \in 1 .. Len(c)
    BY <1>0
  <2>. QED
    BY <2>1, <1>2 DEF Joins
<1>5. ASSUME NEW i \in 1 .. Len(d) PROVE f[Len(a) + i] = d[i]
  <2>1. CASE i = Len(b) + 1
    <3>1. Len(a) + i = Len(c) + 1
      BY <1>0, <2>1
    <3>. QED
      BY <3>1, <2>1, <1>1, <1>2
  <2>2. CASE i # Len(b) + 1
    <3>1. i \in 1 .. Len(b) /\ Len(a) + i \in 1 .. Len(c)
      BY <1>0, <1>1, <2>2
    <3>2. f[Len(a) + i] = c[Len(a) + i] /\ c[Len(a) + i] = b[i] /\ d[i] = b[i]
      BY <3>1, <1>1, <1>2 DEF Joins
    <3>. QED
      BY <3>2
  <2>. QED
    BY <2>1, <2>2
<1>. QED
  BY <1>3, <1>4, <1>5 DEF Joins, d, f

\* A range is walked in two parts.
LEMMA CollectedSplit ==
    ASSUME NEW lo \in Nat, NEW mid \in Nat, lo <= mid, NEW P, NEW v, NEW S, NEW top \in Nat,
           \A n \in lo + 1 .. top : n \in P => v[n] \in S
    PROVE  \A hi \in mid .. top :
              Joins(Collected(lo, mid, P, v), Collected(mid, hi, P, v), Collected(lo, hi, P, v))
<1>. DEFINE Good(hi) == Joins(Collected(lo, mid, P, v), Collected(mid, hi, P, v), Collected(lo, hi, P, v))
            T == {hi \in mid .. top : ~Good(hi)}
<1>1. SUFFICES ASSUME T # {} PROVE FALSE
  OBVIOUS
<1>a. T \subseteq Nat
  OBVIOUS
<1>2. PICK n \in T : \A m \in T : n <= m
  BY <1>1, <1>a, LeastNat
<1>3. n \in mid .. top /\ ~Good(n)
  OBVIOUS
<1>. DEFINE a == Collected(lo, mid, P, v)
<1>4. a \in Seq(S)
  <2>1. mid \in lo .. top
    BY <1>3
  <2>. QED
    BY <2>1, CollectedType
<1>5. CASE n = mid
  <2>1. Collected(mid, n, P, v) = <<>>
    BY <1>5, CollectedNone
  <2>2. Joins(a, <<>>, a)
    BY <1>4 DEF Joins
  <2>. QED
    BY <2>1, <2>2, <1>3, <1>5
<1>6. CASE n # mid
  <2>1. /\ n - 1 \in mid .. top /\ n - 1 \in lo .. top /\ ~(n <= n - 1) /\ n \in lo + 1 .. top
        /\ lo < n /\ mid < n /\ n \in Nat
    BY <1>3, <1>6
  <2>. DEFINE b == Collected(mid, n - 1, P, v)
              c == Collected(lo, n - 1, P, v)
  <2>2. Joins(a, b, c)
    BY <2>1, <1>2
  <2>3. /\ Collected(lo, n, P, v) = IF n \in P THEN Append(c, v[n]) ELSE c
        /\ Collected(mid, n, P, v) = IF n \in P THEN Append(b, v[n]) ELSE b
    BY <2>1, CollectedLast
  <2>4. b \in Seq(S) /\ c \in Seq(S)
    <3>1. \A m \in mid + 1 .. top : m \in P => v[m] \in S
      OBVIOUS
    <3>. QED
      BY <2>1, <3>1, CollectedType
  <2>. HIDE DEF a, b, c
  <2>5. n \in P => Joins(a, Append(b, v[n]), Append(c, v[n]))
    BY <1>4, <2>1, <2>2, <2>4, JoinsAppend
  <2>. QED
    BY <2>2, <2>3, <2>5, <1>3 DEF a
<1>. QED
  BY <1>5, <1>6

\* The second of two joined sequences is the end of the whole; an empty first
\* one leaves the second, and one entry is the head.
LEMMA JoinsEnd ==
    ASSUME NEW S, NEW a \in Seq(S), NEW b \in Seq(S), NEW c \in Seq(S), Joins(a, b, c)
    PROVE  /\ Len(a) + 1 \in 1 .. Len(c) + 1 /\ b = SubSeq(c, Len(a) + 1, Len(c))
           /\ Len(a) = 0 => b = c
           /\ Len(a) = 1 => c # <<>> /\ Head(c) = a[1] /\ Tail(c) = b
<1>0. Len(a) \in Nat /\ Len(b) \in Nat /\ Len(c) = Len(a) + Len(b)
  BY DEF Joins
<1>1. Len(a) + 1 \in 1 .. Len(c) + 1
  BY <1>0
<1>. DEFINE d == SubSeq(c, Len(a) + 1, Len(c))
<1>2. d \in Seq(S) /\ Len(d) = Len(b)
  BY <1>0
<1>3. \A i \in 1 .. Len(b) : d[i] = c[Len(a) + i]
  BY <1>0
<1>4. \A i \in 1 .. Len(b) : c[Len(a) + i] = b[i]
  BY DEF Joins
<1>. HIDE DEF d
<1>5. d = b
  BY <1>2, <1>3, <1>4
<1>6. Len(a) = 0 => b = c
  <2>1. SUFFICES ASSUME Len(a) = 0 PROVE b = c
    OBVIOUS
  <2>2. \A i \in 1 .. Len(b) : Len(a) + i = i
    BY <1>0, <2>1
  <2>3. Len(c) = Len(b) /\ \A i \in 1 .. Len(b) : c[i] = b[i]
    BY <1>0, <1>4, <2>1, <2>2
  <2>. QED
    BY <2>3
<1>7. Len(a) = 1 => c # <<>> /\ Head(c) = a[1] /\ Tail(c) = b
  <2>1. SUFFICES ASSUME Len(a) = 1 PROVE c # <<>> /\ Head(c) = a[1] /\ Tail(c) = b
    OBVIOUS
  <2>2. Len(c) = 1 + Len(b) /\ Len(c) # 0
    BY <1>0, <2>1
  <2>3. c # <<>>
    BY <2>2
  <2>4. 1 \in 1 .. Len(a) /\ Head(c) = c[1]
    BY <2>1
  <2>5. Head(c) = a[1]
    BY <2>4 DEF Joins
  <2>6. Tail(c) \in Seq(S) /\ Len(Tail(c)) = Len(b) /\ \A i \in 1 .. Len(b) : Tail(c)[i] = c[1 + i]
    BY <1>0, <2>2
  <2>7. \A i \in 1 .. Len(b) : Tail(c)[i] = b[i]
    BY <2>1, <2>6, <1>4
  <2>8. Tail(c) = b
    BY <2>6, <2>7
  <2>. QED
    BY <2>3, <2>5, <2>8
<1>. QED
  BY <1>1, <1>5, <1>6, <1>7 DEF d

\* A walk over places of which none is in P collects nothing.
LEMMA CollectedEmpty ==
    ASSUME NEW lo \in Nat, NEW hi \in Nat, lo <= hi, NEW P, NEW v, \A n \in lo + 1 .. hi : n \notin P
    PROVE  Collected(lo, hi, P, v) = <<>>
<1>1. \A n \in lo + 1 .. hi : (n \in P <=> n \in {}) /\ (n \in P => v[n] = v[n])
  OBVIOUS
<1>2. Collected(lo, hi, P, v) = Collected(lo, hi, {}, v)
  BY <1>1, CollectedAgree
<1>3. Collected(lo, hi, {}, v) \in Seq({})
  <2>1. hi \in lo .. hi /\ \A n \in lo + 1 .. hi : n \in {} => v[n] \in {}
    OBVIOUS
  <2>. QED
    BY <2>1, CollectedType
<1>4. \A s \in Seq({}) : s = <<>>
  OBVIOUS
<1>. QED
  BY <1>2, <1>3, <1>4

\* The first places may be left out when none of them is in P.
LEMMA CollectedSkip ==
    ASSUME NEW lo \in Nat, NEW mid \in Nat, NEW hi \in Nat, lo <= mid, mid <= hi, NEW P, NEW v,
           \A n \in lo + 1 .. mid : n \notin P
    PROVE  Collected(lo, hi, P, v) = Collected(mid, hi, P, v)
<1>. DEFINE a == Collected(lo, mid, P, v)
            b == Collected(mid, hi, P, v)
            c == Collected(lo, hi, P, v)
            S == {v[n] : n \in lo + 1 .. hi}
<1>0. \A n \in lo + 1 .. hi : n \in P => v[n] \in S
  OBVIOUS
<1>1. a = <<>>
  BY CollectedEmpty
<1>2. hi \in mid .. hi /\ hi \in lo .. hi /\ \A n \in mid + 1 .. hi : n \in P => v[n] \in S
  OBVIOUS
<1>. HIDE DEF S
<1>3. Joins(a, b, c)
  BY <1>0, <1>2, CollectedSplit
<1>4. b \in Seq(S) /\ c \in Seq(S)
  BY <1>0, <1>2, CollectedType
<1>. HIDE DEF a, b, c
<1>5. a \in Seq(S) /\ Len(a) = 0
  BY <1>1
<1>6. b = c
  BY <1>3, <1>4, <1>5, JoinsEnd
<1>. QED
  BY <1>6 DEF b, c

\* The first place of a walk: what it collects is the head.
LEMMA CollectedFirst ==
    ASSUME NEW lo \in Nat, NEW mid \in Nat, NEW hi \in Nat, mid = lo + 1, mid <= hi, NEW P, NEW v
    PROVE  /\ mid \notin P => Collected(lo, hi, P, v) = Collected(mid, hi, P, v)
           /\ mid \in P => /\ Collected(lo, hi, P, v) # <<>>
                           /\ Head(Collected(lo, hi, P, v)) = v[mid]
                           /\ Tail(Collected(lo, hi, P, v)) = Collected(mid, hi, P, v)
<1>. DEFINE a == Collected(lo, mid, P, v)
            b == Collected(mid, hi, P, v)
            c == Collected(lo, hi, P, v)
            S == {v[n] : n \in lo + 1 .. hi}
<1>0. \A n \in lo + 1 .. hi : n \in P => v[n] \in S
  OBVIOUS
<1>1. mid - 1 = lo /\ lo < mid /\ lo <= mid /\ mid \in lo + 1 .. hi
  OBVIOUS
<1>2. hi \in mid .. hi /\ hi \in lo .. hi /\ \A n \in mid + 1 .. hi : n \in P => v[n] \in S
  OBVIOUS
<1>. HIDE DEF S
<1>3. Joins(a, b, c)
  BY <1>0, <1>1, <1>2, CollectedSplit
<1>4. b \in Seq(S) /\ c \in Seq(S)
  BY <1>0, <1>2, CollectedType
<1>5. a = IF mid \in P THEN Append(<<>>, v[mid]) ELSE <<>>
  BY <1>1, CollectedLast, CollectedNone
<1>. HIDE DEF a, b, c
<1>6. CASE mid \in P
  <2>1. v[mid] \in S /\ a = <<v[mid]>>
    BY <1>0, <1>1, <1>5, <1>6
  <2>2. a \in Seq(S) /\ Len(a) = 1 /\ a[1] = v[mid]
    BY <2>1
  <2>. QED
    BY <1>3, <1>4, <1>6, <2>2, JoinsEnd DEF b, c
<1>7. CASE mid \notin P
  <2>1. a \in Seq(S) /\ Len(a) = 0
    BY <1>5, <1>7
  <2>2. b = c
    BY <1>3, <1>4, <2>1, JoinsEnd
  <2>. QED
    BY <1>7, <2>2 DEF b, c
<1>. QED
  BY <1>6, <1>7

-----------------------------------------------------------------------------
(* The loop that closes an array up (ArrayOps). *)

\* The compaction loop is such a loop.
LEMMA FilterCollects ==
    ASSUME NEW S, NEW s \in Seq(S), NEW P, NEW Q, \A i \in 1 .. Len(s) : i \in Q <=> s[i] \in P
    PROVE  Filter(s, P) = Collected(0, Len(s), Q, s)
<1>. DEFINE IsUpTo(f) == f = [i \in 0 .. Len(s) |-> IF i = 0 THEN <<>>
                                ELSE IF s[i] \in P THEN Append(f[i - 1], s[i])
                                ELSE f[i - 1]]
<1>0. Len(s) \in Nat /\ \A i \in 0 .. Len(s) : i = 0 \/ i \in 1 .. Len(s)
  OBVIOUS
<1>1. Filter(s, P) = (CHOOSE f : IsUpTo(f))[Len(s)]
  BY DEF Filter
<1>2. ASSUME NEW f PROVE IsUpTo(f) <=> Collects(f, 0, Len(s), Q, s)
  <2>1. [i \in 0 .. Len(s) |-> IF i = 0 THEN <<>>
                                ELSE IF s[i] \in P THEN Append(f[i - 1], s[i])
                                ELSE f[i - 1]]
        = [i \in 0 .. Len(s) |-> IF i = 0 THEN <<>>
                                ELSE IF i \in Q THEN Append(f[i - 1], s[i])
                                ELSE f[i - 1]]
    BY <1>0
  <2>. QED
    BY <2>1 DEF Collects
<1>. HIDE DEF IsUpTo
<1>3. PICK g : Collects(g, 0, Len(s), Q, s)
  <2>1. 0 \in Nat /\ 0 <= Len(s)
    BY <1>0
  <2>. QED
    BY <1>0, <2>1, CollectsExists
<1>4. IsUpTo(CHOOSE f : IsUpTo(f))
  BY <1>2, <1>3
<1>5. Collects((CHOOSE f : IsUpTo(f)), 0, Len(s), Q, s)
  BY <1>2, <1>4
<1>6. Collected(0, Len(s), Q, s) = (CHOOSE f : IsUpTo(f))[Len(s)]
  BY <1>0, <1>5, CollectedIs
<1>. QED
  BY <1>1, <1>6

\* The loop keeps nothing of an empty array, and looks at each entry by itself.
LEMMA FilterEmpty ==
    ASSUME NEW P
    PROVE  Filter(<<>>, P) = <<>>
<1>1. <<>> \in Seq({}) /\ Len(<<>>) = 0 /\ \A i \in 1 .. Len(<<>>) : i \in {} <=> <<>>[i] \in P
  OBVIOUS
<1>2. Filter(<<>>, P) = Collected(0, 0, {}, <<>>)
  BY <1>1, FilterCollects
<1>. QED
  BY <1>2, CollectedNone

\* Filtering an array that has grown by one entry.
LEMMA FilterAppend ==
    ASSUME NEW S, NEW s \in Seq(S), NEW e \in S, NEW P
    PROVE  Filter(Append(s, e), P) =
               IF e \in P THEN Append(Filter(s, P), e) ELSE Filter(s, P)
<1>. DEFINE n == Len(s)
            t == Append(s, e)
            Q == {i \in 1 .. n + 1 : t[i] \in P}
<1>1. /\ n \in Nat /\ t \in Seq(S) /\ Len(t) = n + 1 /\ t[n + 1] = e /\ \A i \in 1 .. n : t[i] = s[i]
  OBVIOUS
<1>2. /\ \A i \in 1 .. n + 1 : i \in Q <=> t[i] \in P
      /\ \A i \in 1 .. n : i \in Q <=> s[i] \in P
  BY <1>1
<1>. HIDE DEF t, Q
<1>3. Filter(t, P) = Collected(0, n + 1, Q, t)
  BY <1>1, <1>2, FilterCollects
<1>4. Filter(s, P) = Collected(0, n, Q, s)
  BY <1>1, <1>2, FilterCollects
<1>5. Collected(0, n, Q, t) = Collected(0, n, Q, s)
  <2>1. 0 \in Nat /\ 0 <= n /\ \A i \in 0 + 1 .. n : (i \in Q <=> i \in Q) /\ (i \in Q => t[i] = s[i])
    BY <1>1
  <2>. QED
    BY <1>1, <2>1, CollectedAgree
<1>6. Collected(0, n + 1, Q, t) = IF n + 1 \in Q THEN Append(Collected(0, n, Q, t), e)
                                  ELSE Collected(0, n, Q, t)
  <2>1. n + 1 \in Nat /\ 0 \in Nat /\ 0 < n + 1 /\ (n + 1) - 1 = n
    BY <1>1
  <2>. DEFINE h == n + 1
  <2>2. h \in Nat /\ 0 < h /\ h - 1 = n /\ t[h] = e
    BY <2>1, <1>1
  <2>. HIDE DEF h
  <2>3. Collected(0, h, Q, t) = IF h \in Q THEN Append(Collected(0, h - 1, Q, t), t[h])
                                ELSE Collected(0, h - 1, Q, t)
    BY <2>1, <2>2, CollectedLast
  <2>4. Collected(0, h, Q, t) = IF h \in Q THEN Append(Collected(0, n, Q, t), e)
                                ELSE Collected(0, n, Q, t)
    BY <2>2, <2>3
  <2>. QED
    BY <2>4 DEF h
<1>7. n + 1 \in Q <=> e \in P
  BY <1>1, <1>2
<1>. QED
  BY <1>3, <1>4, <1>5, <1>6, <1>7 DEF t

\* A non-empty sequence is one shorter sequence with an element appended.
LEMMA LastStep ==
    ASSUME NEW S, NEW s \in Seq(S), NEW n \in Nat, Len(s) = n, n # 0
    PROVE  \E u \in Seq(S), e \in S : s = Append(u, e) /\ Len(u) = n - 1
<1>. DEFINE u == SubSeq(s, 1, n - 1)
<1>1. u \in Seq(S) /\ Len(u) = n - 1 /\ s[n] \in S
  OBVIOUS
<1>2. s = Append(u, s[n])
  OBVIOUS
<1>. QED
  BY <1>1, <1>2

\* What the loop keeps: the entries in P, each as often as before.
LEMMA FilterKeeps ==
    ASSUME NEW S, NEW P
    PROVE  \A s \in Seq(S) :
              /\ Filter(s, P) \in Seq(S)
              /\ ToSet(Filter(s, P)) = ToSet(s) \cap P
              /\ IsInjective(s) => IsInjective(Filter(s, P))
<1>. DEFINE Good(s) == /\ Filter(s, P) \in Seq(S)
                       /\ ToSet(Filter(s, P)) = ToSet(s) \cap P
                       /\ IsInjective(s) => IsInjective(Filter(s, P))
            T == {n \in Nat : \E s \in Seq(S) : Len(s) = n /\ ~ Good(s)}
<1>1. SUFFICES ASSUME T # {} PROVE FALSE
  OBVIOUS
<1>2. PICK n \in T : \A m \in T : n <= m
  BY <1>1, LeastNat
<1>3. PICK s \in Seq(S) : Len(s) = n /\ ~Good(s)
  BY <1>2
<1>4. CASE n = 0
  <2>1. s = <<>>
    BY <1>3, <1>4
  <2>. QED
    BY <2>1, <1>3, FilterEmpty, EmptyFacts
<1>5. CASE n # 0
  <2>1. PICK u \in Seq(S), e \in S : s = Append(u, e) /\ Len(u) = n - 1
    BY <1>3, <1>5, LastStep
  <2>2. n - 1 \notin T /\ n - 1 \in Nat
    BY <1>2, <1>5
  <2>3. Good(u)
    BY <2>1, <2>2
  <2>4. Filter(s, P) = IF e \in P THEN Append(Filter(u, P), e) ELSE Filter(u, P)
    BY <2>1, FilterAppend
  <2>. DEFINE w == Filter(u, P)
  <2>5. w \in Seq(S) /\ ToSet(w) = ToSet(u) \cap P /\ (IsInjective(u) => IsInjective(w))
    BY <2>3
  <2>6. IsInjective(s) => IsInjective(u) /\ e \notin ToSet(u)
    BY <2>1 DEF IsInjective, ToSet
  <2>7. ToSet(s) = ToSet(u) \cup {e}
    BY <2>1, AppendFacts
  <2>. HIDE DEF w
  <2>8. /\ Append(w, e) \in Seq(S) /\ ToSet(Append(w, e)) = ToSet(w) \cup {e}
        /\ IsInjective(w) /\ e \notin ToSet(w) => IsInjective(Append(w, e))
    BY <2>5, AppendFacts
  <2>9. CASE e \in P
    <3>1. Filter(s, P) = Append(w, e)
      BY <2>4, <2>9 DEF w
    <3>2. ToSet(Append(w, e)) = ToSet(s) \cap P
      BY <2>5, <2>7, <2>8, <2>9
    <3>3. IsInjective(s) => IsInjective(Append(w, e))
      BY <2>5, <2>6, <2>8
    <3>. QED
      BY <3>1, <3>2, <3>3, <2>8, <1>3
  <2>10. CASE e \notin P
    <3>1. Filter(s, P) = w
      BY <2>4, <2>10 DEF w
    <3>2. ToSet(w) = ToSet(s) \cap P
      BY <2>5, <2>7, <2>10
    <3>3. IsInjective(s) => IsInjective(w)
      BY <2>5, <2>6
    <3>. QED
      BY <3>1, <3>2, <3>3, <2>5, <1>3
  <2>. QED
    BY <2>9, <2>10
<1>. QED
  BY <1>4, <1>5
=============================================================================
