------------------------------- MODULE IpcProofs -------------------------------
(***************************************************************************)
(* Proofs about inter-context messages, for any number of renderers, sends *)
(* and requests and any number of lost messages.  The queue is used in two *)
(* ways at once, as a channel of numbered sends per pair of contexts and   *)
(* as a bag of requests and answers; each has its part of the invariant,   *)
(* and PushFacts and CutFacts say what ipc_push and a removal from the     *)
(* middle of the queue do to both.                                         *)
(***************************************************************************)
EXTENDS Ipc, SeqFacts, FiniteSetTheorems

\* The requests and answers of a queue s, and that none is in it twice.
ReqsIn(s) == {s[i] : i \in {j \in 1 .. Len(s) : s[j].kind # "send"}}
Once(s) ==
    \A i, j \in 1 .. Len(s) :
        s[i].kind # "send" /\ s[j].kind # "send" /\ s[i].n = s[j].n => i = j

\* The sends of pair p in a queue s: where, which numbers, in which order.
SendsAt(s, p) == {i \in 1 .. Len(s) : s[i].kind = "send" /\ <<s[i].src, s[i].dst>> = p}
Numbers(s, p) == {s[i].n : i \in SendsAt(s, p)}
Increasing(s, p) == \A i, j \in SendsAt(s, p) : i < j => s[i].n < s[j].n

\* The requests on their way, and the renderer that waits for each.
Live == ReqsIn(q) \cup awaiting
Asker(m) == IF m.kind = "invoke" THEN m.src ELSE m.dst

\* A request is in one place only, its renderer waits for it, and it is
\* neither settled nor lost; a request in no place is one or the other.
Requested ==
    /\ Once(q)
    /\ \A m \in awaiting : m.kind = "invoke" /\ \A k \in ReqsIn(q) : k.n # m.n
    /\ \A m, k \in awaiting : m.n = k.n => m = k
    /\ \A m \in Live : /\ m.n < nextReq /\ m.n \in pending[Asker(m)]
                       /\ settled[m.n] = None /\ ~LostRequest(m.n)
    /\ \A r \in 1 .. nextReq - 1 :
           settled[r] = None /\ ~LostRequest(r) => \E m \in Live : m.n = r
    /\ \A m \in lost : m.kind # "send" => m.n < nextReq
    /\ \A r \in Requests : settled[r] # None => r < nextReq

\* A renderer waits only for requests of its own.
Waiting ==
    /\ \A v, w \in Renderers : \A r \in pending[v] \cap pending[w] : v = w
    /\ \A w \in Renderers : \A r \in pending[w] : r < nextReq

\* An answer in the queue says what the handler of its request gave.
Answers ==
    \A m \in ReqsIn(q) : m.kind = "resp" =>
        (m.ok /\ m.json # "undefined" <=> result[m.n] \notin {"throws", "undefined"})

\* The numbers of a pair are handed out in order, to a pair that exists.
Numbered ==
    /\ \A m \in ToSet(q) \cup lost : m.kind = "send" => <<m.src, m.dst>> \in Pairs
    /\ \A m \in lost : m.kind = "send" => m.n <= sent[<<m.src, m.dst>>]
    /\ \A p \in Pairs : sent[p] <= sends

IpcInv == TypeOK /\ Requested /\ Waiting /\ Answers /\ SettledByOwnAnswer
          /\ Numbered /\ InOrder
-----------------------------------------------------------------------------
(* What is in a queue.                                                     *)

\* The fields of each kind of message.
LEMMA MessageFacts ==
    ASSUME NEW m \in Messages
    PROVE  /\ m.kind \in {"send", "invoke", "resp"}
           /\ m.kind = "send" => m.n \in 1 .. MaxSends
           /\ m.kind = "invoke" => m.src \in Renderers /\ m.dst = Main
           /\ m.kind = "resp" => m.dst \in Renderers /\ m.ok \in BOOLEAN
           /\ m.kind # "send" => m.n \in Requests /\ Asker(m) \in Renderers
BY DEF Messages, Asker

\* ipc_push puts a message behind everything: the requests and answers.
LEMMA PushFacts ==
    ASSUME NEW s \in Seq(Messages), NEW m \in Messages
    PROVE  /\ Append(s, m) \in Seq(Messages) /\ ToSet(Append(s, m)) = ToSet(s) \cup {m}
           /\ m.kind = "send" => /\ ReqsIn(Append(s, m)) = ReqsIn(s)
                                 /\ Once(s) => Once(Append(s, m))
           /\ m.kind # "send" =>
                /\ ReqsIn(Append(s, m)) = ReqsIn(s) \cup {m}
                /\ Once(s) /\ (\A k \in ReqsIn(s) : k.n # m.n) => Once(Append(s, m))
<1>. DEFINE t == Append(s, m)
<1>1. /\ t \in Seq(Messages) /\ ToSet(t) = ToSet(s) \cup {m}
  BY AppendFacts
<1>2. /\ Len(s) \in Nat /\ Len(t) = Len(s) + 1
      /\ \A i \in 1 .. Len(s) : t[i] = s[i]
      /\ t[Len(s) + 1] = m
  OBVIOUS
<1>. HIDE DEF t
<1>3. \A i : i \in 1 .. Len(t) <=> i \in 1 .. Len(s) \/ i = Len(s) + 1
  BY <1>2
<1>4. \A x : x \in ReqsIn(t) <=> x \in ReqsIn(s) \/ (m.kind # "send" /\ x = m)
  BY <1>2, <1>3 DEF ReqsIn
<1>5. /\ m.kind = "send" => (Once(s) => Once(t))
      /\ m.kind # "send" => (Once(s) /\ (\A k \in ReqsIn(s) : k.n # m.n) => Once(t))
  BY <1>2, <1>3 DEF Once, ReqsIn
<1>. QED
  BY <1>1, <1>4, <1>5 DEF t

\* The same for the sends of a pair.
LEMMA PushNumbers ==
    ASSUME NEW s \in Seq(Messages), NEW m \in Messages, NEW p
    PROVE  /\ m.kind = "send" /\ <<m.src, m.dst>> = p =>
                /\ Numbers(Append(s, m), p) = Numbers(s, p) \cup {m.n}
                /\ Increasing(s, p) /\ (\A k \in Numbers(s, p) : k < m.n)
                      => Increasing(Append(s, m), p)
           /\ ~(m.kind = "send" /\ <<m.src, m.dst>> = p) =>
                /\ Numbers(Append(s, m), p) = Numbers(s, p)
                /\ Increasing(s, p) => Increasing(Append(s, m), p)
<1>. DEFINE t == Append(s, m)
            b == m.kind = "send" /\ <<m.src, m.dst>> = p
<1>1. /\ Len(s) \in Nat /\ Len(t) = Len(s) + 1
      /\ \A i \in 1 .. Len(s) : t[i] = s[i]
      /\ t[Len(s) + 1] = m
  OBVIOUS
<1>. HIDE DEF t
<1>2. \A i : i \in 1 .. Len(t) <=> i \in 1 .. Len(s) \/ i = Len(s) + 1
  BY <1>1
<1>3. \A i \in 1 .. Len(s) : i < Len(s) + 1 /\ ~(Len(s) + 1 < i)
  BY <1>1
<1>4. \A i : i \in SendsAt(t, p) <=> i \in SendsAt(s, p) \/ (b /\ i = Len(s) + 1)
  BY <1>1, <1>2 DEF SendsAt
<1>5. \A i \in SendsAt(s, p) : i \in 1 .. Len(s)
  BY DEF SendsAt
<1>. HIDE DEF b
<1>6. CASE b
  <2>1. Numbers(t, p) = Numbers(s, p) \cup {m.n}
    BY <1>1, <1>4, <1>5, <1>6 DEF Numbers
  <2>2. Increasing(s, p) /\ (\A k \in Numbers(s, p) : k < m.n) => Increasing(t, p)
    BY <1>1, <1>3, <1>4, <1>5, <1>6 DEF Numbers, Increasing
  <2>. QED
    BY <1>6, <2>1, <2>2 DEF b, t
<1>7. CASE ~b
  <2>1. Numbers(t, p) = Numbers(s, p)
    BY <1>1, <1>4, <1>5, <1>7 DEF Numbers
  <2>2. Increasing(s, p) => Increasing(t, p)
    BY <1>1, <1>4, <1>5, <1>7 DEF Increasing
  <2>. QED
    BY <1>7, <2>1, <2>2 DEF b, t
<1>. QED
  BY <1>6, <1>7

\* mini_ipc_dispatch closes the hole a delivered message leaves.
LEMMA CutFacts ==
    ASSUME NEW s \in Seq(Messages), NEW i \in 1 .. Len(s), NEW t, t = RemoveAt(s, i)
    PROVE  /\ t \in Seq(Messages) /\ ToSet(t) \subseteq ToSet(s)
           /\ Once(s) => Once(t)
           /\ Once(s) /\ s[i].kind # "send" =>
                /\ ReqsIn(t) = ReqsIn(s) \ {s[i]} /\ s[i] \in ReqsIn(s)
                /\ \A k \in ReqsIn(t) : k.n # s[i].n
           /\ s[i].kind = "send" => ReqsIn(t) = ReqsIn(s)
           /\ \A p : /\ Increasing(s, p) => Increasing(t, p)
                     /\ Numbers(t, p) = {s[j].n : j \in SendsAt(s, p) \ {i}}
                     /\ i \notin SendsAt(s, p) => Numbers(t, p) = Numbers(s, p)
<1>. DEFINE old(a) == IF a < i THEN a ELSE a + 1
            I == 1 .. Len(s) - 1
<1>1. /\ t \in Seq(Messages) /\ Len(t) = Len(s) - 1 /\ Len(s) \in Nat /\ i \in Nat
      /\ 1 .. Len(t) = I
      /\ \A a \in I : t[a] = s[old(a)]
  BY RemoveAtFacts
<1>2. /\ \A a \in I : old(a) \in 1 .. Len(s) /\ old(a) # i
      /\ \A a, b \in I : /\ old(a) = old(b) => a = b
                         /\ a < b => old(a) < old(b)
  BY <1>1
<1>3. \A j \in 1 .. Len(s) : j # i => \E a \in I : old(a) = j
  <2>. SUFFICES ASSUME NEW j \in 1 .. Len(s), j # i
                PROVE  \E a \in I : old(a) = j
    OBVIOUS
  <2>1. CASE j < i
    <3>1. j \in I /\ old(j) = j
      BY <1>1, <2>1
    <3>. QED
      BY <3>1
  <2>2. CASE j > i
    <3>1. j - 1 \in I /\ old(j - 1) = j
      BY <1>1, <2>2
    <3>. QED
      BY <3>1
  <2>. QED
    BY <1>1, <2>1, <2>2
<1>. HIDE DEF old, I
<1>4. ToSet(t) \subseteq ToSet(s)
  <2>1. DOMAIN t = I /\ DOMAIN s = 1 .. Len(s)
    BY <1>1
  <2>. QED
    BY <1>1, <1>2, <2>1 DEF ToSet
<1>5. \A x : x \in ReqsIn(t) <=> \E j \in 1 .. Len(s) : j # i /\ s[j].kind # "send" /\ x = s[j]
  BY <1>1, <1>2, <1>3 DEF ReqsIn
<1>0. \A x : x \in ReqsIn(s) <=> \E j \in 1 .. Len(s) : s[j].kind # "send" /\ x = s[j]
  BY DEF ReqsIn
<1>6. ASSUME Once(s)
      PROVE  /\ Once(t)
             /\ s[i].kind # "send" =>
                  ReqsIn(t) = ReqsIn(s) \ {s[i]} /\ s[i] \in ReqsIn(s)
                  /\ \A k \in ReqsIn(t) : k.n # s[i].n
  <2>1. Once(t)
    <3>. SUFFICES ASSUME NEW a \in I, NEW b \in I, t[a].kind # "send",
                         t[b].kind # "send", t[a].n = t[b].n
                  PROVE  a = b
      BY <1>1 DEF Once
    <3>1. /\ old(a) \in 1 .. Len(s) /\ old(b) \in 1 .. Len(s)
          /\ t[a] = s[old(a)] /\ t[b] = s[old(b)]
      BY <1>1, <1>2
    <3>2. old(a) = old(b)
      BY <1>6, <3>1 DEF Once
    <3>. QED
      BY <1>2, <3>2
  <2>2. ASSUME s[i].kind # "send"
        PROVE  ReqsIn(t) = ReqsIn(s) \ {s[i]} /\ s[i] \in ReqsIn(s)
               /\ \A k \in ReqsIn(t) : k.n # s[i].n
    <3>1. \A j \in 1 .. Len(s) : j # i /\ s[j].kind # "send" => s[j].n # s[i].n
      BY <1>6, <2>2 DEF Once
    <3>. QED
      BY <1>0, <1>5, <2>2, <3>1
  <2>. QED
    BY <2>1, <2>2
<1>7. s[i].kind = "send" => ReqsIn(t) = ReqsIn(s)
  BY <1>0, <1>5
<1>8. ASSUME NEW p
      PROVE  /\ Increasing(s, p) => Increasing(t, p)
             /\ Numbers(t, p) = {s[j].n : j \in SendsAt(s, p) \ {i}}
             /\ i \notin SendsAt(s, p) => Numbers(t, p) = Numbers(s, p)
  <2>1. \A a : a \in SendsAt(t, p) <=> a \in I /\ old(a) \in SendsAt(s, p)
    BY <1>1, <1>2 DEF SendsAt
  <2>2. SendsAt(s, p) \subseteq 1 .. Len(s)
    BY DEF SendsAt
  <2>3. Increasing(s, p) => Increasing(t, p)
    BY <1>1, <1>2, <2>1 DEF Increasing
  <2>4. Numbers(t, p) = {s[j].n : j \in SendsAt(s, p) \ {i}}
    <3>1. ASSUME NEW a \in SendsAt(t, p)
          PROVE  t[a].n \in {s[j].n : j \in SendsAt(s, p) \ {i}}
      <4>1. old(a) \in SendsAt(s, p) \ {i} /\ t[a] = s[old(a)]
        BY <1>1, <1>2, <2>1
      <4>. QED
        BY <4>1
    <3>2. ASSUME NEW j \in SendsAt(s, p) \ {i}
          PROVE  s[j].n \in Numbers(t, p)
      <4>1. PICK a \in I : old(a) = j
        BY <1>3, <2>2
      <4>. QED
        BY <1>1, <2>1, <4>1 DEF Numbers
    <3>. QED
      BY <3>1, <3>2 DEF Numbers
  <2>. QED
    BY <2>3, <2>4 DEF Numbers
<1>. QED
  BY <1>1, <1>4, <1>6, <1>7, <1>8
\* The search of mini_ipc_dispatch finds the first message for context c.
LEMMA FirstFacts ==
    ASSUME TypeOK, NEW c, HasMail(c)
    PROVE  /\ First(c) \in 1 .. Len(q) /\ q[First(c)].dst = c
           /\ \A j \in 1 .. First(c) - 1 : q[j].dst # c
<1>. DEFINE T == {i \in 1 .. Len(q) : q[i].dst = c}
<1>1. Len(q) \in Nat
  BY DEF TypeOK
<1>2. T \subseteq Nat /\ T # {}
  BY <1>1 DEF HasMail
<1>3. PICK x \in T : \A y \in T : x <= y
  <2>. HIDE DEF T
  <2>. QED
    BY <1>2, LeastNat
<1>4. \A j \in 1 .. x - 1 : j \in 1 .. Len(q) /\ ~(x <= j)
  BY <1>1
<1>5. q[x].dst = c /\ \A j \in 1 .. x - 1 : q[j].dst # c
  BY <1>3, <1>4
<1>6. \E i \in 1 .. Len(q) : q[i].dst = c /\ \A j \in 1 .. i - 1 : q[j].dst # c
  BY <1>5
<1>. QED
  BY <1>6 DEF First

\* What the search finds is a message of the queue.
LEMMA FirstMessage ==
    ASSUME TypeOK, NEW c, HasMail(c)
    PROVE  q \in Seq(Messages) /\ q[First(c)] \in Messages /\ q[First(c)] \in ToSet(q)
<1>1. First(c) \in 1 .. Len(q) /\ q \in Seq(Messages) /\ DOMAIN q = 1 .. Len(q)
  BY FirstFacts DEF TypeOK
<1>. QED
  BY <1>1 DEF ToSet

-----------------------------------------------------------------------------
(* Sends.                                                                  *)

\* InOrder for one pair, in terms of the numbers that are queued.
Ordered(p) ==
    /\ ToSet(got[p]) \cup Numbers(q, p) =
           {n \in 1 .. sent[p] : Send(p[1], p[2], n) \notin lost}
    /\ \A i, j \in 1 .. Len(got[p]) : i < j => got[p][i] < got[p][j]
    /\ Increasing(q, p)
    /\ \A n \in ToSet(got[p]), k \in Numbers(q, p) : n < k

\* It says the same as InOrder, now
LEMMA OrderForm == InOrder <=> \A p \in Pairs : Ordered(p)
BY DEF InOrder, Ordered, Queued, SendsAt, Numbers, Increasing

\* and after a step.
LEMMA OrderFormNext == InOrder' <=> \A p \in Pairs : Ordered(p)'
BY DEF InOrder, Ordered, Queued, SendsAt, Numbers, Increasing

\* Steps that touch no send.
LEMMA OrderKept ==
    ASSUME IpcInv, UNCHANGED <<sent, sends, got>>,
           \A m \in ToSet(q') : m.kind = "send" => m \in ToSet(q),
           \A p : Numbers(q', p) = Numbers(q, p) /\ (Increasing(q, p) => Increasing(q', p)),
           lost \subseteq lost', \A m \in lost' \ lost : m.kind # "send"
    PROVE  Numbered' /\ InOrder'
<1>1. Numbered'
  BY DEF IpcInv, Numbered
<1>2. ASSUME NEW p \in Pairs
      PROVE  Ordered(p)'
  <2>1. Ordered(p)
    BY OrderForm DEF IpcInv
  <2>2. \A n : Send(p[1], p[2], n) \in lost' <=> Send(p[1], p[2], n) \in lost
    BY DEF Send
  <2>. QED
    BY <2>1, <2>2 DEF Ordered
<1>. QED
  BY <1>1, <1>2, OrderFormNext

\* Steps that touch no request and no answer.
LEMMA RequestsKept ==
    ASSUME IpcInv, UNCHANGED requests, ReqsIn(q') = ReqsIn(q), Once(q'),
           lost \subseteq lost', \A m \in lost' \ lost : m.kind = "send"
    PROVE  Requested' /\ Waiting' /\ Answers' /\ SettledByOwnAnswer'
<1>1. Live' = Live
  BY DEF Live, requests
<1>2. \A r : LostRequest(r)' <=> LostRequest(r)
  BY DEF LostRequest
<1>3. Requested'
  BY <1>1, <1>2 DEF IpcInv, Requested, requests
<1>4. Waiting' /\ Answers' /\ SettledByOwnAnswer'
  BY DEF IpcInv, Waiting, Answers, SettledByOwnAnswer, requests
<1>. QED
  BY <1>3, <1>4

\* Two sends are the same message only if they are the same send.
LEMMA SendInjective ==
    ASSUME NEW a, NEW b, NEW n, NEW c, NEW d, NEW k, Send(a, b, n) = Send(c, d, k)
    PROVE  a = c /\ b = d /\ n = k
BY DEF Send

\* A send is appended, or lost, with the next number of its pair.
LEMMA IpcPostSend ==
    ASSUME IpcInv, NEW p0 \in Pairs, PostSend(p0[1], p0[2])
    PROVE  IpcInv'
<1>. DEFINE n0 == sent[p0] + 1
            m == Send(p0[1], p0[2], n0)
<1>1. /\ p0 = <<p0[1], p0[2]>> /\ p0[1] \in Contexts /\ p0[2] \in Contexts
  BY DEF Pairs, Contexts
<1>2. /\ sent \in [Pairs -> 0 .. MaxSends] /\ sends \in 0 .. MaxSends /\ MaxSends \in Nat
      /\ sent[p0] \in Nat /\ sent[p0] <= sends /\ sends < MaxSends /\ sends' = sends + 1
      /\ q \in Seq(Messages) /\ lost \subseteq Messages
      /\ UNCHANGED <<open, cur, handler, requests, got>>
  BY IpcAssumption DEF IpcInv, TypeOK, Numbered, PostSend
<1>3. /\ sent' = [sent EXCEPT ![p0] = n0] /\ n0 \in 1 .. MaxSends
      /\ \/ q' = Append(q, m) /\ lost' = lost
         \/ q' = q /\ lost' = lost \cup {m}
  <2>1. n0 \in 1 .. MaxSends
    BY <1>2
  <2>2. sent' = [sent EXCEPT ![p0] = n0] /\ Push(q, m)
    BY <1>1 DEF PostSend
  <2>. QED
    BY <2>1, <2>2 DEF Push
<1>4. \A p \in Pairs : sent'[p] = IF p = p0 THEN n0 ELSE sent[p]
  BY <1>2, <1>3
<1>5. m \in Messages /\ m.kind = "send" /\ <<m.src, m.dst>> = p0 /\ m.n = n0
  BY <1>1, <1>3 DEF Messages, Send
<1>. HIDE DEF m
<1>6. m \notin lost
  BY <1>2, <1>5 DEF IpcInv, Numbered
<1>7. q' \in Seq(Messages) /\ ReqsIn(q') = ReqsIn(q) /\ Once(q')
      /\ ToSet(q') \subseteq ToSet(q) \cup {m}
  <2>1. CASE q' = q
    BY <1>2, <2>1 DEF IpcInv, Requested
  <2>2. CASE q' = Append(q, m)
    <3>1. Once(q)
      BY DEF IpcInv, Requested
    <3>. QED
      BY <1>2, <1>5, <2>2, <3>1, PushFacts
  <2>. QED
    BY <1>3, <2>1, <2>2
<1>8. TypeOK'
  <2>1. sent' \in [Pairs -> 0 .. MaxSends] /\ sends' \in 0 .. MaxSends
    BY <1>2, <1>3
  <2>2. lost' \subseteq Messages
    BY <1>2, <1>3, <1>5
  <2>. QED
    BY <1>2, <1>7, <2>1, <2>2 DEF IpcInv, TypeOK, requests
<1>9. Requested' /\ Waiting' /\ Answers' /\ SettledByOwnAnswer'
  BY <1>2, <1>3, <1>5, <1>7, RequestsKept
<1>10. Numbered'
  <2>1. \A p \in Pairs : sent[p] \in Nat /\ sent[p] <= sends /\ sent[p] <= sent'[p]
                         /\ sent'[p] <= sends'
    BY <1>2, <1>4 DEF IpcInv, Numbered
  <2>2. \A k \in ToSet(q') \cup lost' : k \in ToSet(q) \cup lost \/ k = m
    BY <1>3, <1>7
  <2>3. \A k \in lost' : k \in lost \/ k = m
    BY <1>3
  <2>4. \A k \in ToSet(q') \cup lost' : k.kind = "send" => <<k.src, k.dst>> \in Pairs
    BY <1>5, <2>2 DEF IpcInv, Numbered
  <2>5. ASSUME NEW k \in lost', k.kind = "send"
        PROVE  k.n <= sent'[<<k.src, k.dst>>]
    <3>1. CASE k = m
      BY <1>2, <1>4, <1>5, <3>1
    <3>2. CASE k \in lost
      <4>1. <<k.src, k.dst>> \in Pairs /\ k.n <= sent[<<k.src, k.dst>>] /\ k.n \in Nat
        BY <1>2, <2>5, <3>2, MessageFacts, IpcAssumption DEF IpcInv, Numbered
      <4>2. sent[<<k.src, k.dst>>] \in Nat /\ sent'[<<k.src, k.dst>>] \in Nat
            /\ sent[<<k.src, k.dst>>] <= sent'[<<k.src, k.dst>>]
        BY <1>2, <1>4, <2>1, <4>1
      <4>. QED
        BY <4>1, <4>2
    <3>. QED
      BY <2>3, <3>1, <3>2
  <2>. QED
    BY <2>1, <2>4, <2>5 DEF Numbered
<1>11. ASSUME NEW p \in Pairs
       PROVE  Ordered(p)'
  <2>1. Ordered(p) /\ got' = got
    BY <1>2, OrderForm DEF IpcInv
  <2>2. \A n : Send(p[1], p[2], n) = m <=> p = p0 /\ n = n0
    BY <1>5, SendInjective DEF m, Send, Pairs
  <2>3. CASE p # p0
    <3>1. Numbers(q', p) = Numbers(q, p) /\ Increasing(q', p)
      <4>1. Increasing(q, p)
        BY <2>1 DEF Ordered
      <4>2. /\ Numbers(Append(q, m), p) = Numbers(q, p)
            /\ Increasing(q, p) => Increasing(Append(q, m), p)
        <5>1. q \in Seq(Messages) /\ m \in Messages /\ ~(<<m.src, m.dst>> = p)
          BY <1>2, <1>5, <2>3
        <5>. QED
          BY <5>1, PushNumbers
      <4>3. q' = Append(q, m) \/ q' = q
        BY <1>3
      <4>. QED
        BY <4>1, <4>2, <4>3
    <3>. QED
      BY <1>3, <1>4, <2>1, <2>2, <2>3, <3>1 DEF Ordered
  <2>4. CASE p = p0
    <3>1. \A n \in ToSet(got[p]) \cup Numbers(q, p) : n \in 1 .. sent[p] /\ n < n0
      BY <1>2, <2>1, <2>4 DEF Ordered
    <3>2. \A n : n \in 1 .. n0 <=> n \in 1 .. sent[p] \/ n = n0
      BY <1>2, <2>4
    <3>3. n0 \notin 1 .. sent[p]
      BY <1>2, <2>4
    <3>4. CASE q' = Append(q, m) /\ lost' = lost
      <4>1. Numbers(q', p) = Numbers(q, p) \cup {n0} /\ Increasing(q', p)
        <5>1. Increasing(q, p) /\ \A k \in Numbers(q, p) : k < m.n
          BY <1>5, <2>1, <3>1 DEF Ordered
        <5>. QED
          BY <1>2, <1>5, <2>4, <3>4, <5>1, PushNumbers
      <4>2. ToSet(got[p]) \cup Numbers(q', p) =
                {n \in 1 .. n0 : Send(p[1], p[2], n) \notin lost}
        BY <1>6, <2>1, <2>2, <2>4, <3>2, <4>1 DEF Ordered
      <4>3. \A n \in ToSet(got[p]), k \in Numbers(q', p) : n < k
        BY <2>1, <3>1, <4>1 DEF Ordered
      <4>. QED
        BY <1>4, <2>1, <2>4, <3>4, <4>1, <4>2, <4>3 DEF Ordered
    <3>5. CASE q' = q /\ lost' = lost \cup {m}
      <4>1. ToSet(got[p]) \cup Numbers(q, p) =
                {n \in 1 .. n0 : Send(p[1], p[2], n) \notin lost'}
        BY <2>1, <2>2, <2>4, <3>2, <3>3, <3>5 DEF Ordered
      <4>. QED
        BY <1>4, <2>1, <2>4, <3>5, <4>1 DEF Ordered
    <3>. QED
      BY <1>3, <3>4, <3>5
  <2>. QED
    BY <2>3, <2>4
<1>. QED
  BY <1>8, <1>9, <1>10, <1>11, OrderFormNext DEF IpcInv
\* The first message for c is the oldest send of its pair that is queued.
LEMMA IpcDeliverSend ==
    ASSUME IpcInv, NEW c \in Contexts, DeliverSend(c)
    PROVE  IpcInv'
<1>. DEFINE i == First(c)
            m == q[i]
            p0 == <<m.src, c>>
<1>1. /\ TypeOK /\ HasMail(c) /\ m.kind = "send" /\ q' = RemoveAt(q, i)
      /\ got' = [got EXCEPT ![p0] = Append(@, m.n)]
      /\ UNCHANGED <<open, cur, handler, requests, sent, sends, lost>>
  BY DEF DeliverSend, IpcInv
<1>2. /\ i \in 1 .. Len(q) /\ m.dst = c /\ \A j \in 1 .. i - 1 : q[j].dst # c
      /\ q \in Seq(Messages) /\ m \in Messages /\ m \in ToSet(q) /\ Len(q) \in Nat
      /\ got \in [Pairs -> Seq(1 .. MaxSends)]
  BY <1>1, FirstFacts, FirstMessage DEF TypeOK
<1>. HIDE DEF i, m
<1>3. p0 \in Pairs /\ m.n \in 1 .. MaxSends
  BY <1>1, <1>2, MessageFacts DEF IpcInv, Numbered
<1>4. /\ q' \in Seq(Messages) /\ ToSet(q') \subseteq ToSet(q)
      /\ ReqsIn(q') = ReqsIn(q) /\ Once(q')
  <2>1. Once(q) /\ q[i].kind = "send"
    BY <1>1 DEF IpcInv, Requested, m
  <2>. QED
    BY <1>1, <1>2, <2>1, CutFacts
<1>5. \A p : /\ Increasing(q, p) => Increasing(q', p)
             /\ Numbers(q', p) = {q[j].n : j \in SendsAt(q, p) \ {i}}
             /\ i \notin SendsAt(q, p) => Numbers(q', p) = Numbers(q, p)
  BY <1>1, <1>2, CutFacts
<1>6. \A p : i \in SendsAt(q, p) <=> p = p0
  BY <1>1, <1>2 DEF SendsAt, m
<1>7. /\ Append(got[p0], m.n) \in Seq(1 .. MaxSends)
      /\ ToSet(Append(got[p0], m.n)) = ToSet(got[p0]) \cup {m.n}
      /\ got'[p0] = Append(got[p0], m.n)
      /\ \A p \in Pairs : p # p0 => got'[p] = got[p]
  <2>1. got[p0] \in Seq(1 .. MaxSends)
    BY <1>2, <1>3
  <2>2. /\ Append(got[p0], m.n) \in Seq(1 .. MaxSends)
        /\ ToSet(Append(got[p0], m.n)) = ToSet(got[p0]) \cup {m.n}
    <3>. DEFINE S == 1 .. MaxSends
    <3>1. m.n \in S /\ got[p0] \in Seq(S)
      BY <1>3, <2>1
    <3>. HIDE DEF S
    <3>2. /\ Append(got[p0], m.n) \in Seq(S)
          /\ ToSet(Append(got[p0], m.n)) = ToSet(got[p0]) \cup {m.n}
      BY <3>1, AppendFacts
    <3>. QED
      BY <3>2 DEF S
  <2>3. /\ got'[p0] = Append(got[p0], m.n)
        /\ \A p \in Pairs : p # p0 => got'[p] = got[p]
    BY <1>1, <1>2, <1>3
  <2>. QED
    BY <2>2, <2>3
<1>8. TypeOK'
  <2>1. got' \in [Pairs -> Seq(1 .. MaxSends)]
    BY <1>1, <1>2, <1>3, <1>7
  <2>. QED
    BY <1>1, <1>4, <2>1 DEF TypeOK, requests
<1>9. Requested' /\ Waiting' /\ Answers' /\ SettledByOwnAnswer'
  BY <1>1, <1>4, RequestsKept
<1>10. Numbered'
  BY <1>1, <1>4 DEF IpcInv, Numbered
<1>11. ASSUME NEW p \in Pairs
       PROVE  Ordered(p)'
  <2>1. Ordered(p)
    BY OrderForm DEF IpcInv
  <2>2. CASE p # p0
    <3>1. Numbers(q', p) = Numbers(q, p) /\ Increasing(q', p) /\ got'[p] = got[p]
      BY <1>5, <1>6, <1>7, <2>1, <2>2 DEF Ordered
    <3>. QED
      BY <1>1, <2>1, <3>1 DEF Ordered
  <2>3. CASE p = p0
    <3>1. \A j \in SendsAt(q, p) \ {i} : i < j
      <4>. SUFFICES ASSUME NEW j \in SendsAt(q, p) \ {i}
                    PROVE  i < j
        OBVIOUS
      <4>1. j \in 1 .. Len(q) /\ q[j].dst = c /\ j # i
        BY <2>3 DEF SendsAt
      <4>2. ~(j \in 1 .. i - 1)
        BY <1>2, <4>1
      <4>. QED
        BY <1>2, <4>1, <4>2
    <3>2. i \in SendsAt(q, p) /\ q[i].n = m.n
      BY <1>6, <2>3 DEF m
    <3>3. \A k \in Numbers(q', p) : m.n < k
      BY <1>5, <2>1, <3>1, <3>2 DEF Ordered, Increasing
    <3>4. Numbers(q, p) = Numbers(q', p) \cup {m.n}
      <4>1. Numbers(q, p) = {q[j].n : j \in SendsAt(q, p)}
        BY DEF Numbers
      <4>. QED
        BY <1>5, <3>2, <4>1
    <3>5. Increasing(q', p)
      BY <1>5, <2>1 DEF Ordered
    <3>6. \A n \in ToSet(got[p]) : n < m.n
      BY <2>1, <3>4 DEF Ordered
    <3>7. ToSet(got'[p]) = ToSet(got[p]) \cup {m.n}
      BY <1>7, <2>3
    <3>8. \A a, b \in 1 .. Len(got'[p]) : a < b => got'[p][a] < got'[p][b]
      <4>1. /\ got[p] \in Seq(1 .. MaxSends) /\ got'[p] = Append(got[p], m.n)
        BY <1>2, <1>7, <2>3
      <4>2. /\ Len(got[p]) \in Nat /\ Len(got'[p]) = Len(got[p]) + 1
            /\ \A a \in 1 .. Len(got[p]) : got'[p][a] = got[p][a] /\ got[p][a] \in ToSet(got[p])
            /\ got'[p][Len(got[p]) + 1] = m.n
        BY <4>1 DEF ToSet
      <4>3. \A a, b \in 1 .. Len(got[p]) + 1 : a < b =>
                a \in 1 .. Len(got[p]) /\ (b \in 1 .. Len(got[p]) \/ b = Len(got[p]) + 1)
        BY <4>2
      <4>4. \A a, b \in 1 .. Len(got[p]) : a < b => got[p][a] < got[p][b]
        BY <2>1 DEF Ordered
      <4>. QED
        BY <3>6, <4>2, <4>3, <4>4
    <3>9. ToSet(got'[p]) \cup Numbers(q', p) =
              {n \in 1 .. sent'[p] : Send(p[1], p[2], n) \notin lost'}
      BY <1>1, <2>1, <3>4, <3>7 DEF Ordered
    <3>10. \A n \in ToSet(got'[p]), k \in Numbers(q', p) : n < k
      BY <2>1, <3>3, <3>4, <3>7 DEF Ordered
    <3>. QED
      BY <3>5, <3>8, <3>9, <3>10 DEF Ordered
  <2>. QED
    BY <2>2, <2>3
<1>. QED
  BY <1>8, <1>9, <1>10, <1>11, OrderFormNext DEF IpcInv

-----------------------------------------------------------------------------
(* Requests.                                                               *)

\* ipcRenderer.invoke: the new request is queued, or lost at once.
LEMMA IpcInvokeMain ==
    ASSUME IpcInv, NEW w \in Renderers, InvokeMain(w)
    PROVE  IpcInv'
<1>. DEFINE r == nextReq
            m == Invoke(w, r)
<1>1. /\ r \in Requests /\ nextReq' = r + 1 /\ Push(q, m)
      /\ pending' = [pending EXCEPT ![w] = @ \cup {r}]
      /\ UNCHANGED <<open, cur, handler, awaiting, result, settled, sent, sends, got>>
  BY DEF InvokeMain
<1>2. /\ TypeOK /\ q \in Seq(Messages) /\ awaiting \subseteq Messages /\ lost \subseteq Messages
      /\ pending \in [Renderers -> SUBSET Requests] /\ MaxInvokes \in Nat
      /\ Requested /\ Waiting /\ Answers /\ SettledByOwnAnswer
  BY IpcAssumption DEF IpcInv, TypeOK
<1>3. /\ m \in Messages /\ m.kind = "invoke" /\ m.n = r /\ m.src = w /\ Asker(m) = w
      /\ m.dst = Main
  BY <1>1 DEF Invoke, Messages, Asker
<1>4. /\ r \in Nat /\ r \in 1 .. MaxInvokes
      /\ \A x : x \in 1 .. (r + 1) - 1 <=> x \in 1 .. r - 1 \/ x = r
      /\ \A x \in Requests : x < r => x < r + 1 /\ x # r
      /\ r < r + 1
  BY <1>1, <1>2 DEF Requests
<1>. HIDE DEF m, r
<1>5. \A k \in Live : k.n \in Requests /\ k.n # r /\ k.n < r + 1 /\ k.n \in Requests
                      /\ Asker(k) \in Renderers
  <2>1. Live \subseteq Messages /\ \A k \in Live : k.kind # "send"
    BY <1>2 DEF Live, ReqsIn, Requested
  <2>2. \A k \in Live : k.n \in Requests /\ Asker(k) \in Renderers
    BY <2>1, MessageFacts
  <2>. QED
    BY <1>2, <1>4, <2>2 DEF Requested, r
<1>6. /\ settled[r] = None /\ ~LostRequest(r)
      /\ \A v \in Renderers : r \notin pending[v]
  <2>1. ~(r < r)
    BY <1>4
  <2>. QED
    BY <1>1, <1>2, <2>1 DEF Requested, Waiting, LostRequest, r
<1>7. /\ pending' \in [Renderers -> SUBSET Requests]
      /\ \A v \in Renderers : pending'[v] = IF v = w THEN pending[v] \cup {r} ELSE pending[v]
  BY <1>1, <1>2
<1>8. \/ q' = Append(q, m) /\ lost' = lost
      \/ q' = q /\ lost' = lost \cup {m}
  BY <1>1 DEF Push
<1>9. /\ q' \in Seq(Messages) /\ Once(q') /\ lost' \subseteq Messages
      /\ ToSet(q') \subseteq ToSet(q) \cup {m}
      /\ \/ ReqsIn(q') = ReqsIn(q) \cup {m} /\ lost' = lost
         \/ ReqsIn(q') = ReqsIn(q) /\ lost' = lost \cup {m}
  <2>1. CASE q' = q /\ lost' = lost \cup {m}
    BY <1>2, <1>3, <2>1 DEF Requested
  <2>2. CASE q' = Append(q, m) /\ lost' = lost
    <3>1. Once(q) /\ \A k \in ReqsIn(q) : k.n # m.n
      BY <1>2, <1>3, <1>5 DEF Requested, Live
    <3>. QED
      BY <1>2, <1>3, <2>2, <3>1, PushFacts
  <2>. QED
    BY <1>8, <2>1, <2>2
<1>10. \A p : Numbers(q', p) = Numbers(q, p) /\ (Increasing(q, p) => Increasing(q', p))
  <2>. SUFFICES ASSUME NEW p
                PROVE  Numbers(q', p) = Numbers(q, p) /\ (Increasing(q, p) => Increasing(q', p))
    OBVIOUS
  <2>1. /\ Numbers(Append(q, m), p) = Numbers(q, p)
        /\ Increasing(q, p) => Increasing(Append(q, m), p)
    BY <1>2, <1>3, PushNumbers
  <2>. QED
    BY <1>8, <2>1
<1>11. TypeOK'
  <2>1. nextReq' \in 1 .. MaxInvokes + 1
    BY <1>1, <1>2, <1>4
  <2>. QED
    BY <1>1, <1>2, <1>7, <1>9, <2>1 DEF TypeOK
<1>12. Numbered' /\ InOrder'
  BY <1>1, <1>3, <1>8, <1>9, <1>10, OrderKept
<1>13. Waiting'
  BY <1>1, <1>2, <1>4, <1>6, <1>7 DEF Waiting, TypeOK, r
<1>14. Answers' /\ SettledByOwnAnswer'
  <2>1. Answers'
    BY <1>1, <1>2, <1>3, <1>9 DEF Answers
  <2>2. SettledByOwnAnswer'
    BY <1>1, <1>2, <1>6, <1>7 DEF SettledByOwnAnswer
  <2>. QED
    BY <2>1, <2>2
<1>15. Requested'
  <2>1. \/ Live' = Live \cup {m} /\ lost' = lost
        \/ Live' = Live /\ lost' = lost \cup {m}
    BY <1>1, <1>9 DEF Live
  <2>2. \A x : LostRequest(x)' <=> LostRequest(x) \/ (x = r /\ m \in lost' \ lost)
    BY <1>3, <1>6, <2>1 DEF LostRequest
  <2>3. \A k \in awaiting' : k.kind = "invoke" /\ \A x \in ReqsIn(q') : x.n # k.n
    BY <1>1, <1>2, <1>3, <1>5, <1>9 DEF Requested, Live
  <2>4. \A k \in Live' : /\ k.n < nextReq' /\ k.n \in pending'[Asker(k)]
                         /\ settled'[k.n] = None /\ ~LostRequest(k.n)'
    <3>. SUFFICES ASSUME NEW k \in Live'
                  PROVE  /\ k.n < nextReq' /\ k.n \in pending'[Asker(k)]
                         /\ settled'[k.n] = None /\ ~LostRequest(k.n)'
      OBVIOUS
    <3>1. CASE k = m
      <4>1. lost' = lost /\ k.n = r /\ Asker(k) = w
        BY <1>3, <1>5, <2>1, <3>1
      <4>2. ~LostRequest(k.n)'
        BY <1>6, <2>2, <4>1
      <4>. QED
        BY <1>1, <1>4, <1>6, <1>7, <4>1, <4>2
    <3>2. CASE k \in Live
      <4>1. /\ k.n # r /\ k.n < r + 1 /\ k.n \in pending[Asker(k)] /\ Asker(k) \in Renderers
            /\ settled[k.n] = None /\ ~LostRequest(k.n)
        BY <1>2, <1>5, <3>2 DEF Requested
      <4>. QED
        BY <1>1, <1>7, <2>2, <4>1
    <3>. QED
      BY <2>1, <3>1, <3>2
  <2>5. \A x \in 1 .. nextReq' - 1 :
            settled'[x] = None /\ ~LostRequest(x)' => \E k \in Live' : k.n = x
    <3>. SUFFICES ASSUME NEW x \in 1 .. nextReq' - 1, settled'[x] = None, ~LostRequest(x)'
                  PROVE  \E k \in Live' : k.n = x
      OBVIOUS
    <3>1. CASE x = r
      <4>1. m \in Live'
        BY <1>3, <2>1, <3>1 DEF LostRequest
      <4>. QED
        BY <1>3, <3>1, <4>1
    <3>2. CASE x \in 1 .. r - 1
      BY <1>1, <1>2, <2>1, <2>2, <3>2 DEF Requested, r
    <3>. QED
      BY <1>1, <1>4, <3>1, <3>2
  <2>6. ASSUME NEW k \in lost', k.kind # "send"
        PROVE  k.n < nextReq'
    <3>1. CASE k = m
      BY <1>1, <1>3, <1>4, <3>1
    <3>2. CASE k \in lost
      <4>1. k.n < r /\ k.n \in Requests
        BY <1>2, <2>6, <3>2, MessageFacts DEF Requested, r
      <4>. QED
        BY <1>1, <1>4, <4>1 DEF Requests
    <3>. QED
      BY <2>1, <3>1, <3>2
  <2>7. \A x \in Requests : settled'[x] # None => x < nextReq'
    BY <1>1, <1>2, <1>4 DEF Requested, r
  <2>. QED
    BY <1>1, <1>2, <1>9, <2>3, <2>4, <2>5, <2>6, <2>7 DEF Requested
<1>. QED
  BY <1>11, <1>12, <1>13, <1>14, <1>15 DEF IpcInv
\* The answer the helper of mini_ipc.c posts is the handler's.
LEMMA ResponseFacts ==
    ASSUME NEW w \in Renderers, NEW r \in Requests, NEW res \in Results,
           NEW s, PostResponse(s, w, r, res)
    PROVE  \E m \in Messages :
             /\ m.kind = "resp" /\ m.n = r /\ m.dst = w /\ Asker(m) = w
             /\ (m.ok /\ m.json # "undefined" <=> res \notin {"throws", "undefined"})
             /\ \/ q' = Append(s, m) /\ lost' = lost
                \/ q' = s /\ lost' = lost \cup {m}
<1>1. PICK j \in {"json", "null", "undefined"} :
        /\ j = "undefined" <=> res = "undefined"
        /\ Push(s, Response(w, r, res # "throws", j))
  BY DEF PostResponse, Results
<1>. DEFINE m == Response(w, r, res # "throws", j)
<1>2. m \in Messages
  BY DEF Response, Messages, Main
<1>3. /\ m.kind = "resp" /\ m.n = r /\ m.dst = w /\ Asker(m) = w
      /\ m.ok = (res # "throws") /\ m.json = j
  BY DEF Response, Asker
<1>. HIDE DEF m
<1>4. /\ \/ q' = Append(s, m) /\ lost' = lost
         \/ q' = s /\ lost' = lost \cup {m}
  BY <1>1 DEF Push, m
<1>5. m.ok /\ m.json # "undefined" <=> res \notin {"throws", "undefined"}
  BY <1>1, <1>3
<1>. QED
  BY <1>2, <1>3, <1>4, <1>5

\* A request k leaves its place and its answer takes it.
LEMMA Answered ==
    ASSUME IpcInv, NEW k \in Live, k.kind = "invoke", NEW res \in Results,
           NEW s \in Seq(Messages), Once(s), ReqsIn(s) \subseteq ReqsIn(q),
           awaiting' \subseteq awaiting,
           \A x \in ReqsIn(s) \cup awaiting' : x.n # k.n,
           \A x \in Live : x # k => x \in ReqsIn(s) \cup awaiting',
           PostResponse(s, k.src, k.n, res),
           result' = [result EXCEPT ![k.n] = res],
           ToSet(s) \subseteq ToSet(q),
           \A p : Numbers(s, p) = Numbers(q, p) /\ (Increasing(q, p) => Increasing(s, p)),
           UNCHANGED <<nextReq, open, cur, handler, pending, settled, sent, sends, got>>
    PROVE  IpcInv'
<1>1. /\ TypeOK /\ q \in Seq(Messages) /\ awaiting \subseteq Messages /\ lost \subseteq Messages
      /\ Requested /\ Waiting /\ Answers /\ SettledByOwnAnswer
      /\ result \in [Requests -> Results \cup {None}]
  BY DEF IpcInv, TypeOK
<1>2. Live \subseteq Messages /\ \A x \in Live : x.kind # "send"
  BY <1>1 DEF Live, ReqsIn, Requested
<1>3. /\ k \in Messages /\ k.src \in Renderers /\ k.n \in Requests /\ Asker(k) = k.src
      /\ k.n < nextReq /\ k.n \in pending[k.src] /\ settled[k.n] = None /\ ~LostRequest(k.n)
  BY <1>1, <1>2, MessageFacts DEF Requested, Asker
<1>4. PICK m \in Messages :
        /\ m.kind = "resp" /\ m.n = k.n /\ m.dst = k.src /\ Asker(m) = k.src
        /\ (m.ok /\ m.json # "undefined" <=> res \notin {"throws", "undefined"})
        /\ \/ q' = Append(s, m) /\ lost' = lost
           \/ q' = s /\ lost' = lost \cup {m}
  BY <1>3, ResponseFacts
<1>5. /\ q' \in Seq(Messages) /\ Once(q') /\ lost' \subseteq Messages
      /\ ToSet(q') \subseteq ToSet(s) \cup {m}
      /\ \/ ReqsIn(q') = ReqsIn(s) \cup {m} /\ lost' = lost
         \/ ReqsIn(q') = ReqsIn(s) /\ lost' = lost \cup {m}
  <2>1. CASE q' = s /\ lost' = lost \cup {m}
    BY <1>1, <2>1
  <2>2. CASE q' = Append(s, m) /\ lost' = lost
    <3>1. m.kind # "send" /\ \A x \in ReqsIn(s) : x.n # m.n
      BY <1>4
    <3>. QED
      BY <1>1, <2>2, <3>1, PushFacts
  <2>. QED
    BY <1>4, <2>1, <2>2
<1>6. \A p : Numbers(q', p) = Numbers(q, p) /\ (Increasing(q, p) => Increasing(q', p))
  <2>. SUFFICES ASSUME NEW p
                PROVE  Numbers(q', p) = Numbers(q, p) /\ (Increasing(q, p) => Increasing(q', p))
    OBVIOUS
  <2>1. /\ Numbers(Append(s, m), p) = Numbers(s, p)
        /\ Increasing(s, p) => Increasing(Append(s, m), p)
    BY <1>4, PushNumbers
  <2>. QED
    BY <1>4, <2>1
<1>7. Numbered' /\ InOrder'
  BY <1>4, <1>5, <1>6, OrderKept
<1>8. result' \in [Requests -> Results \cup {None}]
      /\ \A r \in Requests : result'[r] = IF r = k.n THEN res ELSE result[r]
  BY <1>1, <1>3
<1>9. TypeOK'
  BY <1>1, <1>5, <1>8 DEF TypeOK
<1>10. Waiting' /\ SettledByOwnAnswer'
  <2>1. SettledByOwnAnswer'
    BY <1>1, <1>3, <1>8 DEF SettledByOwnAnswer
  <2>. QED
    BY <1>1, <2>1 DEF Waiting
<1>11. \A x \in ReqsIn(s) : x \in Live /\ x.n \in Requests /\ x.n # k.n /\ x \in ReqsIn(q)
  BY <1>2, MessageFacts DEF Live
<1>12. Answers'
  BY <1>1, <1>3, <1>4, <1>5, <1>8, <1>11 DEF Answers
<1>13. Requested'
  <2>1. \A x \in Live' : x = m \/ (x \in Live /\ x.n # k.n)
    BY <1>5, <1>11 DEF Live
  <2>2. m \in Live' => lost' = lost
    <3>1. m \notin ReqsIn(s) /\ m \notin awaiting'
      BY <1>4
    <3>. QED
      BY <1>5, <3>1 DEF Live
  <2>3. \A r : LostRequest(r)' <=> LostRequest(r) \/ (r = k.n /\ lost' = lost \cup {m})
    <3>1. CASE lost' = lost
      <4>1. lost \cup {m} = lost' => LostRequest(k.n)
        BY <1>4, <3>1 DEF LostRequest
      <4>. QED
        BY <1>3, <3>1, <4>1 DEF LostRequest
    <3>2. CASE lost' = lost \cup {m}
      BY <1>4, <3>2 DEF LostRequest
    <3>. QED
      BY <1>4, <3>1, <3>2
  <2>4. \A x \in awaiting' : x.kind = "invoke" /\ \A y \in ReqsIn(q') : y.n # x.n
    BY <1>1, <1>4, <1>5 DEF Requested
  <2>5. \A x, y \in awaiting' : x.n = y.n => x = y
    BY <1>1 DEF Requested
  <2>6. \A x \in Live' : /\ x.n < nextReq' /\ x.n \in pending'[Asker(x)]
                         /\ settled'[x.n] = None /\ ~LostRequest(x.n)'
    <3>. SUFFICES ASSUME NEW x \in Live'
                  PROVE  /\ x.n < nextReq' /\ x.n \in pending'[Asker(x)]
                         /\ settled'[x.n] = None /\ ~LostRequest(x.n)'
      OBVIOUS
    <3>1. CASE x = m
      <4>1. ~LostRequest(x.n)'
        BY <1>3, <1>4, <2>2, <3>1 DEF LostRequest
      <4>. QED
        BY <1>3, <1>4, <3>1, <4>1
    <3>2. CASE x \in Live /\ x.n # k.n
      BY <1>1, <2>3, <3>2 DEF Requested
    <3>. QED
      BY <2>1, <3>1, <3>2
  <2>7. \A r \in 1 .. nextReq' - 1 :
            settled'[r] = None /\ ~LostRequest(r)' => \E x \in Live' : x.n = r
    <3>. SUFFICES ASSUME NEW r \in 1 .. nextReq' - 1, settled'[r] = None, ~LostRequest(r)'
                  PROVE  \E x \in Live' : x.n = r
      OBVIOUS
    <3>1. CASE r = k.n
      <4>1. m \in Live'
        BY <1>5, <2>3, <3>1 DEF Live
      <4>. QED
        BY <1>4, <3>1, <4>1
    <3>2. CASE r # k.n
      <4>1. PICK x \in Live : x.n = r
        BY <1>1, <2>3 DEF Requested
      <4>2. x \in Live'
        BY <1>5, <3>2, <4>1 DEF Live
      <4>. QED
        BY <4>1, <4>2
    <3>. QED
      BY <3>1, <3>2
  <2>8. \A x \in lost' : x.kind # "send" => x.n < nextReq'
    BY <1>1, <1>3, <1>4 DEF Requested
  <2>. QED
    BY <1>1, <1>5, <2>4, <2>5, <2>6, <2>7, <2>8 DEF Requested
<1>. QED
  BY <1>7, <1>9, <1>10, <1>12, <1>13 DEF IpcInv
\* The promise of an awaited handler settles.
LEMMA IpcHandlerSettles ==
    ASSUME IpcInv, NEW k \in awaiting, NEW res \in Results, HandlerSettles(k, res)
    PROVE  IpcInv'
<1>1. /\ PostResponse(q, k.src, k.n, res) /\ awaiting' = awaiting \ {k}
      /\ result' = [result EXCEPT ![k.n] = res]
      /\ UNCHANGED <<nextReq, open, cur, handler, pending, settled, sent, sends, got>>
  BY DEF HandlerSettles
<1>2. q \in Seq(Messages) /\ Requested
  BY DEF IpcInv, TypeOK
<1>3. /\ k \in Live /\ k.kind = "invoke" /\ Once(q)
      /\ \A x \in ReqsIn(q) \cup awaiting' : x.n # k.n
      /\ \A x \in Live : x # k => x \in ReqsIn(q) \cup awaiting'
  BY <1>1, <1>2 DEF Requested, Live
<1>. QED
  BY <1>1, <1>2, <1>3, Answered

\* The main context takes a request from the queue: it waits for its handler,
\* or is answered at once.
LEMMA IpcDeliverInvoke ==
    ASSUME IpcInv, DeliverInvoke
    PROVE  IpcInv'
<1>. DEFINE i == First(Main)
            m == q[i]
            s == RemoveAt(q, i)
<1>1. /\ HasMail(Main) /\ m.kind = "invoke"
      /\ \/ awaiting' = awaiting \cup {m} /\ q' = s /\ UNCHANGED <<result, lost>>
         \/ /\ PostResponse(s, m.src, m.n, "throws") /\ awaiting' = awaiting
            /\ result' = [result EXCEPT ![m.n] = "throws"]
      /\ UNCHANGED <<nextReq, open, cur, handler, pending, settled, sent, sends, got>>
  BY DEF DeliverInvoke
<1>2. /\ TypeOK /\ q \in Seq(Messages) /\ i \in 1 .. Len(q) /\ m \in Messages
      /\ Requested /\ Waiting /\ Answers /\ SettledByOwnAnswer
  BY <1>1, FirstFacts, FirstMessage DEF IpcInv, TypeOK
<1>3. /\ s \in Seq(Messages) /\ ToSet(s) \subseteq ToSet(q) /\ Once(s)
      /\ ReqsIn(s) = ReqsIn(q) \ {m} /\ m \in ReqsIn(q)
      /\ \A k \in ReqsIn(s) : k.n # m.n
  <2>1. Once(q) /\ q[i].kind # "send"
    BY <1>1, <1>2 DEF Requested
  <2>. HIDE DEF i
  <2>. QED
    BY <1>2, <2>1, CutFacts
<1>4. \A p : Numbers(s, p) = Numbers(q, p) /\ (Increasing(q, p) => Increasing(s, p))
  <2>1. \A p : i \notin SendsAt(q, p)
    BY <1>1 DEF SendsAt
  <2>. HIDE DEF i
  <2>. QED
    BY <1>2, <2>1, CutFacts
<1>. HIDE DEF i, m, s
<1>5. m \in Live /\ \A x \in awaiting : x.n # m.n
  BY <1>2, <1>3 DEF Requested, Live
<1>6. CASE PostResponse(s, m.src, m.n, "throws") /\ awaiting' = awaiting
           /\ result' = [result EXCEPT ![m.n] = "throws"]
  <2>1. \A x \in ReqsIn(s) \cup awaiting' : x.n # m.n
    BY <1>3, <1>5, <1>6
  <2>2. \A x \in Live : x # m => x \in ReqsIn(s) \cup awaiting'
    BY <1>3, <1>6 DEF Live
  <2>3. "throws" \in Results
    BY DEF Results
  <2>4. ReqsIn(s) \subseteq ReqsIn(q) /\ awaiting' \subseteq awaiting
    BY <1>3, <1>6
  <2>. QED
    BY <1>1, <1>3, <1>4, <1>5, <1>6, <2>1, <2>2, <2>3, <2>4, Answered
<1>7. CASE awaiting' = awaiting \cup {m} /\ q' = s /\ UNCHANGED <<result, lost>>
  <2>1. Live' = Live
    BY <1>3, <1>7 DEF Live
  <2>2. \A r : LostRequest(r)' <=> LostRequest(r)
    BY <1>7 DEF LostRequest
  <2>3. Requested'
    <3>1. \A x \in awaiting' : x.kind = "invoke" /\ \A y \in ReqsIn(q') : y.n # x.n
      BY <1>1, <1>2, <1>3, <1>7 DEF Requested
    <3>2. \A x, y \in awaiting' : x.n = y.n => x = y
      BY <1>2, <1>5, <1>7 DEF Requested
    <3>. QED
      BY <1>1, <1>2, <1>3, <1>7, <2>1, <2>2, <3>1, <3>2 DEF Requested
  <2>4. Waiting' /\ SettledByOwnAnswer'
    BY <1>1, <1>2, <1>7 DEF Waiting, SettledByOwnAnswer
  <2>5. Answers'
    BY <1>1, <1>2, <1>3, <1>7 DEF Answers
  <2>6. TypeOK'
    BY <1>1, <1>2, <1>3, <1>7 DEF TypeOK
  <2>7. Numbered' /\ InOrder'
    BY <1>1, <1>3, <1>4, <1>7, OrderKept
  <2>. QED
    BY <2>3, <2>4, <2>5, <2>6, <2>7 DEF IpcInv
<1>. QED
  BY <1>1, <1>6, <1>7

\* The renderer finds the request it waits for and settles it.
LEMMA IpcDeliverResponse ==
    ASSUME IpcInv, NEW c \in Contexts, DeliverResponse(c)
    PROVE  IpcInv'
<1>. DEFINE i == First(c)
            m == q[i]
            r == m.n
            how == IF m.ok /\ m.json # "undefined" THEN "resolved" ELSE "rejected"
<1>1. /\ HasMail(c) /\ m.kind = "resp" /\ q' = RemoveAt(q, i)
      /\ UNCHANGED <<nextReq, open, cur, handler, awaiting, result, sent, sends, got, lost>>
      /\ r \in pending[c] =>
            /\ pending' = [pending EXCEPT ![c] = @ \ {r}]
            /\ settled' = [settled EXCEPT ![r] = how]
  BY DEF DeliverResponse
<1>2. /\ TypeOK /\ q \in Seq(Messages) /\ i \in 1 .. Len(q) /\ m \in Messages /\ m.dst = c
      /\ Requested /\ Waiting /\ Answers /\ SettledByOwnAnswer
      /\ pending \in [Renderers -> SUBSET Requests]
      /\ settled \in [Requests -> {None, "resolved", "rejected"}]
  BY <1>1, FirstFacts, FirstMessage DEF IpcInv, TypeOK
<1>3. /\ q' \in Seq(Messages) /\ ToSet(q') \subseteq ToSet(q) /\ Once(q')
      /\ ReqsIn(q') = ReqsIn(q) \ {m} /\ m \in ReqsIn(q)
      /\ \A k \in ReqsIn(q') : k.n # r
  <2>1. Once(q) /\ q[i].kind # "send"
    BY <1>1, <1>2 DEF Requested
  <2>. HIDE DEF i
  <2>. QED
    BY <1>1, <1>2, <2>1, CutFacts
<1>4. \A p : Numbers(q', p) = Numbers(q, p) /\ (Increasing(q, p) => Increasing(q', p))
  <2>1. \A p : i \notin SendsAt(q, p)
    BY <1>1 DEF SendsAt
  <2>. HIDE DEF i
  <2>. QED
    BY <1>1, <1>2, <2>1, CutFacts
<1>. HIDE DEF i, m
<1>5. /\ m \in Live /\ c \in Renderers /\ r \in Requests /\ r \in pending[c]
      /\ r < nextReq /\ settled[r] = None
      /\ how = "rejected" <=> result[r] \in {"throws", "undefined"}
      /\ \A x \in awaiting : x.n # r
  <2>1. m \in Live /\ c \in Renderers /\ r \in Requests /\ Asker(m) = c
    BY <1>1, <1>2, <1>3, MessageFacts DEF Live, Asker
  <2>. QED
    BY <1>1, <1>2, <1>3, <2>1 DEF Requested, Answers
<1>6. how \in {"resolved", "rejected"}
  OBVIOUS
<1>. HIDE DEF how, r
<1>7. /\ \A x \in Requests : settled'[x] = IF x = r THEN how ELSE settled[x]
      /\ \A w \in Renderers : pending'[w] = IF w = c THEN pending[w] \ {r} ELSE pending[w]
      /\ settled' \in [Requests -> {None, "resolved", "rejected"}]
      /\ pending' \in [Renderers -> SUBSET Requests]
  BY <1>1, <1>2, <1>5, <1>6
<1>8. TypeOK'
  BY <1>1, <1>2, <1>3, <1>7 DEF TypeOK
<1>9. Numbered' /\ InOrder'
  BY <1>1, <1>3, <1>4, OrderKept
<1>10. Waiting' /\ Answers'
  BY <1>1, <1>2, <1>3, <1>7 DEF Waiting, Answers
<1>11. SettledByOwnAnswer'
  <2>1. \A w \in Renderers : r \notin pending'[w]
    BY <1>2, <1>5, <1>7 DEF Waiting
  <2>2. \A w \in Renderers : pending'[w] \subseteq pending[w]
    BY <1>7
  <2>. QED
    BY <1>1, <1>2, <1>5, <1>6, <1>7, <2>1, <2>2 DEF SettledByOwnAnswer
<1>12. Requested'
  <2>1. \A x : x \in Live' <=> x \in Live /\ x.n # r
    BY <1>1, <1>2, <1>3, <1>5 DEF Live, Requested, r
  <2>2. \A x : LostRequest(x)' <=> LostRequest(x)
    BY <1>1 DEF LostRequest
  <2>3. \A x \in Live : x.n \in Requests /\ Asker(x) \in Renderers
    <3>1. Live \subseteq Messages /\ \A x \in Live : x.kind # "send"
      BY <1>2 DEF Live, ReqsIn, Requested, TypeOK
    <3>. QED
      BY <3>1, MessageFacts
  <2>4. \A x \in Live' : /\ x.n < nextReq' /\ x.n \in pending'[Asker(x)]
                         /\ settled'[x.n] = None /\ ~LostRequest(x.n)'
    BY <1>1, <1>2, <1>7, <2>1, <2>2, <2>3 DEF Requested
  <2>5. \A x \in 1 .. nextReq' - 1 :
            settled'[x] = None /\ ~LostRequest(x)' => \E k \in Live' : k.n = x
    <3>. SUFFICES ASSUME NEW x \in 1 .. nextReq - 1, settled'[x] = None, ~LostRequest(x)
                  PROVE  \E k \in Live' : k.n = x
      BY <1>1, <2>2
    <3>1. x \in Requests
      BY <1>2, IpcAssumption DEF TypeOK, Requests
    <3>2. x # r /\ settled[x] = None
      BY <1>6, <1>7, <3>1 DEF None
    <3>. QED
      BY <1>2, <2>1, <3>2 DEF Requested
  <2>6. \A x \in Requests : settled'[x] # None => x < nextReq'
    BY <1>1, <1>2, <1>5, <1>7 DEF Requested
  <2>. QED
    BY <1>1, <1>2, <1>3, <2>4, <2>5, <2>6 DEF Requested
<1>. QED
  BY <1>8, <1>9, <1>10, <1>11, <1>12 DEF IpcInv
\* Handlers come and go, drains begin and end, windows close: no message moves.
LEMMA IpcFrame ==
    ASSUME IpcInv, UNCHANGED <<q, requests, sent, sends, got, lost>>,
           open' \subseteq open, cur' \in Contexts \cup {Nobody}, handler' \in BOOLEAN
    PROVE  IpcInv'
<1>1. TypeOK'
  BY DEF IpcInv, TypeOK, requests
<1>2. Requested' /\ Waiting' /\ Answers' /\ SettledByOwnAnswer'
  BY RequestsKept DEF IpcInv, Requested
<1>3. Numbered' /\ InOrder'
  BY OrderKept
<1>. QED
  BY <1>1, <1>2, <1>3 DEF IpcInv

\* The empty queue of mini_ipc_create satisfies the invariant.
LEMMA IpcInit == Init => IpcInv
<1>. SUFFICES ASSUME Init PROVE IpcInv
  OBVIOUS
<1>1. /\ q \in Seq(Messages) /\ ToSet(q) = {} /\ Len(q) = 0 /\ 1 .. 0 = {}
  BY EmptyFacts DEF Init
<1>2. ReqsIn(q) = {} /\ Once(q) /\ Live = {} /\ \A p : SendsAt(q, p) = {}
  BY <1>1 DEF ReqsIn, Once, Live, SendsAt, Init
<1>3. /\ 1 \in 1 .. MaxInvokes + 1 /\ 0 \in 0 .. MaxSends /\ 1 .. nextReq - 1 = {}
      /\ <<>> \in Seq(1 .. MaxSends)
  BY IpcAssumption DEF Init
<1>4. TypeOK
  BY <1>1, <1>3 DEF Init, TypeOK, Contexts, Nobody
<1>5. Requested /\ Waiting /\ Answers /\ SettledByOwnAnswer
  BY <1>2, <1>3 DEF Init, Requested, Waiting, Answers, SettledByOwnAnswer, None
<1>6. Numbered
  BY <1>1 DEF Init, Numbered
<1>7. ASSUME NEW p \in Pairs
      PROVE  Ordered(p)
  <2>1. got[p] = <<>> /\ ToSet(got[p]) = {} /\ Len(got[p]) = 0 /\ sent[p] = 0
    BY EmptyFacts DEF Init
  <2>2. Numbers(q, p) = {} /\ Increasing(q, p)
    BY <1>2 DEF Numbers, Increasing
  <2>. QED
    BY <1>1, <2>1, <2>2 DEF Ordered
<1>. QED
  BY <1>4, <1>5, <1>6, <1>7, OrderForm DEF IpcInv

\* IpcInv holds in every reachable state, whatever the number of renderers,
\* messages and requests and however often the queue cannot grow.
THEOREM IpcInvariant == Spec => []IpcInv
<1>1. IpcInv /\ [Next]_vars => IpcInv'
  <2>. SUFFICES ASSUME IpcInv, [Next]_vars PROVE IpcInv'
    OBVIOUS
  <2>1. ASSUME NEW p \in Pairs, PostSend(p[1], p[2]) PROVE IpcInv'
    BY <2>1, IpcPostSend
  <2>2. ASSUME NEW w \in Renderers, InvokeMain(w) PROVE IpcInv'
    BY <2>2, IpcInvokeMain
  <2>3. ASSUME NEW w \in Renderers, CloseWindow(w) PROVE IpcInv'
    BY <2>3, IpcFrame DEF CloseWindow, IpcInv, TypeOK
  <2>4. CASE SetHandler
    BY <2>4, IpcFrame DEF SetHandler, IpcInv, TypeOK
  <2>5. ASSUME NEW m \in awaiting, NEW res \in Results, HandlerSettles(m, res) PROVE IpcInv'
    BY <2>5, IpcHandlerSettles
  <2>6. ASSUME NEW c \in Contexts, DispatchBegin(c) \/ DispatchEnd(c) PROVE IpcInv'
    BY <2>6, IpcFrame DEF DispatchBegin, DispatchEnd, IpcInv, TypeOK
  <2>7. ASSUME NEW c \in Contexts, Deliver(c) PROVE IpcInv'
    BY <2>7, IpcDeliverSend, IpcDeliverResponse, IpcDeliverInvoke DEF Deliver
  <2>8. CASE UNCHANGED vars
    BY <2>8, IpcFrame DEF vars, requests, IpcInv, TypeOK
  <2>. QED
    BY <2>1, <2>2, <2>3, <2>4, <2>5, <2>6, <2>7, <2>8 DEF Next
<1>. QED
  BY <1>1, IpcInit, PTL DEF Spec

\* A request that is on its way has one place, any other has none.
LEMMA OnePlaceFollows == IpcInv => OnePlace
<1>. SUFFICES ASSUME IpcInv, NEW r \in 1 .. nextReq - 1
              PROVE  Cardinality(Places(r)) =
                        IF settled[r] # None \/ LostRequest(r) THEN 0 ELSE 1
  BY DEF OnePlace
<1>1. Requested /\ q \in Seq(Messages)
  BY DEF IpcInv, TypeOK
<1>2. \A i \in 1 .. Len(q) : q[i].kind \in {"invoke", "resp"} <=> q[i].kind # "send"
  BY <1>1, MessageFacts
<1>3. \A x : x \in Places(r) <=>
          \/ \E i \in 1 .. Len(q) : q[i].kind # "send" /\ q[i].n = r /\ x = <<"q", i>>
          \/ \E m \in awaiting : m.n = r /\ x = <<"await", m>>
  BY <1>2 DEF Places
<1>4. \A i \in 1 .. Len(q) : q[i].kind # "send" => q[i] \in Live /\ q[i] \in ReqsIn(q)
  BY DEF Live, ReqsIn
<1>5. \A m \in awaiting : m \in Live
  BY DEF Live
<1>6. CASE settled[r] # None \/ LostRequest(r)
  <2>1. \A m \in Live : m.n # r
    BY <1>1, <1>6 DEF Requested
  <2>2. Places(r) = {}
    BY <1>3, <1>4, <1>5, <2>1
  <2>. QED
    BY <1>6, <2>2, FS_EmptySet
<1>7. CASE settled[r] = None /\ ~LostRequest(r)
  <2>1. PICK m \in Live : m.n = r
    BY <1>1, <1>7 DEF Requested
  <2>2. \E x : Places(r) = {x}
    <3>1. CASE m \in awaiting
      <4>1. \A i \in 1 .. Len(q) : q[i].kind # "send" => q[i].n # r
        BY <1>1, <1>4, <2>1, <3>1 DEF Requested
      <4>2. \A k \in awaiting : k.n = r => k = m
        BY <1>1, <2>1, <3>1 DEF Requested
      <4>3. Places(r) = {<<"await", m>>}
        BY <1>3, <2>1, <3>1, <4>1, <4>2
      <4>. QED
        BY <4>3
    <3>2. CASE m \in ReqsIn(q)
      <4>1. PICK i \in 1 .. Len(q) : q[i].kind # "send" /\ q[i] = m
        BY <3>2 DEF ReqsIn
      <4>2. \A j \in 1 .. Len(q) : q[j].kind # "send" /\ q[j].n = r => j = i
        BY <1>1, <2>1, <4>1 DEF Requested, Once
      <4>3. \A k \in awaiting : k.n # r
        BY <1>1, <2>1, <3>2 DEF Requested
      <4>4. Places(r) = {<<"q", i>>}
        BY <1>3, <2>1, <4>1, <4>2, <4>3
      <4>. QED
        BY <4>4
    <3>. QED
      BY <3>1, <3>2 DEF Live
  <2>3. PICK x : Places(r) = {x}
    BY <2>2
  <2>. QED
    BY <1>7, <2>3, FS_Singleton
<1>. QED
  BY <1>6, <1>7

\* Every request is queued, awaited or answered in one place until its promise
\* is settled or ipc_push loses it, in states of the right type.
THEOREM AccountedCorrect == Spec => []Accounted
<1>1. IpcInv => Accounted
  BY OnePlaceFollows DEF IpcInv, Accounted
<1>. QED
  BY <1>1, IpcInvariant, PTL

\* The messages of one context to another arrive in the order they were sent,
\* none twice and none skipped but the lost ones.
THEOREM InOrderCorrect == Spec => []InOrder
BY IpcInvariant, PTL DEF IpcInv

\* A promise is settled by the answer of its own request's handler.
THEOREM SettledCorrect == Spec => []SettledByOwnAnswer
BY IpcInvariant, PTL DEF IpcInv
=============================================================================
