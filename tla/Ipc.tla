---------------------------------- MODULE Ipc ----------------------------------
(***************************************************************************)
(* Inter-context messages (mini_ipc.c and its JavaScript shim): one queue  *)
(* for the process, drained context by context, with the main context 0    *)
(* and one renderer context per secondary window.  ipcRenderer.invoke is a *)
(* request to the main context whose asynchronous handler posts a response.*)
(*                                                                         *)
(* All scripts run on the host thread.  cur is the context whose mailbox   *)
(* is being drained; between two drains any context that is still in the   *)
(* window list may run (timers, promise jobs, input, rAF callbacks).       *)
(***************************************************************************)
EXTENDS Integers, Sequences, FiniteSets, SequencesExt

CONSTANTS Renderers,     \* window ids of the renderer contexts
          MaxSends,      \* bound: IPC_SEND messages in the whole process
          MaxInvokes,    \* bound: requests in the whole process
          MaxDrops       \* bound: messages lost because the queue cannot grow

ASSUME IpcAssumption ==
    /\ Renderers \subseteq Nat \ {0} /\ MaxSends \in Nat /\ MaxInvokes \in Nat
    /\ MaxDrops \in Nat

Main == 0
Nobody == -1
None == "none"
Contexts == {Main} \cup Renderers
Pairs == ({Main} \X Renderers) \cup (Renderers \X {Main})
Requests == 1 .. MaxInvokes

\* What a handler's promise gives: a value with a JSON form, a value that has
\* none (a function), undefined, or an exception.
Results == {"json", "nojson", "undefined", "throws"}

VARIABLES
    q,          \* MiniIPC.q
    nextReq,    \* MiniIPC.next_req_id
    open,       \* renderers in the window list
    cur,        \* the context being drained, or Nobody
    handler,    \* whether mainHandlers has the channel
    awaiting,   \* requests whose handler has not settled
    pending,    \* pendingInvokes of each renderer
    result,     \* what the handler of a request gave
    settled,    \* how the renderer's promise was settled
    sent,       \* messages sent so far, per pair
    sends,      \* messages sent so far in the whole process
    got,        \* history: numbers of the messages delivered, per pair
    lost        \* history: messages the queue could not take

vars == <<q, nextReq, open, cur, handler, awaiting, pending, result, settled,
          sent, sends, got, lost>>
requests == <<nextReq, awaiting, pending, result, settled>>

Init ==
    /\ q = <<>> /\ nextReq = 1 /\ open = Renderers /\ cur = Nobody
    /\ handler = FALSE /\ awaiting = {}
    /\ pending = [w \in Renderers |-> {}]
    /\ result = [r \in Requests |-> None]
    /\ settled = [r \in Requests |-> None]
    /\ sent = [p \in Pairs |-> 0] /\ sends = 0 /\ got = [p \in Pairs |-> <<>>]
    /\ lost = {}

\* Context c may run script now.  While its mail is delivered the main context may
\* run script of a window itself (webContents.executeJavaScript, loadURL).
Runs(c) == /\ cur \in {Nobody, Main, c}
           /\ c \in open \cup {Main}

-----------------------------------------------------------------------------

Send(src, dst, n) == [kind |-> "send", src |-> src, dst |-> dst, n |-> n]
Invoke(w, r) == [kind |-> "invoke", src |-> w, dst |-> Main, n |-> r]
Response(w, r, ok, json) ==
    [kind |-> "resp", src |-> Main, dst |-> w, n |-> r, ok |-> ok, json |-> json]

\* Mutant: the newest message goes to the front.
PushFront(queue, m) == q' = <<m>> \o queue /\ UNCHANGED lost

\* ipc_push: append; a queue that cannot grow frees the message.
Push(queue, m) ==
    \/ q' = Append(queue, m) /\ UNCHANGED lost
    \/ /\ Cardinality(lost) < MaxDrops
       /\ q' = queue /\ lost' = lost \cup {m}

\* __ipcSend, event.reply, event.sender.send and webContents.send.
PostSend(src, dst) ==
    /\ Runs(src) /\ sends < MaxSends
    /\ Push(q, Send(src, dst, sent[<<src, dst>>] + 1))
    /\ sent' = [sent EXCEPT ![<<src, dst>>] = @ + 1] /\ sends' = sends + 1
    /\ UNCHANGED <<open, cur, handler, requests, got>>

\* ipcRenderer.invoke.
InvokeMain(w) ==
    /\ Runs(w) /\ nextReq \in Requests
    /\ nextReq' = nextReq + 1
    /\ Push(q, Invoke(w, nextReq))
    /\ pending' = [pending EXCEPT ![w] = @ \cup {nextReq}]
    /\ UNCHANGED <<open, cur, handler, awaiting, result, settled, sent, sends, got>>

\* ipcMain.handle and removeHandler.
SetHandler ==
    /\ Runs(Main) /\ handler' = ~handler
    /\ UNCHANGED <<q, open, cur, requests, sent, sends, got, lost>>

\* The response the async helper posts for each result.
PostResponse(queue, w, r, res) ==
    LET json == CASE res = "undefined" -> "undefined"
                  [] res = "nojson" -> "null"
                  [] OTHER -> "json"
    IN  Push(queue, Response(w, r, res # "throws", json))

\* Mutant: the request stays registered as awaiting.
HandlerSettlesAgain(m, res) ==
    /\ cur = Nobody /\ m \in awaiting
    /\ PostResponse(q, m.src, m.n, res)
    /\ result' = [result EXCEPT ![m.n] = res]
    /\ UNCHANGED <<nextReq, open, cur, handler, awaiting, pending, settled, sent, sends, got>>

\* A promise job of the main context: the awaited handler settles.
HandlerSettles(m, res) ==
    /\ cur = Nobody /\ m \in awaiting
    /\ PostResponse(q, m.src, m.n, res)
    /\ awaiting' = awaiting \ {m}
    /\ result' = [result EXCEPT ![m.n] = res]
    /\ UNCHANGED <<nextReq, open, cur, handler, pending, settled, sent, sends, got>>

-----------------------------------------------------------------------------
(* mini_ipc_dispatch.                                                      *)

HasMail(c) == \E i \in 1 .. Len(q) : q[i].dst = c
First(c) == CHOOSE i \in 1 .. Len(q) :
                q[i].dst = c /\ \A j \in 1 .. i - 1 : q[j].dst # c

DispatchBegin(c) ==
    /\ cur = Nobody /\ c \in open \cup {Main} /\ cur' = c
    /\ UNCHANGED <<q, open, handler, requests, sent, sends, got, lost>>

\* Listeners run (or nobody listens) in the order of arrival.
DeliverSend(c) ==
    /\ cur = c /\ HasMail(c) /\ q[First(c)].kind = "send"
    /\ LET m == q[First(c)] IN got' = [got EXCEPT ![<<m.src, c>>] = Append(@, m.n)]
    /\ q' = RemoveAt(q, First(c))
    /\ UNCHANGED <<open, cur, handler, requests, sent, sends, lost>>

\* Mutant: a request nobody handles is dropped.
DeliverInvokeSilent ==
    /\ cur = Main /\ HasMail(Main) /\ q[First(Main)].kind = "invoke"
    /\ awaiting' = IF handler THEN awaiting \cup {q[First(Main)]} ELSE awaiting
    /\ q' = RemoveAt(q, First(Main))
    /\ UNCHANGED <<nextReq, open, cur, handler, pending, result, settled, sent, sends, got, lost>>

\* The main context calls the handler. A missing handler, or one that throws
\* before its first await, posts its answer at once, behind everything queued.
DeliverInvoke ==
    /\ cur = Main /\ HasMail(Main) /\ q[First(Main)].kind = "invoke"
    /\ LET m == q[First(Main)]
           rest == RemoveAt(q, First(Main))
       IN  \/ /\ handler
              /\ awaiting' = awaiting \cup {m}
              /\ q' = rest
              /\ UNCHANGED <<result, lost>>
           \/ /\ PostResponse(rest, m.src, m.n, "throws")
              /\ result' = [result EXCEPT ![m.n] = "throws"]
              /\ UNCHANGED awaiting
    /\ UNCHANGED <<nextReq, open, cur, handler, pending, settled, sent, sends, got>>

\* Mutant: the entry of pendingInvokes is not deleted.
SettleKeepsPending(c) ==
    /\ cur = c /\ HasMail(c) /\ q[First(c)].kind = "resp"
    /\ LET m == q[First(c)] IN
         settled' = [settled EXCEPT ![m.n] = IF m.ok /\ m.json # "undefined"
                                             THEN "resolved" ELSE "rejected"]
    /\ q' = RemoveAt(q, First(c))
    /\ UNCHANGED <<nextReq, open, cur, handler, awaiting, pending, result, sent, sends, got, lost>>

\* __ipcResolveInvoke: the text 'undefined' is not JSON, so parsing it throws
\* and the promise is rejected.
DeliverResponse(c) ==
    /\ cur = c /\ HasMail(c) /\ q[First(c)].kind = "resp"
    /\ LET m == q[First(c)] IN
         IF m.n \in pending[c]
         THEN /\ pending' = [pending EXCEPT ![c] = @ \ {m.n}]
              /\ settled' = [settled EXCEPT ![m.n] =
                                IF m.ok /\ m.json # "undefined"
                                THEN "resolved" ELSE "rejected"]
         ELSE UNCHANGED <<pending, settled>>
    /\ q' = RemoveAt(q, First(c))
    /\ UNCHANGED <<nextReq, open, cur, handler, awaiting, result, sent, sends, got, lost>>

DispatchEnd(c) ==
    /\ cur = c /\ ~HasMail(c) /\ cur' = Nobody
    /\ UNCHANGED <<q, open, handler, requests, sent, sends, got, lost>>

\* The window is swept: its mail stays in the queue, nobody drains it.
CloseWindow(w) ==
    /\ cur = Nobody /\ w \in open /\ open' = open \ {w}
    /\ UNCHANGED <<q, cur, handler, requests, sent, sends, got, lost>>

-----------------------------------------------------------------------------

Deliver(c) == DeliverSend(c) \/ DeliverResponse(c) \/ (c = Main /\ DeliverInvoke)

Next ==
    \/ \E p \in Pairs : PostSend(p[1], p[2])
    \/ \E w \in Renderers : InvokeMain(w) \/ CloseWindow(w)
    \/ SetHandler
    \/ \E m \in awaiting, res \in Results : HandlerSettles(m, res)
    \/ \E c \in Contexts : DispatchBegin(c) \/ Deliver(c) \/ DispatchEnd(c)

Spec == Init /\ [][Next]_vars

\* The run loop drains every listed context again and again (strong fairness
\* of beginning, because other drains come in between), a drain proceeds, and
\* the application's handlers settle.
Fairness ==
    /\ \A c \in Contexts : SF_vars(DispatchBegin(c))
                           /\ WF_vars(Deliver(c)) /\ WF_vars(DispatchEnd(c))
    /\ \A r \in Requests : SF_vars(\E m \in awaiting, res \in Results :
                                       m.n = r /\ HandlerSettles(m, res))

FairSpec == Spec /\ Fairness

-----------------------------------------------------------------------------

Messages ==
    [kind : {"send"}, src : Contexts, dst : Contexts, n : 1 .. MaxSends]
      \cup [kind : {"invoke"}, src : Renderers, dst : {Main}, n : Requests]
      \cup [kind : {"resp"}, src : {Main}, dst : Renderers, n : Requests,
            ok : BOOLEAN, json : {"json", "null", "undefined"}]

(* The type of MiniIPC and of the tables of its script shim.                *)
TypeOK ==
    /\ q \in Seq(Messages)
    /\ nextReq \in 1 .. MaxInvokes + 1 /\ open \subseteq Renderers
    /\ cur \in Contexts \cup {Nobody} /\ handler \in BOOLEAN
    /\ awaiting \subseteq Messages
    /\ pending \in [Renderers -> SUBSET Requests]
    /\ result \in [Requests -> Results \cup {None}]
    /\ settled \in [Requests -> {None, "resolved", "rejected"}]
    /\ sent \in [Pairs -> 0 .. MaxSends] /\ sends \in 0 .. MaxSends
    /\ got \in [Pairs -> Seq(1 .. MaxSends)]
    /\ lost \subseteq Messages

\* Where the sends of pair p are in the queue.
Queued(p) == {i \in 1 .. Len(q) : q[i].kind = "send" /\ <<q[i].src, q[i].dst>> = p}

(* Messages of one context to another are delivered in the order they were  *)
(* sent, none twice, and none skipped except the ones ipc_push had no room  *)
(* for: what has been sent is what was delivered followed by what is queued,*)
(* across drains, interleaved requests and removals from the middle of the  *)
(* queue (ipc_push, mini_ipc_dispatch).                                     *)
InOrder ==
    \A p \in Pairs :
        /\ ToSet(got[p]) \cup {q[i].n : i \in Queued(p)} =
               {n \in 1 .. sent[p] : Send(p[1], p[2], n) \notin lost}
        /\ \A i, j \in 1 .. Len(got[p]) : i < j => got[p][i] < got[p][j]
        /\ \A i, j \in Queued(p) : i < j => q[i].n < q[j].n
        /\ \A n \in ToSet(got[p]), i \in Queued(p) : n < q[i].n

\* Where a request is: queued, awaiting its handler, answered in the queue.
Places(r) ==
    {<<"q", i>> : i \in {j \in 1 .. Len(q) : q[j].kind \in {"invoke", "resp"}
                                             /\ q[j].n = r}}
      \cup {<<"await", m>> : m \in {x \in awaiting : x.n = r}}

\* Its request or its answer was lost.
LostRequest(r) == \E m \in lost : m.kind # "send" /\ m.n = r

(* Each request is in exactly one place until its promise is settled, and   *)
(* in none afterwards or once ipc_push lost it: it is handled once, answered*)
(* once and settled once (js_ipc_invoke, __ipcDispatchInvokeMain,           *)
(* __ipcResolveInvoke).                                                     *)
OnePlace ==
    \A r \in 1 .. nextReq - 1 :
        Cardinality(Places(r)) =
            IF settled[r] # None \/ LostRequest(r) THEN 0 ELSE 1

(* A promise is settled by the answer to its own request, in the renderer   *)
(* that asked: rejected exactly if the handler threw, is missing or gave    *)
(* undefined.                                                               *)
SettledByOwnAnswer ==
    \A r \in Requests : settled[r] # None =>
        /\ settled[r] = "rejected" <=> result[r] \in {"throws", "undefined"}
        /\ \A w \in Renderers : r \notin pending[w]

(* Every request of a window that stays open is settled, unless ipc_push   *)
(* lost it: a handler that is missing, or removed while the request was on  *)
(* its way, still answers.                                                  *)
InvokesSettle ==
    \A w \in Renderers, r \in Requests :
        r \in pending[w] ~> (settled[r] # None \/ w \notin open \/ LostRequest(r))

(* A message of mini_ipc.c is accounted for: it is in one place, from the   *)
(* post to the answer, in a state of the right type.                        *)
Accounted == TypeOK /\ OnePlace
=============================================================================
