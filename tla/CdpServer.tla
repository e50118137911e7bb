---------------------------- MODULE CdpServer ----------------------------
(* The DevTools server (mini_cdp_server.c) with the part of its domains    *)
(* that re-enters it (Runtime.evaluate and Debugger of                     *)
(* mini_cdp_domains.c over quickjs_debug.c).                               *)
(*                                                                         *)
(* The server is one thread: the host calls mini_cdp_poll, which accepts,  *)
(* reads every client once and decodes and answers its frames.  A script   *)
(* that stops at a breakpoint calls mini_cdp_poll again, from inside the   *)
(* answer of the evaluate that runs it, until some client resumes it: the  *)
(* calls in progress are the variable stack, innermost first.  Clients     *)
(* connect, send, stall, resume scripts and go away at any moment.         *)
(*                                                                         *)
(* A client's bytes are items: the two halves of an HTTP request head,     *)
(* then frames.  A message is one text frame or several fragments, each of *)
(* some size; only its number, its method and where it starts matter.      *)
EXTENDS Naturals, Sequences, FiniteSets, ArrayOps

CONSTANTS Conns,     \* connections that clients open
          Slots,     \* 1..CDP_MAX_CLIENTS, the entries of clients[]
          MaxFrag,   \* CDP_MAX_FRAG, in the unit of the fragments' sizes
          MaxPauses, \* bound: pauses nested in one another
          Flaky,     \* connections whose client may stop reading
          Scenarios, \* bound: what the clients send (sends, a function on
                     \* Conns) and how many scripts the page runs (pages)
          NoConn     \* no connection

ASSUME SlotsAreIndices == IsFiniteSet(Slots) /\ Slots # {} /\ Slots = 1..Cardinality(Slots)
ASSUME Bounds == MaxFrag \in Nat \ {0} /\ MaxPauses \in Nat \ {0}
ASSUME Connections == IsFiniteSet(Conns) /\ Flaky \subseteq Conns /\ NoConn \notin Conns

\* a request to upgrade, or its two halves; any other request
Heads  == {"upgrade", "head", "rest", "http"}
Frames == {"text", "cont", "ping", "close", "huge"}
Methods == {"ack", "enable", "eval", "resume"}
\* n is the number of the message (0 for none of the script's), first tells
\* its first fragment
Items == [op : Heads \cup Frames, fin : BOOLEAN, size : 0..MaxFrag,
          n : Nat, first : BOOLEAN, method : Methods]

\* A client that keeps to the protocol: a request head, if any, comes first;
\* the messages are numbered in their order, one starts with a text frame,
\* goes on in the frames of its number, and has some bytes when it ends.
Conforms(s) ==
  LET Data == {q \in DOMAIN s : s[q].op \in {"text", "cont"}}
  IN /\ \A q \in DOMAIN s : s[q].n > 0 <=> q \in Data
     /\ \A q \in DOMAIN s : s[q].op \in Heads => q = 1 \/ (q = 2 /\ s[1].op = "head")
     /\ 2 \in DOMAIN s /\ s[1].op = "head" => s[2].op = "rest"
     /\ \A p, q \in Data : p < q => /\ s[p].n <= s[q].n
                                    /\ s[p].n = s[q].n => ~s[p].fin /\ s[q].op = "cont"
     /\ \A q \in Data : s[q].op = "cont" => \E p \in Data : p < q /\ s[p].n = s[q].n
     /\ \A q \in Data : s[q].fin => \E p \in Data : s[p].n = s[q].n /\ s[p].size > 0

ASSUME ScenariosAreScripts ==
  \A s \in Scenarios : s.pages \in Nat /\ s.sends \in [Conns -> Seq(Items)]
ASSUME ClientsConform == \A s \in Scenarios : \A k \in Conns : Conforms(s.sends[k])

VARIABLES script,   \* what every client sends, chosen at the start
          sent,     \* how much of it is sent
          peer,     \* "new", "open" or "gone"
          backlog,  \* connections waiting in accept()
          wire,     \* received by the kernel, not yet by recv()
          slot,     \* clients[]: fd, upgraded, rx and the fragment buffer
          stack,    \* calls in progress, innermost first
          paused,   \* JSDebugState.paused
          attached, \* the debugger's callbacks are set (Debugger.enable)
          runs,     \* page scripts yet to run
          got,      \* history: messages dispatched, by connection
          answers,  \* history: answers written, by connection
          held,     \* history: evaluations that were paused
          cut,      \* history: the last write failed part way, and in which call
          mixed     \* history: connections written to after such a write

peers == <<script, sent, peer, backlog, wire>>
history == <<got, answers, held, cut, mixed>>
cdpVars == <<peers, slot, stack, paused, attached, runs, history>>

NoClient == [fd |-> NoConn, upgraded |-> FALSE, rx |-> <<>>, frag |-> <<>>]
Poll(at, i) == [call |-> "poll", at |-> at, i |-> i, n |-> 0, of |-> NoConn]
\* a script that runs for message n of connection k, to be answered in slot
\* i, or for the page when k is NoConn
ScriptCall(i, k, n) == [call |-> "script", at |-> "", i |-> i, n |-> n, of |-> k]
\* at says whether this pause was asked to end or had a pause inside it
Pause(why) == [call |-> "pause", at |-> why, i |-> 0, n |-> 0, of |-> NoConn]

CdpInit == /\ \E s \in Scenarios : script = s.sends /\ runs = s.pages
           /\ sent = [k \in Conns |-> 0]
           /\ peer = [k \in Conns |-> "new"]
           /\ backlog = <<>>
           /\ wire = [k \in Conns |-> <<>>]
           /\ slot = [i \in Slots |-> NoClient]
           /\ stack = <<>>
           /\ paused = FALSE /\ attached = FALSE
           /\ got = [k \in Conns |-> <<>>]
           /\ answers = [k \in Conns |-> <<>>]
           /\ held = {}
           /\ cut = [k \in Conns |-> "no"]
           /\ mixed = {}

(***************************** the clients *******************************)

Connected(k) == \E i \in Slots : slot[i].fd = k
Queued(k) == \E p \in DOMAIN backlog : backlog[p] = k
Resume == [op |-> "text", fin |-> TRUE, size |-> 1, n |-> 0, first |-> TRUE,
           method |-> "resume"]
\* a client has a resume on its way
Resuming(k) == \E i \in Slots : slot[i].fd = k
                  /\ Resume \in {(slot[i].rx \o wire[k])[p] :
                                   p \in 1..(Len(slot[i].rx) + Len(wire[k]))}

PeerConnects(k) ==
  /\ peer[k] = "new" /\ script[k] # <<>>
  /\ peer' = [peer EXCEPT ![k] = "open"]
  /\ backlog' = Append(backlog, k)
  /\ UNCHANGED <<script, sent, wire, slot, stack, paused, attached, runs, history>>

PeerSends(k) ==
  /\ peer[k] = "open" /\ (Connected(k) \/ Queued(k))
  /\ sent[k] < Len(script[k])
  /\ sent' = [sent EXCEPT ![k] = @ + 1]
  /\ wire' = [wire EXCEPT ![k] = Append(@, script[k][sent'[k]])]
  /\ UNCHANGED <<script, peer, backlog, slot, stack, paused, attached, runs, history>>

\* the user of a front end that shows the script stopped lets it go on; a
\* client sends no message in the middle of another
BetweenMessages(k) ==
  sent[k] > 0 => script[k][sent[k]].fin /\ script[k][sent[k]].op # "ping"
PeerResumes(k) ==
  /\ peer[k] = "open" /\ paused /\ ~Resuming(k) /\ BetweenMessages(k)
  /\ \E i \in Slots : slot[i].fd = k /\ slot[i].upgraded
  /\ wire' = [wire EXCEPT ![k] = Append(@, Resume)]
  /\ UNCHANGED <<script, sent, peer, backlog, slot, stack, paused, attached, runs, history>>

PeerLeaves(k) ==
  /\ peer[k] = "open" /\ (Connected(k) \/ Queued(k))
  /\ peer' = [peer EXCEPT ![k] = "gone"]
  /\ UNCHANGED <<script, sent, backlog, wire, slot, stack, paused, attached, runs, history>>

(****************************** writing **********************************)

\* connections in S are written to and those in F of them fail part way
Write(S, F, how) ==
  /\ cut' = [k \in Conns |-> IF k \in F /\ cut[k] = "no" THEN how ELSE cut[k]]
  /\ mixed' = mixed \cup {k \in S : cut[k] # "no"}

Upgraded(s) == {s[i].fd : i \in {j \in Slots : s[j].upgraded}}

Dropping(s, F) == [i \in Slots |-> IF s[i].fd \in F THEN NoClient ELSE s[i]]

\* mini_cdp_broadcast: every client, and those that fail are dropped
Broadcast(s) ==
  \E F \in SUBSET (Flaky \cap Upgraded(s)) :
     slot' = Dropping(s, F) /\ Write(Upgraded(s), F, "checked")

\* Mutant: an answer is written to every client.
ReplyToAll(s, i, k, n) ==
  /\ slot' = s /\ UNCHANGED <<cut, mixed>>
  /\ answers' = [l \in Conns |-> IF l \in Upgraded(s) /\ n # 0
                                 THEN Append(answers[l], [of |-> k, n |-> n]) ELSE answers[l]]

\* mini_cdp_send_client: the answer to message n of k goes to whoever is in
\* slot i now
Reply(s, i, k, n) ==
  IF ~s[i].upgraded
  THEN slot' = s /\ UNCHANGED <<answers, cut, mixed>>
  ELSE \E F \in SUBSET (Flaky \cap {s[i].fd}) :
         /\ slot' = Dropping(s, F)
         /\ Write({s[i].fd}, F, "checked")
         /\ answers' = IF F # {} \/ n = 0 THEN answers
                       ELSE [answers EXCEPT ![s[i].fd] = Append(@, [of |-> k, n |-> n])]

(***************************** one poll **********************************)

\* the innermost pause, marked
MarkPause(stk, why) ==
  LET P == {p \in DOMAIN stk : stk[p].call = "pause"}
  IN IF P = {} THEN stk
     ELSE [stk EXCEPT ![CHOOSE p \in P : \A q \in P : p <= q] = Pause(why)]

Top == Head(stack)
Call(f) == stack' = <<f>> \o stack
Become(f) == stack' = <<f>> \o Tail(stack)
Return == stack' = Tail(stack)
In(call, at) == stack # <<>> /\ Top.call = call /\ Top.at = at
\* Mutant: the last slot is not served.
NextClientShort(s, i) ==
  LET R == {j \in Slots : j > i /\ j + 1 \in Slots /\ s[j].fd # NoConn}
  IN IF R = {} THEN Poll("flush", 0) ELSE Poll("serve", CHOOSE j \in R : \A q \in R : j <= q)

\* on to the next client behind slot i of s, or to the end of the poll
NextClient(s, i) ==
  LET R == {j \in Slots : j > i /\ s[j].fd # NoConn}
  IN IF R = {} THEN Poll("flush", 0) ELSE Poll("serve", CHOOSE j \in R : \A q \in R : j <= q)

\* The host's loop, or the pause's nested loop, calls mini_cdp_poll, which
\* accepts: the p-th connection in the queue gets the p-th free slot, and
\* when there is none the next one is closed and the others wait.
PollStarts ==
  /\ stack # <<>> => (Top.call = "pause" /\ paused)
  /\ LET Free == {i \in Slots : slot[i].fd = NoConn}
         Rank(i) == Cardinality({j \in Free : j <= i})
         taken == IF Len(backlog) > Cardinality(Free) THEN Cardinality(Free) + 1
                  ELSE Len(backlog)
     IN /\ slot' = [i \in Slots |-> IF i \in Free /\ Rank(i) <= Len(backlog)
                                    THEN [NoClient EXCEPT !.fd = backlog[Rank(i)]]
                                    ELSE slot[i]]
        /\ backlog' = SubSeq(backlog, taken + 1, Len(backlog))
  /\ Call(NextClient(slot', 0))
  /\ UNCHANGED <<script, sent, peer, wire, paused, attached, runs, history>>

\* recv() returns 0, or an error that discards what has arrived
Ended ==
  /\ In("poll", "serve") /\ slot[Top.i].fd # NoConn
  /\ peer[slot[Top.i].fd] = "gone"
  /\ wire' = [wire EXCEPT ![slot[Top.i].fd] = <<>>]
  /\ slot' = [slot EXCEPT ![Top.i] = NoClient]
  /\ Become(NextClient(slot, Top.i))
  /\ UNCHANGED <<script, sent, peer, backlog, paused, attached, runs, history>>

\* what the bytes of a client that is not upgraded are so far: "other" is a
\* plain request, a head that does not fit or one that lost its start
RequestHead(rx) ==
  IF rx = <<>> THEN "partial"
  ELSE IF rx[1].op = "upgrade" THEN "upgrade"
  ELSE IF rx[1].op # "head" THEN "other"
  ELSE IF Len(rx) = 1 THEN "partial" ELSE "upgrade"

\* Mutant: what came behind the request head is thrown away.
BehindHeadNothing(rx) == <<>>

\* the request head is one item or two
BehindHead(rx) == IF rx[1].op = "upgrade" THEN Tail(rx) ELSE SubSeq(rx, 3, Len(rx))

\* recv(), then the request head of a client that is not upgraded yet
Serve ==
  /\ In("poll", "serve") /\ slot[Top.i].fd # NoConn
  /\ LET i == Top.i
         k == slot[i].fd
         rx == slot[i].rx \o wire[k]
         request == IF slot[i].upgraded THEN "none" ELSE RequestHead(rx)
     IN /\ ~(wire[k] = <<>> /\ peer[k] = "gone")
        /\ wire' = [wire EXCEPT ![k] = <<>>]
        /\ \/ /\ request = "none"
              /\ slot' = [slot EXCEPT ![i].rx = rx]
              /\ Become(IF rx = <<>> THEN NextClient(slot, i) ELSE Poll("frames", i))
           \/ /\ request = "partial"
              /\ slot' = [slot EXCEPT ![i].rx = rx]
              /\ Become(NextClient(slot, i))
           \/ \* do_handshake keeps what came behind the head
              /\ request = "upgrade"
              /\ slot' = [slot EXCEPT ![i].rx = BehindHead(rx), ![i].upgraded = TRUE]
              /\ Become(Poll("frames", i))
           \/ \* answered and closed, or the handshake's answer was not written
              /\ request = "other" \/ (request = "upgrade" /\ k \in Flaky)
              /\ slot' = [slot EXCEPT ![i] = NoClient]
              /\ Become(NextClient(slot, i))
  /\ UNCHANGED <<script, sent, peer, backlog, paused, attached, runs, history>>

(***************************** the frame loop ****************************)

\* the next item of the slot that the innermost poll decodes
Decoding == In("poll", "frames") /\ slot[Top.i].rx # <<>>
Item == Head(slot[Top.i].rx)
Consumed == [slot EXCEPT ![Top.i].rx = Tail(@)]

SizeOf(parts) == LET Total[p \in 0..Len(parts)] ==
                       IF p = 0 THEN 0 ELSE Total[p - 1] + parts[p].size
                 IN Total[Len(parts)]

\* cdp_frag_append: a message past CDP_MAX_FRAG is forgotten
FragAppend(parts, item) ==
  IF item.size = 0 THEN parts
  ELSE IF SizeOf(parts) + item.size > MaxFrag THEN <<>> ELSE Append(parts, item)

\* a ping is answered and a pong ignored; whether the pong went out is not
\* looked at
DecodePing ==
  /\ Decoding /\ Item.op = "ping"
  /\ slot' = Consumed
  /\ \E F \in SUBSET (Flaky \cap {slot[Top.i].fd}) :
        Write({slot[Top.i].fd}, F, "unchecked")
  /\ UNCHANGED <<peers, stack, paused, attached, runs, got, answers, held>>

\* a close is echoed and a frame that cannot fit ends the connection
DecodeLast ==
  /\ Decoding /\ Item.op \in {"close", "huge"}
  /\ slot' = [slot EXCEPT ![Top.i] = NoClient]
  /\ IF Item.op = "close"
     THEN \E F \in SUBSET (Flaky \cap {slot[Top.i].fd}) :
             Write({slot[Top.i].fd}, F, "unchecked")
     ELSE UNCHANGED <<cut, mixed>>
  /\ Become(NextClient(slot, Top.i))
  /\ UNCHANGED <<peers, paused, attached, runs, got, answers, held>>

\* the first fragment of a message starts over, the others are added
DecodeFragment ==
  /\ Decoding /\ Item.op \in {"text", "cont"} /\ ~Item.fin
  /\ slot' = [Consumed EXCEPT ![Top.i].frag =
                FragAppend(IF Item.op = "text" THEN <<>> ELSE @, Item)]
  /\ UNCHANGED <<peers, stack, paused, attached, runs, history>>

\* a nested poll put another client into the slot: the start of its request
\* head is taken for a frame, which may or may not be complete
DecodeHead ==
  /\ Decoding /\ Item.op = "head"
  /\ \/ slot' = [Consumed EXCEPT ![Top.i].frag = FragAppend(@, Item)] /\ UNCHANGED stack
     \/ slot' = slot /\ Become(NextClient(slot, Top.i))
  /\ UNCHANGED <<peers, paused, attached, runs, history>>

FramesDone ==
  /\ In("poll", "frames") /\ slot[Top.i].rx = <<>>
  /\ Become(NextClient(slot, Top.i))
  /\ UNCHANGED <<peers, slot, paused, attached, runs, history>>

\* the message a final frame completes, and the fragments that remain; a
\* text frame in the middle of a message drops what there was of it
TakeMessage ==
  IF Item.op = "cont" /\ slot[Top.i].frag # <<>>
  THEN [parts |-> FragAppend(slot[Top.i].frag, Item), rest |-> <<>>]
  ELSE [parts |-> <<Item>>, rest |-> <<>>]

\* cdp_handle and mini_cdp_dispatch.  The rest of a message whose start was
\* forgotten has no method and no id: it is not answered.
DecodeMessage ==
  /\ Decoding /\ Item.op \in {"text", "cont"} /\ Item.fin
  /\ LET i == Top.i
         k == slot[i].fd
         msg == TakeMessage
         parts == msg.parts
         n == parts[1].n
         after == [Consumed EXCEPT ![i].frag = msg.rest]
         dispatched == [got EXCEPT ![k] = Append(@, parts)]
         here(method) == parts # <<>> /\ parts[1].first /\ parts[1].method = method
     IN \/ \* too big, or no method
           /\ parts = <<>> \/ ~parts[1].first
           /\ slot' = after
           /\ got' = IF parts = <<>> THEN got ELSE dispatched
           /\ UNCHANGED <<stack, paused, attached, answers, held, cut, mixed>>
        \/ /\ here("ack")
           /\ got' = dispatched
           /\ Reply(after, i, k, n)
           /\ UNCHANGED <<stack, paused, attached, held>>
        \/ \* the answer, then the scripts, to everyone
           /\ here("enable")
           /\ got' = dispatched
           /\ attached' = TRUE
           /\ Broadcast(after)
           /\ answers' \in {answers, [answers EXCEPT ![k] = Append(@, [of |-> k, n |-> n])]}
           /\ slot'[i].fd = k => answers' # answers
           /\ UNCHANGED <<stack, paused, held>>
        \/ /\ here("resume")
           /\ got' = IF n = 0 THEN got ELSE dispatched
           /\ paused' = FALSE
           /\ Reply(after, i, k, n)
           /\ stack' = MarkPause(stack, "asked")
           /\ UNCHANGED <<attached, held>>
        \/ /\ here("eval")
           /\ got' = dispatched
           /\ slot' = after
           /\ Call(ScriptCall(i, k, n))
           /\ UNCHANGED <<paused, attached, answers, held, cut, mixed>>
  /\ UNCHANGED <<peers, runs>>

Flush ==
  /\ In("poll", "flush")
  /\ Broadcast(slot) \/ UNCHANGED <<slot, cut, mixed>>
  /\ Return
  /\ UNCHANGED <<peers, paused, attached, runs, got, answers, held>>

(******************************* scripts *********************************)

PageScript ==
  /\ stack = <<>> /\ runs > 0
  /\ runs' = runs - 1
  /\ Call(ScriptCall(0, NoConn, 0))
  /\ UNCHANGED <<peers, slot, paused, attached, history>>

\* mini_cdp_emit_log: to every client, and nobody looks at failures
ScriptLogs ==
  /\ In("script", "")
  /\ \E F \in SUBSET (Flaky \cap Upgraded(slot)) : Write(Upgraded(slot), F, "unchecked")
  /\ UNCHANGED <<peers, slot, stack, paused, attached, runs, got, answers, held>>

\* jdbg_do_pause and cdp_debug_on_pause
ScriptPauses ==
  /\ In("script", "") /\ attached
  /\ Cardinality({p \in DOMAIN stack : stack[p].call = "pause"}) < MaxPauses
  /\ paused' = TRUE
  /\ Broadcast(slot)
  /\ held' = IF Top.of = NoConn THEN held ELSE held \cup {[of |-> Top.of, n |-> Top.n]}
  /\ Call(Pause(""))
  /\ UNCHANGED <<peers, attached, runs, got, answers>>

\* Mutant: the loop also ends when no client is left to resume the script.
ResumedOrAlone == ~paused \/ \A i \in Slots : ~slot[i].upgraded

\* the nested loop's condition
Resumed == ~paused

\* the loop ends, and so does the one of a pause around this one: its
\* condition reads the same flag
PauseEnds ==
  /\ stack # <<>> /\ Top.call = "pause" /\ Resumed
  /\ paused' = FALSE
  /\ Broadcast(slot)
  /\ stack' = MarkPause(Tail(stack), "inner")
  /\ UNCHANGED <<peers, attached, runs, got, answers, held>>

ScriptEnds ==
  /\ In("script", "")
  /\ Return
  /\ IF Top.of = NoConn
     THEN UNCHANGED <<slot, answers, cut, mixed>>
     ELSE Reply(slot, Top.i, Top.of, Top.n)
  /\ UNCHANGED <<peers, paused, attached, runs, got, held>>

(*************************************************************************)

Server == \/ PollStarts \/ Ended \/ Serve
          \/ DecodePing \/ DecodeLast \/ DecodeFragment \/ DecodeHead
          \/ DecodeMessage \/ FramesDone \/ Flush \/ PauseEnds

Client(k) == PeerConnects(k) \/ PeerSends(k) \/ PeerResumes(k) \/ PeerLeaves(k)

CdpNext == \/ Server
           \/ PageScript \/ ScriptLogs \/ ScriptPauses \/ ScriptEnds
           \/ \E k \in Conns : Client(k)

CdpSpec == CdpInit /\ [][CdpNext]_cdpVars

\* The host polls in every turn of its loop and the pause polls until it is
\* resumed; a script that is not stopped ends; a client sends what it has to
\* send, and the user of a connected front end resumes a stopped script.
CdpFairness == /\ WF_cdpVars(Server)
               /\ SF_cdpVars(ScriptEnds)
               /\ WF_cdpVars(\E k \in Conns : PeerSends(k))
               /\ WF_cdpVars(\E k \in Conns : PeerResumes(k))

CdpFairSpec == CdpSpec /\ CdpFairness

(****************************** properties *******************************)

\* The type of the slots, the calls in progress and the sockets; the flag of
\* the debugger is set only while a pause is on the stack.
CdpTypeOK ==
  /\ sent \in [Conns -> Nat]
  /\ peer \in [Conns -> {"new", "open", "gone"}]
  /\ backlog \in Seq(Conns)
  /\ wire \in [Conns -> Seq(Items)]
  /\ slot \in [Slots -> [fd : Conns \cup {NoConn}, upgraded : BOOLEAN,
                         rx : Seq(Items), frag : Seq(Items)]]
  /\ stack \in Seq([call : {"poll", "script", "pause"}, n : Nat, i : Slots \cup {0},
                    at : {"", "serve", "frames", "flush", "asked", "inner"},
                    of : Conns \cup {NoConn}])
  /\ paused \in BOOLEAN /\ attached \in BOOLEAN
  /\ paused => \E p \in DOMAIN stack : stack[p].call = "pause"
  /\ answers \in [Conns -> Seq([of : Conns, n : Nat])]
  /\ cut \in [Conns -> {"no", "checked", "unchecked"}]

\* A slot holds what one client sent: whatever was received or is being
\* assembled in it came from the connection that is in it now, no connection
\* is in two slots, and a free slot is empty (cdp_drop_client and the reset
\* in mini_cdp_poll's accept, whatever poll was interrupted by a nested one).
SlotIsOneClient ==
  /\ \A i \in Slots : slot[i].fd = NoConn => slot[i] = NoClient
  /\ \A i, j \in Slots : slot[i].fd = slot[j].fd /\ slot[i].fd # NoConn => i = j
  /\ \A i \in Slots : LET k == slot[i].fd
                          kept == slot[i].rx \o slot[i].frag
                      IN \A p \in DOMAIN kept :
                           kept[p] = Resume \/ \E q \in 1..sent[k] : script[k][q] = kept[p]

\* the fragments of message n of k that carry bytes
Fragments(k, n) ==
  LET sends == {script[k][q] : q \in DOMAIN script[k]}
  IN Filter(script[k], {item \in sends : item.n = n /\ item.size > 0})

\* A message is dispatched whole, once and in the order of the stream,
\* however it was cut into frames and whatever came in between; only the end
\* of a message larger than CDP_MAX_FRAG is dispatched for a message of its
\* own (mini_cdp_poll ignores that cdp_frag_append failed).
WholeMessages ==
  \A k \in Conns :
    LET Whole(p) == got[k][p] = Fragments(k, got[k][p][1].n)
    IN /\ \A p \in DOMAIN got[k] :
             Whole(p) \/ SizeOf(Fragments(k, got[k][p][1].n)) > MaxFrag
       /\ \A p, q \in DOMAIN got[k] :
             p < q => got[k][p][1].n < got[k][q][1].n

\* An answer is written once, and to the client that asked.  The exception is
\* an evaluation that was stopped in the debugger while its client left: its
\* answer goes to whoever was accepted into the slot in the meantime
\* (mini_cdp_send_client takes the index of the slot).
AnswersReachTheAsker ==
  /\ \A k \in Conns : \A p \in DOMAIN answers[k] :
        \/ answers[k][p].of = k
        \/ answers[k][p] \in held /\ ~Connected(answers[k][p].of)
  /\ \A k, l \in Conns : \A p \in DOMAIN answers[k], q \in DOMAIN answers[l] :
        answers[k][p] = answers[l][q] => k = l /\ p = q

\* A client never receives a frame after half of another one: a write that
\* fails part way closes the connection ("On hard send failure the client is
\* dropped (its socket is wedged)").  Console lines, pongs and close echoes
\* are written without looking at the result, and only those may be followed.
NothingAfterACutFrame == \A k \in mixed : cut[k] = "unchecked"

\* A stopped script goes on only when a client asked it to, or when a script
\* that stopped inside its pause was asked to: the two loops read one flag
\* (cdp_debug_on_pause, js_debug_request_resume).
StoppedUntilResumed ==
  [][(stack # <<>> /\ Top.call = "pause" /\ Len(stack') < Len(stack))
        => Top.at # ""]_cdpVars

\* Every message that a client sent is answered, or its connection is closed:
\* nothing that the other clients send, leave unfinished or stop in the
\* debugger keeps the server from it.  (A message once sent stays sent and an
\* answer stays written, and the clients send finitely many: so this is said
\* of all of them from some moment on.)
Asked(k, q) == /\ script[k][q].n > 0 /\ script[k][q].fin
               /\ SizeOf(Fragments(k, script[k][q].n)) <= MaxFrag
Answered(k, n) == \E p \in DOMAIN answers[k] : answers[k][p] = [of |-> k, n |-> n]
RequestsAnswered ==
  <>[](\A k \in Conns : Connected(k) \/ Queued(k) =>
         \A q \in 1..sent[k] : Asked(k, q) => Answered(k, script[k][q].n))

\* The slot of a client that went away is given back, even while a script is
\* stopped and nobody is left to resume it (the nested loop polls too).
GoneIsDropped == <>[](\A k \in Conns : peer[k] = "gone" => ~Connected(k))

\* What a client sends and what it is sent stays in one piece, in its own slot
\* (mini_cdp_poll, ws_decode_one, cdp_send).
StreamsStayWhole == CdpTypeOK /\ SlotIsOneClient /\ WholeMessages /\ NothingAfterACutFrame

\* Clients are served: answered while they stay, forgotten when they go
\* (mini_cdp_poll).
ClientsAreServed == RequestsAnswered /\ GoneIsDropped
=============================================================================
