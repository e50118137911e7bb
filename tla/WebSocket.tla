------------------------------- MODULE WebSocket -------------------------------
(***************************************************************************)
(* The WebSocket client (mini_websocket.c) and its binding in the bridge   *)
(* (mini_js_bridge.c), for one connection: the handshake, the pump the host*)
(* loop calls, the reassembly of fragmented messages, the callbacks into   *)
(* the script and the end of the connection.                               *)
(*                                                                         *)
(* The peer and the network are external.  The peer's frames are an opcode,*)
(* a final bit and a size; a size, like the receive buffer, is counted in  *)
(* units that stand for a number of bytes.  A frame is named by its place  *)
(* in sent.  How much of the stream has arrived is decided by each recv.   *)
(***************************************************************************)
EXTENDS Integers, Sequences, FiniteSets, SequencesExt, FiniteSetsExt, ArrayOps

CONSTANTS RBUF,         \* capacity of rbuf, in units
          Frames,       \* the kinds of frames the peer sends
          Lengths,      \* lengths of the reasons the script closes with
          MaxFrames,    \* bound: frames of the peer
          MaxSkip       \* bound: units that are decoded out of step

ASSUME WebSocketAssumption ==
    /\ RBUF \in Nat \ {0}
    /\ Frames \subseteq [op : {"TEXT", "BIN", "CONT", "CLOSE", "PING", "PONG"},
                        fin : BOOLEAN, size : Nat \ {0}]
    /\ \A f \in Frames : f.op \in {"CLOSE", "PING", "PONG"} => f.fin
    /\ Lengths \subseteq Nat /\ MaxFrames \in Nat /\ MaxSkip \in Nat

VARIABLES
    sent,       \* frames of the peer, each with its end in the stream
    peer,       \* the peer's side of the socket: "up", "eof" or "reset"
    state,      \* MiniWS.state; "none" before mini_ws_connect returned
    alive,      \* the handle exists and is in ws_list
    pc,         \* where bridge_pump_websockets is
    inScript,   \* a callback of the script is running
    opened,     \* dispatched_open
    rlen,       \* units in rbuf
    handled,    \* frames taken out of the stream
    frag,       \* fragments of the message being put together
    swallowed,  \* frames that came with the handshake response
    skip,       \* units taken behind the handled frames, once out of step
    told,       \* the client sent a close frame
    evs         \* history: events given to the script

wire == <<sent, peer>>
wsVars == <<sent, peer, state, alive, pc, inScript, opened, rlen, handled,
          frag, swallowed, skip, told, evs>>

Data == {"TEXT", "BIN"}
Event(type, frames) == [type |-> type, frames |-> frames]
Fire(type, frames) == evs' = Append(evs, Event(type, frames))

\* Units in the first k frames, in one frame, and in those not yet read.
Units(k) == IF k = 0 THEN 0 ELSE sent[k].end
Size(k) == Units(k) - Units(k - 1)
Unread == Units(Len(sent)) - Units(handled) - skip - rlen

WsInit ==
    /\ sent = <<>> /\ peer = "up"
    /\ state = "none" /\ alive = FALSE /\ pc = "idle" /\ inScript = FALSE
    /\ opened = FALSE /\ rlen = 0 /\ handled = 0 /\ frag = <<>>
    /\ swallowed = 0 /\ skip = 0 /\ told = FALSE /\ evs = <<>>

-----------------------------------------------------------------------------
(* The peer: it sends nothing after a close frame. *)

PeerClosed == \E k \in DOMAIN sent : sent[k].op = "CLOSE"

\* Sends a frame and leaves the client alone.
PeerFrame(op, fin, size) ==
    /\ peer = "up" /\ ~PeerClosed
    /\ sent' = Append(sent, [op |-> op, fin |-> fin, end |-> Units(Len(sent)) + size])
    /\ UNCHANGED <<peer, state, alive, pc, inScript, opened, rlen, handled, frag,
                   swallowed, skip, told, evs>>

PeerSends ==
    /\ Len(sent) < MaxFrames
    /\ \E f \in Frames : PeerFrame(f.op, f.fin, f.size)

\* It answers a close frame with one.
PeerAnswersClose == told /\ PeerFrame("CLOSE", TRUE, 1)

\* It closes or resets the connection.
PeerEnds(how) ==
    /\ peer = "up" /\ peer' = how
    /\ UNCHANGED <<sent, state, alive, pc, inScript, opened, rlen, handled, frag,
                   swallowed, skip, told, evs>>

-----------------------------------------------------------------------------
(* The script. *)

ScriptRuns == alive /\ (pc = "idle" \/ inScript)

\* mini_ws_connect in the constructor.  ws_recv_handshake reads in blocks until
\* the end of the response's headers and drops what followed them: k frames of
\* the peer, and of the one behind them the first n units.
Connect ==
    /\ state = "none" /\ peer # "reset"
    /\ \E k \in 0 .. Len(sent) :
          /\ swallowed' = k /\ handled' = k
          /\ \E n \in 0 .. (IF k < Len(sent) THEN Size(k + 1) - 1 ELSE 0) : skip' = n
    /\ state' = "OPEN" /\ alive' = TRUE
    /\ UNCHANGED <<wire, pc, inScript, opened, rlen, frag, told, evs>>

\* Length of an encoded frame; all senders encode into 14 bytes.
Encoded(plen) ==
    2 + (IF plen < 126 THEN 0 ELSE IF plen <= 65535 THEN 2 ELSE 8) + 4 + plen
Fits(plen) == Encoded(plen) <= 14

\* js_ws_close: the code takes two bytes of the payload.  js_ws_send, which
\* leaves the connection as it is, has no action.
JsClose(len) ==
    /\ ScriptRuns /\ state # "CLOSED"
    /\ state' = "CLOSING"
    /\ told' = (told \/ Fits(2 + len))
    /\ UNCHANGED <<wire, alive, pc, inScript, opened, rlen, handled, frag,
                   swallowed, skip, evs>>

\* mini_ws_destroy from mini_bridge_destroy.
BridgeDestroy ==
    /\ alive /\ pc = "idle"
    /\ alive' = FALSE
    /\ told' = (told \/ state \in {"OPEN", "CLOSING"})
    /\ state' = "CLOSED"
    /\ UNCHANGED <<wire, pc, inScript, opened, rlen, handled, frag, swallowed,
                   skip, evs>>

-----------------------------------------------------------------------------
(* mini_ws_pump. *)

\* The deferred onopen.
PumpStarts ==
    /\ alive /\ pc = "idle" /\ state # "CLOSED"
    /\ pc' = "recv"
    /\ IF ~opened /\ state = "OPEN"
       THEN opened' = TRUE /\ inScript' = TRUE /\ Fire("open", <<>>)
       ELSE UNCHANGED <<opened, inScript, evs>>
    /\ UNCHANGED <<wire, state, alive, rlen, handled, frag, swallowed, skip, told>>

\* recv gives some of the units that arrived, unless the buffer is full.
Recv ==
    /\ pc = "recv" /\ peer # "reset"
    /\ \E n \in 1 .. Min({RBUF - rlen, Unread}) : rlen' = rlen + n
    /\ pc' = "decode" /\ inScript' = FALSE
    /\ UNCHANGED <<wire, state, alive, opened, handled, frag, swallowed, skip, told, evs>>

\* The buffer is full of a part of a frame, or nothing more has arrived.
RecvNothing ==
    /\ pc = "recv"
    /\ pc' = "sweep" /\ inScript' = FALSE
    /\ UNCHANGED <<wire, state, alive, opened, rlen, handled, frag, swallowed, skip,
                   told, evs>>

\* The end of the stream: onclose, whatever the state is by then.
RecvEnd ==
    /\ pc = "recv" /\ rlen < RBUF
    /\ peer = "eof" /\ Unread = 0
    /\ state' = "CLOSED" /\ Fire("close", <<>>)
    /\ pc' = "sweep" /\ inScript' = TRUE
    /\ UNCHANGED <<wire, alive, opened, rlen, handled, frag, swallowed, skip, told>>

\* Mutant: ws_fail without its test of the state.
RecvErrorAlways ==
    /\ pc = "recv" /\ rlen < RBUF /\ peer = "reset"
    /\ state' = "CLOSED" /\ Fire("error", <<>>) /\ inScript' = TRUE
    /\ pc' = "sweep"
    /\ UNCHANGED <<wire, alive, opened, rlen, handled, frag, swallowed, skip, told>>

\* ws_fail, which does nothing to a closed connection, and the end of the pump.
WsFail ==
    /\ IF state = "CLOSED" THEN UNCHANGED <<state, evs>> /\ inScript' = FALSE
                           ELSE /\ state' = "CLOSED" /\ Fire("error", <<>>)
                                /\ inScript' = TRUE
    /\ pc' = "sweep"

\* A read error.
RecvError ==
    /\ pc = "recv" /\ rlen < RBUF /\ peer = "reset"
    /\ WsFail
    /\ UNCHANGED <<wire, alive, opened, rlen, handled, frag, swallowed, skip, told>>

NextFrame == sent[handled + 1]
\* Mutant: a frame that ends where the buffer's bytes end is taken as partial.
WholeFrameStrict == skip = 0 /\ handled < Len(sent) /\ Size(handled + 1) < rlen

WholeFrame == skip = 0 /\ handled < Len(sent) /\ Size(handled + 1) <= rlen

DecodeDone ==
    /\ pc = "decode" /\ ~WholeFrame
    /\ pc' = "recv" /\ inScript' = FALSE
    /\ UNCHANGED <<wire, state, alive, opened, rlen, handled, frag, swallowed, skip,
                   told, evs>>

\* Takes the next frame out of rbuf.
Take == /\ pc = "decode" /\ WholeFrame
        /\ rlen' = rlen - Size(handled + 1) /\ handled' = handled + 1
        /\ UNCHANGED <<wire, alive, pc, opened, swallowed, skip>>

\* ws_handle_frame, by opcode.  A message that is not yet complete is dropped
\* when another one starts.  The pong of a ping is not kept.
HandleControl ==
    /\ Take /\ NextFrame.op \in {"PING", "PONG"}
    /\ inScript' = FALSE
    /\ UNCHANGED <<state, frag, told, evs>>

HandleClose ==
    /\ Take /\ NextFrame.op = "CLOSE"
    /\ state' = "CLOSED" /\ Fire("close", <<>>) /\ inScript' = TRUE
    /\ UNCHANGED <<frag, told>>

\* Mutant: the partial message is not dropped.
HandleDataKeeping ==
    /\ Take /\ NextFrame.op \in Data
    /\ IF NextFrame.fin
       THEN /\ Fire("message", Append(frag, handled + 1)) /\ inScript' = TRUE
            /\ frag' = <<>>
       ELSE /\ frag' = Append(frag, handled + 1)
            /\ inScript' = FALSE /\ UNCHANGED evs
    /\ UNCHANGED <<state, told>>

HandleData ==
    /\ Take /\ NextFrame.op \in Data
    /\ IF NextFrame.fin
       THEN /\ Fire("message", <<handled + 1>>) /\ inScript' = TRUE
            /\ frag' = <<>>
       ELSE /\ frag' = <<handled + 1>>
            /\ inScript' = FALSE /\ UNCHANGED evs
    /\ UNCHANGED <<state, told>>

HandleContinuation ==
    /\ Take /\ NextFrame.op = "CONT"
    /\ IF frag # <<>> /\ NextFrame.fin
       THEN /\ Fire("message", Append(frag, handled + 1)) /\ inScript' = TRUE
            /\ frag' = <<>>
       ELSE /\ frag' = IF frag = <<>> THEN frag ELSE Append(frag, handled + 1)
            /\ inScript' = FALSE /\ UNCHANGED evs
    /\ UNCHANGED <<state, told>>

\* Behind a frame that was dropped in part the decoder is out of step: the bytes
\* it finds are the header of any frame, of the opcodes that are ignored too.
\* Frame 0 stands for what it makes of them.
HandleGarbled ==
    /\ pc = "decode" /\ skip > 0
    /\ \E n \in 1 .. rlen : /\ skip + n <= MaxSkip
                           /\ rlen' = rlen - n /\ skip' = skip + n
    /\ \/ inScript' = FALSE /\ UNCHANGED <<state, frag, evs>>
       \/ inScript' = FALSE /\ frag' = <<0>> /\ UNCHANGED <<state, evs>>
       \/ /\ inScript' = TRUE /\ frag' = <<>> /\ Fire("message", <<0>>)
          /\ UNCHANGED state
       \/ /\ inScript' = TRUE /\ state' = "CLOSED" /\ Fire("close", <<>>)
          /\ UNCHANGED frag
    /\ UNCHANGED <<wire, alive, pc, opened, handled, swallowed, told>>

\* A length that the sum with its header's wraps around: there is no memory for
\* it, or so little that the copy runs on behind it.
DecodeGarbledLength ==
    /\ pc = "decode" /\ skip > 0 /\ rlen > 0
    /\ \/ WsFail
       \/ pc' = "corrupt" /\ inScript' = FALSE /\ UNCHANGED <<state, evs>>
    /\ UNCHANGED <<wire, alive, opened, rlen, handled, frag, swallowed, skip, told>>

\* Mutant: the sweep looks at the state of the connection only.
SweepKeeping ==
    /\ pc = "sweep" /\ pc' = "idle" /\ inScript' = FALSE
    /\ UNCHANGED <<wire, state, alive, opened, rlen, handled, frag, swallowed, skip,
                   told, evs>>

\* The rest of bridge_pump_websockets: a closed connection is destroyed.
Sweep ==
    /\ pc = "sweep" /\ pc' = "idle" /\ inScript' = FALSE
    /\ alive' = (state # "CLOSED")
    /\ UNCHANGED <<wire, state, opened, rlen, handled, frag, swallowed, skip, told, evs>>

Pump ==
    \/ PumpStarts \/ Recv \/ RecvNothing \/ RecvEnd \/ RecvError
    \/ DecodeDone \/ HandleControl \/ HandleClose \/ HandleData
    \/ HandleContinuation \/ HandleGarbled \/ DecodeGarbledLength \/ Sweep

WsNext ==
    \/ PeerSends
    \/ PeerAnswersClose
    \/ \E how \in {"eof", "reset"} : PeerEnds(how)
    \/ Connect
    \/ \E len \in Lengths : JsClose(len)
    \/ BridgeDestroy
    \/ Pump

WsSpec == WsInit /\ [][WsNext]_wsVars

\* The host loop pumps again and again, what the peer sent arrives sooner or
\* later, and the peer answers a close frame and then closes the connection.
WsFairSpec ==
    WsSpec /\ WF_wsVars(Pump) /\ SF_wsVars(Recv \/ RecvEnd \/ RecvError)
         /\ WF_wsVars(PeerAnswersClose)
         /\ WF_wsVars(told /\ PeerClosed /\ PeerEnds("eof"))

-----------------------------------------------------------------------------

\* Type invariant: the handle, its buffer and the position in the stream.
WsTypeOK ==
    /\ state \in {"none", "OPEN", "CLOSING", "CLOSED"}
    /\ pc \in {"idle", "recv", "decode", "sweep", "corrupt"}
    /\ alive \in BOOLEAN /\ inScript \in BOOLEAN /\ opened \in BOOLEAN
    /\ rlen \in 0 .. RBUF /\ handled \in 0 .. Len(sent) /\ Unread >= 0
    /\ skip \in Nat /\ frag \in Seq(IF skip > 0 THEN {0} ELSE 1 .. handled)

Ends == Filter(evs, [type : {"close", "error"}, frames : Seq(Nat)])

\* The frames i .. j are a message: a beginning, continuations up to a final
\* one, and control frames in between.
IsMessage(i, j) ==
    /\ sent[i].op \in Data /\ sent[j].fin /\ sent[j].op \in Data \cup {"CONT"}
    /\ \A k \in i + 1 .. j : sent[k].op \notin Data
    /\ \A k \in i .. j - 1 : sent[k].op \in Data \cup {"CONT"} => ~sent[k].fin

\* The frames of the message that ends with frame j, in the stream after frame lo.
Message(lo, j) ==
    LET upTo[k \in lo .. j] ==
            IF k = lo THEN <<>>
            ELSE IF /\ sent[k].op \in Data \cup {"CONT"}
                    /\ \E i \in lo + 1 .. k : IsMessage(i, j)
                 THEN Append(upTo[k - 1], k)
            ELSE upTo[k - 1]
    IN  upTo[j]

\* The messages in the stream after frame lo that end after frame from.
Complete(lo, from) ==
    LET upTo[j \in from .. Len(sent)] ==
            IF j = from THEN <<>>
            ELSE IF \E i \in lo + 1 .. j : IsMessage(i, j)
                 THEN Append(upTo[j - 1], Message(lo, j))
            ELSE upTo[j - 1]
    IN  upTo[Len(sent)]

Given == LET m == Filter(evs, [type : {"message"}, frames : Seq(Nat)])
         IN  [n \in DOMAIN m |-> m[n].frames]

Stream == INSTANCE MessageStream WITH
    usable <- (state # "none"),
    pending <- (IF skip > 0 THEN <<>> ELSE Complete(swallowed, handled)),
    given <- (IF skip > 0 THEN <<>> ELSE Given),
    ended <- (skip = 0 /\ Ends # <<>>)

\* Refinement: what the pump gives to onmessage is the peer's messages, each
\* put together from exactly its own frames, once, in order and none after the
\* first onclose or onerror, however the bytes are cut into reads, whatever the
\* script does in its callbacks and with control frames, stray continuations
\* and unfinished messages in between.  What came with the response to the
\* handshake is lost; nothing is promised when that ended inside a frame
\* (skip > 0), because ws_recv_handshake drops the first part of the frame and
\* the pump takes the rest for frames.
StreamSpec == Stream!Spec

\* A connection that the pump finds closed has told the script: by one onerror
\* or by onclose, never both.  onclose comes twice only when the stream ends in
\* the same pump that handles a close frame, because the loop of mini_ws_pump
\* reads on, and more often only when the decoder is out of step.
EndIsTold ==
    /\ pc = "sweep" /\ state = "CLOSED" => Ends # <<>>
    /\ skip = 0 => Len(Ends) <= (IF PeerClosed /\ peer = "eof" THEN 2 ELSE 1)
    /\ Len(Ends) > 1 => \A n \in DOMAIN Ends : Ends[n].type = "close"

\* onopen is given at most once and before every other event; a script that
\* closes before the first pump never gets it.
OpenFirst ==
    \A n \in DOMAIN evs :
        /\ evs[n].type = "open" => n = 1
        /\ evs[n].type # "open" /\ opened => evs[1].type = "open"

Fitting == \A i \in DOMAIN sent : Size(i) <= RBUF

\* The frames the peer sent are handled, or the connection ends, as long as no
\* frame is larger than the receive buffer and none was dropped in part: such a
\* frame, or the length read out of one, stops the connection for good.
FramesGetHandled ==
    (alive /\ handled < Len(sent))
        ~> (handled = Len(sent) \/ ~alive \/ ~Fitting \/ skip > 0)

\* A script's close() ends the connection once its close frame was sent and
\* the peer's frames fit the buffer and none was dropped in part; a reason that
\* does not fit is never sent, and then nothing ends it.
CloseCompletes ==
    (alive /\ state = "CLOSING" /\ told)
        ~> (~alive \/ ~Fitting \/ skip > 0)

\* The life of a connection as its callbacks tell it (mini_ws_pump): opened
\* first, ended once.
EventsInOrder == WsTypeOK /\ OpenFirst /\ EndIsTold
=============================================================================
