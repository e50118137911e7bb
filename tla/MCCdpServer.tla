--------------------------- MODULE MCCdpServer ---------------------------
(* Three clients for two slots.  The first attaches the debugger and       *)
(* evaluates, the second sends a message in three fragments with a ping in *)
(* between (too big in one choice, with an empty fragment in another) or   *)
(* evaluates too, the third wants a slot that is free only when another    *)
(* client leaves.                                                          *)
EXTENDS CdpServer

CONSTANTS a, b, c

MCSlots == 1..2

Http      == [op |-> "http", fin |-> TRUE, size |-> 1, n |-> 0, first |-> FALSE, method |-> "ack"]
Of(kind)  == [Http EXCEPT !.op = kind]
Msg(n, m) == [op |-> "text", fin |-> TRUE, size |-> 1, n |-> n, first |-> TRUE, method |-> m]
Part(op, fin, size, n, first) ==
  [op |-> op, fin |-> fin, size |-> size, n |-> n, first |-> first, method |-> "ack"]

Upgrade == <<Of("upgrade")>>
Split   == <<Of("head"), Of("rest")>>
Debugs  == Upgrade \o <<Msg(11, "enable"), Msg(12, "eval")>>
TooBig  == Upgrade \o <<Part("text", FALSE, 2, 21, TRUE), Of("ping"),
                        Part("cont", FALSE, 1, 21, FALSE), Part("cont", TRUE, 1, 21, FALSE)>>
Fits    == Upgrade \o <<Part("text", FALSE, 0, 21, FALSE), Part("cont", FALSE, 1, 21, TRUE),
                        Of("ping"), Part("cont", TRUE, 1, 21, FALSE), Of("close")>>
EvalToo == Upgrade \o <<Msg(21, "eval"), Msg(22, "ack")>>
Gives   == Upgrade \o <<Part("text", FALSE, 1, 21, TRUE), Msg(22, "ack"), Of("huge")>>
Asks    == Split \o <<Msg(31, "ack")>>
Plain   == <<Http>>

Choose(x, y, z, pages) ==
  [sends |-> [k \in Conns |-> IF k = a THEN x ELSE IF k = b THEN y ELSE z], pages |-> pages]
MCScenarios == {Choose(<<>>, TooBig, Asks, 0), Choose(Debugs, Fits, <<>>, 0),
                Choose(Debugs, EvalToo, <<>>, 1), Choose(Plain, Gives, <<>>, 1),
                Choose(Debugs, Upgrade, Split, 0)}
==========================================================================
