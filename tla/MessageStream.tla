----------------------------- MODULE MessageStream -----------------------------
(***************************************************************************)
(* What a message-oriented connection promises its user: the messages of   *)
(* the peer, whole, each once and in the order they were sent, until the   *)
(* connection ends.  Messages the peer sends before the user has the       *)
(* connection may be lost.                                                 *)
(***************************************************************************)
EXTENDS Naturals, Sequences, SequencesExt

VARIABLES usable,    \* the user has the connection
          pending,   \* messages sent and not given to the user yet
          given,     \* messages given to the user
          ended      \* the user was told that there will be no more

vars == <<usable, pending, given, ended>>

Init == usable = FALSE /\ pending = <<>> /\ given = <<>> /\ ended = FALSE

\* The peer completes a message.
Send ==
    /\ pending' # <<>> /\ Front(pending') = pending
    /\ UNCHANGED <<usable, given, ended>>

\* The user gets the connection; the first messages may be lost before that.
Connect ==
    /\ ~usable /\ usable' = TRUE
    /\ \E n \in 1 .. Len(pending) + 1 : pending' = SubSeq(pending, n, Len(pending))
    /\ UNCHANGED <<given, ended>>

Give ==
    /\ usable /\ ~ended /\ pending # <<>>
    /\ given' = Append(given, Head(pending))
    /\ pending' = Tail(pending)
    /\ UNCHANGED <<usable, ended>>

End ==
    /\ usable /\ ended' = TRUE
    /\ UNCHANGED <<usable, pending, given>>

Next == Send \/ Connect \/ Give \/ End

Spec == Init /\ [][Next]_vars

=============================================================================
