------------------------------- MODULE ArrayOps -------------------------------
(***************************************************************************)
(* The loop with which mini_native.c drops entries of an array and closes  *)
(* it up over them.  SelectSeq computes the same; here the test is a set,  *)
(* so that theorems can be stated about the loop.                          *)
(***************************************************************************)
EXTENDS Integers, Sequences

\* The elements of s that are in P, in their order.
Filter(s, P) ==
    LET upTo[i \in 0 .. Len(s)] ==
            IF i = 0 THEN <<>>
            ELSE IF s[i] \in P THEN Append(upTo[i - 1], s[i])
            ELSE upTo[i - 1]
    IN  upTo[Len(s)]
=============================================================================
