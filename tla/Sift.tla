-------------------------------- MODULE Sift --------------------------------
(***************************************************************************)
(* What is left of a queue when messages are taken out of it.  The set of  *)
(* those that stay is a value and the result a recursive function, so that *)
(* module SiftProofs can say of any queue what is left.                    *)
(***************************************************************************)
EXTENDS Naturals, Sequences

\* The elements of q that are in S, in their order.
Only(q, S) ==
    LET upTo[n \in 0 .. Len(q)] ==
            IF n = 0 THEN <<>>
            ELSE IF q[n] \in S THEN Append(upTo[n - 1], q[n]) ELSE upTo[n - 1]
    IN upTo[Len(q)]

=============================================================================
