------------------------------- MODULE Selection -------------------------------
(***************************************************************************)
(* SelectSeq with a set for its test.                                      *)
(***************************************************************************)
EXTENDS Integers, Sequences

\* The members of S in the sequence s, in their order.
Only(s, S) ==
  LET upto[i \in 0..Len(s)] ==
        IF i = 0 THEN <<>>
        ELSE IF s[i] \in S THEN Append(upto[i - 1], s[i]) ELSE upto[i - 1]
  IN  upto[Len(s)]
===============================================================================
