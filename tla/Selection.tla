------------------------------ MODULE Selection ------------------------------
(* Filtering a sequence, as a WHERE clause does: the SelectSeq of the standard *)
(* modules for a set instead of an operator, as a recursive function that can  *)
(* be reasoned about.                                                          *)
EXTENDS Integers, Sequences

RangeOf(s) == {s[i] : i \in DOMAIN s}

\* The elements of s that are in S, in the order they have in s.
Select(s, S) ==
  LET sel[i \in 0..Len(s)] ==
        IF i = 0 THEN <<>>
        ELSE IF s[i] \in S THEN Append(sel[i - 1], s[i]) ELSE sel[i - 1]
  IN sel[Len(s)]
=============================================================================
