------------------------------- MODULE Filter -------------------------------
(* The part of a sequence that is in a set: Vec::retain, Iterator::filter.   *)
EXTENDS Integers, Sequences

\* The elements of s that are in K, in their order.  (SelectSeq, with a set for
\* its test, so that the proofs can say what it leaves.)
Only(s, K) ==
  LET kept[i \in 0 .. Len(s)] ==
        IF i = 0 THEN <<>>
        ELSE IF s[i] \in K THEN Append(kept[i - 1], s[i]) ELSE kept[i - 1]
  IN  kept[Len(s)]
=============================================================================
