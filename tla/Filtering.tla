----------------------------- MODULE Filtering -----------------------------
(***************************************************************************)
(* Two loops over an array that the coordinator writes as filter and as a  *)
(* running total.  They are recursive functions, which can be reasoned     *)
(* about: of SelectSeq and of the folds a proof knows nothing.             *)
(***************************************************************************)
EXTENDS Naturals, Sequences

\* The elements of s that are in S, in their order.
Kept(s, S) ==
    LET kept[i \in 0..Len(s)] ==
            IF i = 0 THEN <<>>
            ELSE IF s[i] \in S THEN Append(kept[i - 1], s[i]) ELSE kept[i - 1]
    IN  kept[Len(s)]

\* The sum of a sequence of numbers.
SumOf(s) ==
    LET sum[i \in 0..Len(s)] == IF i = 0 THEN 0 ELSE sum[i - 1] + s[i]
    IN  sum[Len(s)]
=============================================================================
