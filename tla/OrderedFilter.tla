---------------------------- MODULE OrderedFilter ----------------------------
(***************************************************************************)
(* The comprehension [x for x in s if x in S] of the lists in PATAS, as a  *)
(* recursive function.                                                     *)
(***************************************************************************)
EXTENDS Naturals, Sequences

\* The elements of s that are in S, in their order.
Only(s, S) ==
    LET kept[n \in 0..Len(s)] ==
            IF n = 0 THEN <<>>
            ELSE IF s[n] \in S THEN Append(kept[n - 1], s[n]) ELSE kept[n - 1]
    IN kept[Len(s)]
===============================================================================
