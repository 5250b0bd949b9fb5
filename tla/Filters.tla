------------------------------ MODULE Filters ------------------------------
(* What a list comprehension with a condition makes of a list.             *)
EXTENDS Naturals, Sequences

(* The members of S that s has, in their order.                            *)
Where(s, S) ==
  LET kept[n \in 0..Len(s)] ==
        IF n = 0 THEN <<>>
        ELSE IF s[n] \in S THEN Append(kept[n - 1], s[n]) ELSE kept[n - 1]
  IN  kept[Len(s)]
=============================================================================
