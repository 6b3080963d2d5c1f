------------------------------- MODULE Filter --------------------------------
(* SelectSeq by membership, as a recursion over the places of a sequence: a   *)
(* proof can unfold that.                                                     *)
EXTENDS Naturals, Sequences

\* What the first n members of s leave that are in S.
Filtered(s, S) ==
  LET kept[n \in 0 .. Len(s)] ==
        IF n = 0 THEN <<>>
        ELSE IF s[n] \in S THEN Append(kept[n - 1], s[n]) ELSE kept[n - 1]
  IN kept

Keep(s, S) == Filtered(s, S)[Len(s)]
=============================================================================
