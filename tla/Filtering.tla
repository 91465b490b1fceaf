----------------------------- MODULE Filtering -----------------------------
(***************************************************************************)
(* A list without the elements of a set, as Python's filter and MongoDB's  *)
(* $pull leave it.                                                         *)
(***************************************************************************)
EXTENDS Naturals, Sequences

Excluding(s, S) ==
  LET kept[i \in 0..Len(s)] ==
        IF i = 0 THEN <<>> ELSE IF s[i] \in S THEN kept[i - 1] ELSE Append(kept[i - 1], s[i])
  IN  kept[Len(s)]
=============================================================================
