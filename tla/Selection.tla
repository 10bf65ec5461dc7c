------------------------------ MODULE Selection ------------------------------
(***************************************************************************)
(* The filter of an array, for the modules that proofs are about: the      *)
(* provers know no definition of SelectSeq that they could expand.         *)
(***************************************************************************)
EXTENDS Naturals, SequencesExt

\* The elements of s that are in S, in their order.
Among(s, S) ==
  LET kept[n \in 0 .. Len(s)] ==
        IF n = 0 THEN <<>>
        ELSE LET before == kept[n - 1] IN IF s[n] \in S THEN Append(before, s[n]) ELSE before
  IN  kept[Len(s)]

\* The others.
Without(s, S) == Among(s, ToSet(s) \ S)
=============================================================================
