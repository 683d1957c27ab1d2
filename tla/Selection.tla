------------------------------ MODULE Selection ------------------------------
(***************************************************************************)
(* The loops of the operators that look at the elements of a list one      *)
(* after the other and keep some of them (OpMajoritySelection.cpp,         *)
(* OpRelationMerging.cpp).                                                 *)
(***************************************************************************)
EXTENDS Integers, Sequences, SequencesExt

\* The elements of a list that are among some, in their order.
Kept(list, some) ==
  LET kept[n \in 0 .. Len(list)] ==
        IF n = 0 THEN <<>>
        ELSE IF list[n] \in some THEN Append(kept[n - 1], list[n])
        ELSE kept[n - 1]
  IN kept[Len(list)]
===============================================================================
