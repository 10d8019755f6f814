------------------------------- MODULE Lists --------------------------------
(***************************************************************************)
(* Two loops over a list: the one that appends what it keeps to a new list, *)
(* a for with a continue, and the one that adds up.  As folds, since the    *)
(* provers cannot expand SelectSeq.                                         *)
(***************************************************************************)
EXTENDS Integers, SequencesExt

Selected(list, good) ==
  FoldLeft(LAMBDA out, x : IF x \in good THEN Append(out, x) ELSE out, <<>>, list)

SumFrom(start, numbers) == FoldLeft(LAMBDA sum, n : sum + n, start, numbers)
=============================================================================
