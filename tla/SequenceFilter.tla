--------------------------- MODULE SequenceFilter ---------------------------
(***************************************************************************)
(* What a loop that skips elements leaves of a sequence: the elements of a *)
(* set, in their order. A fold: SelectSeq cannot be reasoned about.        *)
(***************************************************************************)
EXTENDS SequencesExt

Among(seq, set) ==
  FoldLeft(LAMBDA out, x : IF x \in set THEN Append(out, x) ELSE out,
           << >>, seq)
=============================================================================
