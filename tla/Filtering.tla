----------------------------- MODULE Filtering -----------------------------
(***************************************************************************)
(* The elements of a sequence that are in a set, in their order: what      *)
(* std::remove leaves, as the loop it is.                                  *)
(***************************************************************************)
EXTENDS SequencesExt

Keeping(kept, e, S) == IF e \in S THEN Append(kept, e) ELSE kept

Filtered(s, S) == FoldLeft(LAMBDA kept, e : Keeping(kept, e, S), <<>>, s)
=============================================================================
