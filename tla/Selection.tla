------------------------------ MODULE Selection ------------------------------
(***************************************************************************)
(* A loop that appends what meets a condition to an empty slice: the       *)
(* members of a sequence that are in a set, in their order.  (SelectSeq    *)
(* is this, but the provers know only its name.)                           *)
(***************************************************************************)
EXTENDS Integers, FiniteSets, SequencesExt

Among(s, S) == FoldLeft(LAMBDA kept, x : IF x \in S THEN Append(kept, x) ELSE kept, <<>>, s)

Filtered(s, Test(_)) == Among(s, {x \in ToSet(s) : Test(x)})
=============================================================================
