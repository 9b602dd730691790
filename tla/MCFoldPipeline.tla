--------------------------- MODULE MCFoldPipeline ---------------------------
(* Small instances of FoldPipeline for TLC. *)
EXTENDS FoldPipeline, TLC

\* All messages differ.
DistinctContent == [m \in Messages |-> m]

Symmetry == Permutations(Messages) \cup Permutations(Workers)
=============================================================================
