--------------------------- MODULE MCTurnProtocol ---------------------------
(* Small instances of TurnProtocol for TLC. *)
EXTENDS TurnProtocol, TLC

\* Every constant set is a set of interchangeable names.
Symmetry ==
  Permutations(Calls) \cup Permutations(Messages) \cup Permutations(Replies)
    \cup Permutations(Texts) \cup Permutations(Memories) \cup Permutations(Queries)
=============================================================================
