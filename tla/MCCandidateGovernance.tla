----------------------- MODULE MCCandidateGovernance -----------------------
(* Small instances of CandidateGovernance for TLC. *)
EXTENDS CandidateGovernance, TLC

Symmetry == Permutations(Callers)
=============================================================================
