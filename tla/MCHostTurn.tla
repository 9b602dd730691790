----------------------------- MODULE MCHostTurn -----------------------------
(* Small instances of HostTurn for TLC. *)
EXTENDS HostTurn, TLC
=============================================================================
