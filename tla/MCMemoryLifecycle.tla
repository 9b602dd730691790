------------------------- MODULE MCMemoryLifecycle -------------------------
(* Small instances of MemoryLifecycle for TLC. *)
EXTENDS MemoryLifecycle

CONSTANTS w1, u1

\* Short lives: a tier may be entered every cycle or every other cycle, or at once.
DueAges == <<1, 1, 2, 2>>
NoAge   == <<0, 0, 0, 0>>

\* Two tiers are enough to compress what is compressed already.
TwoTiers == row.tier <= 2

\* Without one history that the shared run's invariants do not mention; no action
\* depends on it.
SharedView == <<stored, row, ccr, locals, signals, wish, tomb, purged, stale, crashes>>
=============================================================================
