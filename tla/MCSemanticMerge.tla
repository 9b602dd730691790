--------------------------- MODULE MCSemanticMerge ---------------------------
(* Small instances of SemanticMerge for TLC. *)
EXTENDS SemanticMerge

CONSTANTS g1, g2, u1

\* The oldest and the youngest atom are alike only by way of the one between.
Chain  == {<<1, 2>>, <<2, 3>>}
AnyTwo == {s \in SUBSET Atoms : Cardinality(s) = 2}

Sym == {[g \in Governors |-> g], [g \in Governors |-> IF g = g1 THEN g2 ELSE g1]}
=============================================================================
