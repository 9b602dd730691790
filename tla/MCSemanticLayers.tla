-------------------------- MODULE MCSemanticLayers --------------------------
EXTENDS SemanticLayers, TLC

CONSTANTS s1, p1, p2, k1, e1, e2, e3

MCKeyOf    == p1 :> k1 @@ p2 :> k1
MCSessions == e1 :> 1 @@ e2 :> 2 @@ e3 :> 3
MCSupports == {{e1, e2}, {e2, e3}}
MCAgents   == e1 :> 1 @@ e2 :> 1 @@ e3 :> 1
Symmetry == Permutations(Workers) \cup Permutations(Personas) \cup Permutations({e1, e3})
=============================================================================
