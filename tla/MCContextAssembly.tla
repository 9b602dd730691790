-------------------------- MODULE MCContextAssembly --------------------------
(* Memory 1 is an atom of the session, 2 a persona and 3 an L1 capsule of  *)
(* other sessions.                                                         *)
EXTENDS ContextAssembly, TLC
TextSymmetry == Permutations(Texts)
mcChannels == <<"scan", "index">>
\* One token a character, one for two, a first token that costs three; and
\* tokenizers that merge the third character, or all after the first, into
\* fewer tokens than came before.
mcTokenCounts == {<<1, 2, 3, 4>>, <<1, 1, 2, 2>>, <<3, 3, 3, 4>>, <<1, 2, 1, 1>>, <<3, 2, 2, 1>>}
mcCounts == {[n \in 0..MaxLength |-> IF n = 0 THEN 0 ELSE c[n]] : c \in mcTokenCounts}
=============================================================================
