---------------------------- MODULE MCContextArea ----------------------------
(* Three writers and an area of five words: two records fill it or leave one  *)
(* word, so every order of the writers meets the end of the area.             *)
EXTENDS ContextArea, TLC

CONSTANTS t1, t2, t3

MCWriter == {t1, t2, t3}
MCTwoWriters == {t1, t2}

(* A payload word that reads as 2^32 minus the size of a length. *)
MCWrapping == {-1}

Symmetry == Permutations(MCWriter)

(* The writers without an inspector, for what only concerns them. *)
WritersSpec == ContextInit /\ [][WriterNext]_contextVars

=============================================================================
