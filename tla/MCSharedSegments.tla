-------------------------- MODULE MCSharedSegments --------------------------
(* SharedSegments for TLC. *)
EXTENDS SharedSegments, TLC

Symmetry == Permutations(Name)
=============================================================================
