--------------------------- MODULE MCLifeSignSlots ---------------------------
(* Four threads compete for two slots: enough for two of them to be refused *)
(* or to reuse the slots of the first two, in every order.                  *)
EXTENDS LifeSignSlots, TLC

CONSTANTS t1, t2, t3, t4

MCThread == {t1, t2, t3, t4}
Symmetry == Permutations(MCThread)

=============================================================================
