---------------------------- MODULE MCSymbolEngine ----------------------------
(* Two threads and three modules; the last two have the same load address, so *)
(* that one of them can take the place of the other.                          *)
EXTENDS SymbolEngine, TLC

CONSTANTS t1, t2, exe, libA, libB

MCThread == {t1, t2}
MCModule == {exe, libA, libB}
MCSpan == (exe :> {1}) @@ (libA :> {2}) @@ (libB :> {2, 3})

(* What the application asks the module manager. *)
MCDirectGoals == {ByName(libA), TheMain}

=============================================================================
