------------------------------- MODULE MCPlotter -------------------------------
(* An instance of Plotter.                                                  *)
EXTENDS Plotter, TLC

CONSTANTS m1, m2, r1, r2

MCRunOf == (m1 :> r1 @@ m2 :> r2)
=============================================================================
