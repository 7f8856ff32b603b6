------------------------- MODULE MCRequestDispatch -------------------------
(* Instances of RequestDispatch.                                            *)
EXTENDS RequestDispatch, TLC

CONSTANTS i1, i2, h1, h2

\* Calls are told apart by nothing but their identity.
MCSymmetry == Permutations(Issuers) \cup Permutations(Handlers)
=============================================================================
