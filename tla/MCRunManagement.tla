--------------------------- MODULE MCRunManagement ---------------------------
(* Instances of RunManagement.                                              *)
EXTENDS RunManagement

CONSTANTS t1, t2, c1, c2, m1

MCOwnerOf == [m \in Msmts |-> c1]
=============================================================================
