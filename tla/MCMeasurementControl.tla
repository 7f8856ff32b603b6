------------------------ MODULE MCMeasurementControl ------------------------
(* Instances of MeasurementControl.                                         *)
EXTENDS MeasurementControl

CONSTANTS s1, s2, p1, p2

\* The first request asks for a measurement that is not uploaded.
MCFirstNever == [s \in Starts |-> IF s = s1 THEN 0 ELSE 5]

\* Calls that do not overlap, to find the shortest way to a fault without it.
MCSequential == ~overlapped
=============================================================================
