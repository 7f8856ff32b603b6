--------------------------- MODULE MCSampleUpload ---------------------------
(* Instances of SampleUpload.                                               *)
EXTENDS SampleUpload

CONSTANTS a1, a2, b1, ma, mb

MCMeasurements == {ma, mb}
\* Two samples, each its own measurement's only one.
MCTwoSamples == {a1, b1}
MCTwoMsmtOf == [s \in MCTwoSamples |-> IF s = b1 THEN mb ELSE ma]
=============================================================================
