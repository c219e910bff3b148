---------------------------- MODULE MCTelemetry ----------------------------
(* One firmware mean for the processor and one sensor of the body, whose   *)
(* temperatures lie on both sides of the thresholds.                       *)
EXTENDS Telemetry

MCKeys == {"TCMb", "body"}
MCSamples == { [k \in MCKeys |-> IF k = "TCMb" THEN p[1] ELSE p[2]] :
                 p \in {<<45, 41>>, <<92, 41>>, <<92, 46>>, <<92, 0>>, <<0, 46>>} }
MCBiases == {-10, 0}
MCMeasurements == {<<38, 36, 43, 42>>}
==========================================================================
