------------------------------- MODULE MCSmc -------------------------------
(* The helper and its SMC driver on two fans, which are not declared       *)
(* symmetric, because reset_all visits them in an order.                   *)
EXTENDS PowerMonitor, FanBounds

CONSTANTS f1, f2

AllOperations == {"setRpm", "setForced", "setAutomatic", "resetAll"}

(* The values of registers on samples around their limits: a validated     *)
(* target can be written and read back, mode 3 is that of the system, and  *)
(* both outcomes of a validation occur; the helper leaves a target of the  *)
(* app alone, unless the fan claims a speed that no register can hold.     *)
Registers ==
  [kind : {"flt"}, shift : {0}, width : {4}, size : {4}, raw : {0}]
    \cup [kind : {"fp"}, shift : {2}, width : {2}, size : {2}, raw : {0, 65535}]

SampleSpeeds == {0 - 1, 0, 1, 1499, 1500, 1501, 6000, 16382, 16383, 16384}
SampleBounds == {0 - 256, 0, 1, 255, 1500 * 256, 1500 * 256 + 1, 1501 * 256 - 1,
                 16383 * 256, 16383 * 256 + 1}

ASSUME ValuesAssumption ==
  /\ \A request \in SampleSpeeds, min \in SampleBounds, max \in SampleBounds, v \in Registers :
       LET validated == ValidatedRpm(request, min, max)
       IN validated.ok =>
            /\ MaySetRpm(v, validated.value)
            /\ Numeric(SetRpm(v, validated.value)) = Is(validated.value * Unit)
            /\ min <= validated.value * Unit /\ validated.value * Unit <= max
  /\ Cardinality({<<min, max>> \in SampleBounds \X SampleBounds : ValidBounds(min, max)}) > 10
  /\ ~ValidatedRpm(1500, 1500 * 256 + 1, 1501 * 256 - 1).ok
  /\ Numeric([kind |-> "sp", shift |-> 8, width |-> 2, size |-> 2, raw |-> 65536 - 512]) = Is(0 - 512)
  /\ { Mode([kind |-> "ui", shift |-> 0, width |-> 1, size |-> 1, raw |-> b]) : b \in {0, 3} }
       = {"automatic"}
  /\ \A request \in SampleSpeeds, min \in SampleBounds, max \in SampleBounds :
       LET planned == PlannedRpm(request, min, max, TRUE)
       IN planned.ok =>
            IF max <= MaximumRpm * Unit THEN Confirms(planned.value, ValidatedRpm(planned.value, min, max))
            ELSE ~ValidatedRpm(planned.value, min, max).ok
  /\ PlannedRpm(0, 0, 1500 * 256, TRUE) = Is(0) /\ ~PlannedRpm(0, 0, 1500 * 256, FALSE).ok
  /\ PlannedRpm(1, 0, 1500 * 256, TRUE) = Is(1)
  /\ Controllable(1500 * 256, 16383 * 256 + 1)
  /\ ValidFanId(9, 12 * Unit) /\ ~ValidFanId(10, 12 * Unit) /\ ~ValidFanId(0, Unit + 1)
  /\ FanCount(2 * Unit) = Is(2) /\ FanCount(12 * Unit) = Is(10) /\ ~FanCount(Unit + 1).ok
=============================================================================
