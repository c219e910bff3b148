----------------------------- MODULE FanBounds -----------------------------
(***************************************************************************)
(* The limits that the app puts on its own commands                        *)
(* (crates/fan-core/src/model.rs), and when it takes an answer of the      *)
(* helper for a confirmation (crates/fan-app/src/worker.rs).  The app      *)
(* limits a target to the bounds it sampled, the helper limits it again to *)
(* those it reads just before the write (SmcValues); a plan is confirmed   *)
(* only when the second limit left it alone.                               *)
(*                                                                         *)
(* Numbers are counted as in SmcValues.  A bound that is missing or not    *)
(* finite is refused first and is left out here.                           *)
(***************************************************************************)
EXTENDS SmcValues

(* validated_rpm_range: the whole speeds between the bounds, as far as a   *)
(* register can hold them; at least two.                                   *)
Highest(max) == IF Floor(max) > MaximumRpm THEN MaximumRpm ELSE Floor(max)

Controllable(min, max) ==
  /\ min >= 0 /\ min <= MaximumRpm * Unit /\ min < max
  /\ Ceiling(min) < Highest(max)

(* valid_fan_id: a fan count that is not one names no fan.                 *)
ValidFanId(id, count) == FanCount(count).ok /\ id < FanCount(count).value

(* validated_rpm: 0 stops the fan, where that is allowed and possible; any *)
(* other request is moved into the range and does not become 0.            *)
PlannedRpm(request, min, max, mayStop) ==
  LET low == IF Ceiling(min) = 0 THEN 1 ELSE Ceiling(min)
  IN IF request < 0 \/ ~Controllable(min, max) THEN Fails
     ELSE IF request = 0 THEN IF mayStop /\ Ceiling(min) = 0 THEN Is(0) ELSE Fails
     ELSE Is(IF request < low THEN low
             ELSE IF request > Highest(max) THEN Highest(max) ELSE request)

(* response_confirms, of a target: the helper says that it wrote just it.  *)
Confirms(planned, answer) == answer = Is(planned)
=============================================================================
