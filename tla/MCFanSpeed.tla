----------------------------- MODULE MCFanSpeed -----------------------------
(* A curve that leaves the fan to the system when it is cool.  A degree is *)
(* half a degree, a percentage ten per cent, an RPM a tenth of the range   *)
(* and more than the 75 RPM of the source; releases are the slowest.       *)
EXTENDS FanSpeed, TLC

BalancedCurve == (0 :> -2) @@ (2 :> -2) @@ (4 :> 0) @@ (8 :> 6) @@ (10 :> 10)
TemperatureAlerts == (9 :> 8)
Floors == [nominal |-> 0, serious |-> 7, critical |-> 10]

(* The age of a write is cut off at WriteInterval.  Here this loses        *)
(* nothing: a fan that rises or falls for so long may go anywhere.         *)
ASSUME AgeCutAssumption ==
  \A rate \in {RiseRate, FallRate} : rate * WriteInterval >= MaxRpm - MinRpm
=============================================================================
