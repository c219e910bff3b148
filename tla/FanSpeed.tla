------------------------------ MODULE FanSpeed ------------------------------
(***************************************************************************)
(* The speed of one fan that follows a curve (Curve in                     *)
(* crates/fan-core/src/config.rs, policy.rs, validated_rpm in model.rs,    *)
(* and the path of Controller::update that uses them), in numbers:         *)
(* sensor, curve, hysteresis, safety floors, RPM, ramp, throttle.          *)
(*                                                                         *)
(* FanController has the same path with levels for numbers, and the        *)
(* protocol around it; here every write succeeds at once, and the fan does *)
(* what it is told.  Fans that may be stopped are left to FanResidence.    *)
(*                                                                         *)
(* Temperatures, percentages, RPM and times are integers of a coarse unit: *)
(* the ratios of the source are kept, its fractions are not.               *)
(***************************************************************************)
EXTENDS Integers, FiniteSetsExt

CONSTANTS
  Curve,        \* temperature -> percentage, at the points of the curve
  Hysteresis,   \* in degrees
  DeadBand,     \* a smaller change of the input has no direction: 0.5
  Inputs,       \* the temperatures a sample may show
  Full,         \* 100 percent
  Alerts,       \* temperature -> floor, for the sensor of the curve: 95 -> 80
  PressureFloor,\* system thermal pressure -> floor: 0, 70, 100 percent
  HotFloor,     \* floor when the hottest chip is at 96 degrees: 80 percent
  UrgentInput,  \* the input that lifts the ramp: 90
  UrgentSpeed,  \* the percentage that does: 70
  MinRpm, MaxRpm,
  Readings,     \* of the tachometer under the system
  RiseRate, FallRate, ReleaseRate,  \* 350, 250 and 35 RPM per second
  FineStep, WriteStep, WriteInterval, \* 50 RPM, 75 RPM, 5 s
  Elapsed       \* times between two samples

None == -100    \* no input, no floor, no RPM

ASSUME CurveAssumption ==
  /\ IsFiniteSet(DOMAIN Curve) /\ Cardinality(DOMAIN Curve) > 1
  /\ DOMAIN Curve \subseteq Int
  /\ \A s, t \in DOMAIN Curve : s <= t => Curve[s] <= Curve[t]
  /\ None \notin Inputs /\ Inputs \subseteq Int /\ Hysteresis \in Nat
  /\ \A s \in DOMAIN Curve : Curve[s] \in -Full .. Full
ASSUME FloorAssumption ==
  /\ Full \in 1 .. 100       \* so that None is below every floor
  /\ IsFiniteSet(DOMAIN Alerts) /\ \A s \in DOMAIN Alerts : Alerts[s] \in 0 .. Full
  /\ PressureFloor \in [DOMAIN PressureFloor -> 0 .. Full] /\ HotFloor \in 0 .. Full
ASSUME RangeAssumption ==
  /\ MinRpm \in Nat \ {0} /\ MaxRpm \in Nat /\ MinRpm < MaxRpm
  /\ Readings \subseteq Nat /\ Elapsed \subseteq Nat \ {0}
  /\ IsFiniteSet(Elapsed) /\ Elapsed # {}
ASSUME RateAssumption ==
  /\ RiseRate \in Nat /\ FallRate \in Nat /\ ReleaseRate \in Nat
  /\ FineStep \in Nat \ {0} /\ WriteStep \in Nat /\ FineStep <= WriteStep
  /\ WriteInterval \in Nat

VARIABLES
  lastInput, rising, lastSpeed,   \* Runtime, as in controller.rs
  applied,      \* status.applied_rpm
  releasing,    \* safety_release_active
  dirty,
  age,          \* since last_write_at, up to WriteInterval (by then anything is
                \* written); None without one
  desired,      \* status.desired_rpm
  \* history
  crept,        \* the input has risen since it was seen to fall
  raised,       \* an emergency has raised the fan, and no ordinary target
                \* has been reached since
  alarm,        \* the emergency floor of the sample just taken, 0 without an
                \* emergency, None if the fan was not driven by a sample
  steady        \* the sample does not change any more

direction == <<lastInput, rising, lastSpeed>>
writing   == <<applied, releasing, dirty, age, desired>>
vars      == <<direction, writing, crept, raised, alarm, steady>>

Pressures == DOMAIN PressureFloor

TypeOK ==
  /\ lastInput \in Inputs \cup {None} /\ rising \in BOOLEAN /\ lastSpeed \in Int
  /\ applied \in MinRpm .. MaxRpm \cup {None}
  /\ releasing \in BOOLEAN /\ dirty \in BOOLEAN
  /\ age \in 0 .. WriteInterval \cup {None} /\ (age = None <=> applied = None)
  /\ desired \in MinRpm .. MaxRpm \cup {None}
  /\ crept \in BOOLEAN /\ raised \in BOOLEAN /\ steady \in BOOLEAN
  /\ alarm \in 0 .. Full \cup {None}

(* Runtime::default.                                                       *)
Init ==
  /\ lastInput = None /\ rising = TRUE /\ lastSpeed = 0
  /\ applied = None /\ releasing = FALSE /\ dirty = TRUE /\ age = None
  /\ desired = None
  /\ crept = FALSE /\ raised = FALSE /\ alarm = None /\ steady = FALSE

-----------------------------------------------------------------------------
(* The curve and its floors.                                               *)

Smaller(a, b) == IF a <= b THEN a ELSE b
Larger(a, b)  == IF a >= b THEN a ELSE b

(* interpolate, between the two points around t.                           *)
Interpolate ==
  [t \in UNION { {i - Hysteresis, i, i + Hysteresis} : i \in Inputs } |->
     LET below == { s \in DOMAIN Curve : s <= t }
         above == { s \in DOMAIN Curve : s > t }
     IN IF below = {} THEN Curve[Min(above)]
        ELSE IF above = {} THEN Curve[Max(below)]
        ELSE LET low == Max(below)  high == Min(above)
             IN Curve[low]
                  + ((t - low) * (Curve[high] - Curve[low])) \div (high - low)]

(* Mutated form: the hysteresis is taken the wrong way.                    *)
HysteresisBelow(t, last, rises) ==
  IF rises THEN Interpolate[t] ELSE Smaller(Interpolate[t - Hysteresis], last)

(* interpolate_with_hysteresis.                                            *)
WithHysteresis(t, last, rises) ==
  IF rises THEN Interpolate[t] ELSE Smaller(Interpolate[t + Hysteresis], last)

(* The direction of the input, from two samples.                           *)
Rises(t) ==
  IF lastInput = None THEN rising
  ELSE IF t - lastInput > DeadBand THEN TRUE
  ELSE IF lastInput - t > DeadBand THEN FALSE ELSE rising

(* missing_input_safety_percent: the floor of an emergency.                *)
Emergency(pressure, hot) ==
  LET floor == Larger(PressureFloor[pressure], IF hot THEN HotFloor ELSE 0)
  IN IF floor = 0 THEN None ELSE floor

(* The floor of the sensor itself.                                         *)
Alert ==
  [t \in Inputs |->
     Max({None} \cup { Alerts[s] : s \in { a \in DOMAIN Alerts : t >= a } })]

(* safety_adjusted_percent.                                                *)
Adjusted(speed, t, emergency) == Larger(speed, Larger(Alert[t], emergency))

(* percent_rpm; -((-a) \div b) rounds up.                                  *)
PercentRpm ==
  [percent \in {None} \cup -Full .. Full |->
     MinRpm - ((-(Larger(0, percent) * (MaxRpm - MinRpm))) \div Full)]

-----------------------------------------------------------------------------
(* From the goal to the write.                                             *)

Deviation(a, b) == IF a >= b THEN a - b ELSE b - a

DownRate(protected) == IF protected THEN ReleaseRate ELSE FallRate

(* Mutated form: an emergency is ramped.                                   *)
RampAlways(goal, previous, seconds, protected, bypass) ==
  IF previous = 0 \/ previous = goal THEN goal
  ELSE IF goal > previous THEN Smaller(goal, previous + RiseRate * seconds)
  ELSE Larger(goal, previous - DownRate(protected) * seconds)

(* ramp_target: only upwards is a ramp bypassed, and a protected decrease  *)
(* takes the rate of the adaptive mode.                                    *)
Ramp(goal, previous, seconds, protected, bypass) ==
  IF (bypass /\ goal > previous) \/ previous = 0 \/ previous = goal THEN goal
  ELSE IF goal > previous THEN Smaller(goal, previous + RiseRate * seconds)
  ELSE Larger(goal, previous - DownRate(protected) * seconds)

(* validated_rpm of a speed above 0, in a range above 0.                   *)
Validated(rpm) == Smaller(MaxRpm, Larger(MinRpm, rpm))

Older(elapsed) ==
  IF age = None THEN None ELSE Smaller(WriteInterval, age + elapsed)

(* Mutated form: a small change is never written.                          *)
WriteLarge(target, step, elapsed) ==
  dirty \/ applied = None \/ Deviation(applied, target) >= step

(* should_write.                                                           *)
ShouldWrite(target, step, elapsed) ==
  \/ dirty \/ applied = None
  \/ /\ applied # target
     /\ Deviation(applied, target) >= step \/ age + elapsed >= WriteInterval

(* `reading` is what the tachometer shows: the target, or whatever the     *)
(* system does.  A decrease is protected during an emergency and until an  *)
(* ordinary target has been reached after it.                              *)
Pursue(goal, override, urgent, elapsed) ==
  \E reading \in IF applied = None THEN Readings ELSE {applied} :
    LET protected == goal < reading /\ (override \/ releasing)
        seconds   == IF protected THEN elapsed
                     ELSE IF age = None THEN 1 ELSE age + elapsed
        ramped    == Ramp(goal, reading, seconds, protected,
                          urgent \/ 20 * reading >= 19 * MaxRpm)
        target    == Validated(ramped)
    IN /\ desired' = goal
       /\ releasing' = (override \/ (releasing /\ ramped # goal))
       /\ IF ShouldWrite(target, IF protected THEN FineStep ELSE WriteStep, elapsed)
            THEN applied' = target /\ age' = 0 /\ dirty' = FALSE
            ELSE age' = Older(elapsed) /\ UNCHANGED <<applied, dirty>>
       /\ raised' = (override \/ (raised /\ applied' - goal >= FineStep))

(* SetAutomatic, confirmed.                                                *)
HandBack ==
  /\ applied' = None /\ age' = None /\ desired' = None /\ dirty' = FALSE
  /\ raised' = FALSE
  /\ UNCHANGED releasing

-----------------------------------------------------------------------------
(* A negative percentage leaves the fan to the system, but not before it   *)
(* has come down from an emergency.                                        *)
Leaves(speed) == speed < 0 /\ ~(releasing /\ applied # None /\ applied > MinRpm)

(* update, on a sample that shows the input of the curve.                  *)
Follow(t, pressure, hot, elapsed) ==
  LET emergency == Emergency(pressure, hot)
      requested == WithHysteresis(t, lastSpeed, Rises(t))
      speed     == Adjusted(requested, t, emergency)
  IN /\ lastInput' = t /\ rising' = Rises(t) /\ lastSpeed' = speed
     /\ alarm' = Larger(0, emergency)
     /\ crept' = (~rising' /\ (crept \/ (lastInput # None /\ t > lastInput)))
     /\ IF Leaves(speed) THEN HandBack
        ELSE Pursue(PercentRpm[speed], emergency # None \/ speed > requested,
                    emergency # None \/ t >= UrgentInput \/ speed >= UrgentSpeed,
                    elapsed)

(* The input is missing in an emergency: the confirmed target is a floor.  *)
FollowBlind(pressure, hot, elapsed) ==
  /\ Emergency(pressure, hot) # None
  /\ Pursue(Larger(PercentRpm[Emergency(pressure, hot)], applied), TRUE, TRUE, elapsed)
  /\ alarm' = Emergency(pressure, hot)
  /\ UNCHANGED <<direction, crept>>

(* It is missing without one: the target is held for 30 s, then the fan    *)
(* goes back to the system.                                                *)
Hold(elapsed) ==
  /\ applied # None
  /\ age' = Older(elapsed) /\ alarm' = None
  /\ UNCHANGED <<direction, crept, raised, applied, releasing, dirty, desired>>

GiveUp == HandBack /\ alarm' = None /\ UNCHANGED <<direction, crept>>

Sample ==
  /\ \E pressure \in Pressures, hot \in BOOLEAN, elapsed \in Elapsed :
       \/ \E t \in Inputs : Follow(t, pressure, hot, elapsed)
       \/ FollowBlind(pressure, hot, elapsed)
       \/ Hold(elapsed) \/ GiveUp
  /\ ~steady /\ UNCHANGED steady

(* The same ordinary sample again.                                         *)
SampleAgain ==
  /\ steady /\ UNCHANGED steady
  /\ \E pressure \in Pressures, elapsed \in Elapsed :
       PressureFloor[pressure] = 0 /\ Follow(lastInput, pressure, FALSE, elapsed)

(* set_fan_config: the same sensor with another curve, here as good as the *)
(* same.                                                                   *)
Reconfigure ==
  /\ lastInput' = None /\ rising' = TRUE /\ lastSpeed' = 0
  /\ dirty' = TRUE /\ desired' = None /\ crept' = FALSE /\ alarm' = None
  /\ ~steady /\ UNCHANGED <<applied, releasing, age, raised, steady>>

(* resume, after a confirmed reset of the hardware.                        *)
Resume ==
  /\ lastInput' = None /\ rising' = TRUE /\ lastSpeed' = 0
  /\ applied' = None /\ releasing' = FALSE /\ dirty' = TRUE /\ age' = None
  /\ desired' = None
  /\ crept' = FALSE /\ raised' = FALSE /\ alarm' = None
  /\ ~steady /\ UNCHANGED steady

Settle ==
  /\ ~steady /\ lastInput # None /\ steady' = TRUE
  /\ UNCHANGED <<direction, writing, crept, raised, alarm>>

Next == Sample \/ SampleAgain \/ Reconfigure \/ Resume \/ Settle

Safety == Init /\ [][Next]_vars

(* The worker samples for ever (worker.rs:927).                            *)
Spec == Safety /\ WF_vars(SampleAgain)

-----------------------------------------------------------------------------
(* Properties.                                                             *)

(* ui.rs:1243 "the amount by which slowing down is delayed when it cools": *)
(* the hysteresis may keep a fan faster than its curve, never slower.      *)
SpeedCoversInput == lastInput # None => lastSpeed >= Interpolate[lastInput]

(* It is so unless the input has risen in steps within the dead band,      *)
(* through falls, emergencies, missing samples and new configurations.     *)
SpeedCoversSteadyInput == ~crept => SpeedCoversInput

(* fan-core/README.md:18: in an emergency the target is at the floor at    *)
(* once, short of a change too small to be written.                        *)
EmergencyFloorIsMet ==
  [][alarm' > 0 => applied' > PercentRpm[alarm'] - WriteStep]_vars

(* What an emergency has established is released slowly, and not by a      *)
(* hand-back, until an ordinary target has been reached (controller.rs:81).*)
ReleaseIsGradual ==
  [][raised /\ applied # None /\ alarm' # None =>
       IF applied' = None THEN applied <= MinRpm
       ELSE applied - applied' <= ReleaseRate * Max(Elapsed)]_vars

(* An emergency is met at once and released slowly.                        *)
EmergencyIsObeyed == EmergencyFloorIsMet /\ ReleaseIsGradual

(* A sample that stays ends in the target of its curve, whatever the ramps *)
(* and the throttle were in the middle of.                                 *)
SteadyInputSettles == <>[]steady => <>[](applied = desired)
=============================================================================
