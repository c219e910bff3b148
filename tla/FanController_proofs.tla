----------------------- MODULE FanController_proofs -----------------------
(***************************************************************************)
(* The safety properties of FanController and FanResidence for any range   *)
(* of speeds, any set of modes, ids and floors, and any durations.         *)
(*                                                                         *)
(* Every way through `update` comes to one of three things: nothing is     *)
(* sent, the fan is asked back, or a target is sent.  The first part shows *)
(* what is known in each case; the invariants then need few cases.         *)
(***************************************************************************)
EXTENDS FanResidence, TLAPS

Times == [Timers -> Nat \cup {None}]

-----------------------------------------------------------------------------
(* Operators.                                                              *)

(* The operations on the timers keep their type, and what they leave alone.*)
LEMMA StampTimes ==
  ASSUME NEW t \in Times, NEW m \in Timers
  PROVE  Stamp(t, m) \in Times /\ \A n \in Timers : Stamp(t, m)[n] = IF n = m THEN 0 ELSE t[n]
BY DEF Stamp, Times

LEMMA ClearTimes ==
  ASSUME NEW t \in Times, NEW S
  PROVE  Clear(t, S) \in Times /\ \A n \in Timers : Clear(t, S)[n] = IF n \in S THEN None ELSE t[n]
BY DEF Clear, Times

LEMMA BeginTimes ==
  ASSUME NEW t \in Times, NEW m \in Timers
  PROVE  /\ Begin(t, m) \in Times
         /\ \A n \in Timers : Begin(t, m)[n] = IF n = m /\ t[n] = None THEN 0 ELSE t[n]
BY StampTimes DEF Begin

(* The slowest turning speed lies in the range of the fan.                 *)
LEMMA LowestInRange == Lowest \in Nat \ {0} /\ MinRpm <= Lowest /\ Lowest <= MaxRpm /\ MaxRpm \in Rpms
BY RangeAssumption DEF Lowest, Rpms

(* A ramped target reaches a request that bypasses the ramp, and never     *)
(* falls below a lower one.                                                *)
LEMMA RampedInRange ==
  ASSUME NEW desired \in Rpms, NEW previous \in Rpms, NEW gradual \in BOOLEAN,
         NEW immediate \in BOOLEAN, NEW r \in Ramped(desired, previous, gradual, immediate)
  PROVE  /\ r \in Rpms
         /\ immediate \/ desired <= previous => r >= desired
         /\ previous = desired => r = desired
BY RangeAssumption DEF Ramped, Rpms

(* What validates is a speed of the live range, no slower than asked for,  *)
(* and a stop only if the fan may be stopped.                              *)
LEMMA ValidatedInRange ==
  ASSUME NEW r \in Rpms, NEW allowOff \in BOOLEAN, Validated(r, allowOff) # None
  PROVE  /\ Validated(r, allowOff) \in Rpms /\ Validated(r, allowOff) >= r
         /\ Validated(r, allowOff) = 0 => allowOff /\ MinRpm = 0
         /\ r = 0 => Validated(r, allowOff) = 0
BY LowestInRange, RangeAssumption DEF Validated, Larger, Rpms, None

-----------------------------------------------------------------------------
(* Types.                                                                  *)

SpeedsOK == /\ mode \in Modes /\ setpoint \in Lowest .. MaxRpm
            /\ applied \in Rpms \cup {None} /\ register \in Rpms \cup {None}

FlagsOK == /\ known \in BOOLEAN /\ suspended \in BOOLEAN /\ superseded \in BOOLEAN
           /\ wasOff \in BOOLEAN /\ dirty \in BOOLEAN /\ needs \in BOOLEAN
           /\ release \in BOOLEAN /\ panicked \in BOOLEAN /\ cause \in BOOLEAN

ActionsOK == pending \in Actions \cup {NoAction} /\ held \in Seq(Actions)

AlarmOK == alarm \in Floors \cup {0, None}

LEMMA TypeParts ==
  TypeOK <=> SpeedsOK /\ FlagsOK /\ ActionsOK /\ timer \in Times /\ AlarmOK
BY Zenon DEF TypeOK, SpeedsOK, FlagsOK, ActionsOK, Times, AlarmOK

LEMMA TypePartsNext ==
  TypeOK' <=> SpeedsOK' /\ FlagsOK' /\ ActionsOK' /\ timer' \in Times /\ AlarmOK'
BY Zenon DEF TypeOK, SpeedsOK, FlagsOK, ActionsOK, Times, AlarmOK

(* The times that relate to writes and hand-backs, which no sample moves.  *)
Lasting == {"write", "auto", "off", "run"}
Keeps(t) == t \in Times /\ \A n \in Lasting : t[n] = timer[n]

LEMMA ClocksKeep ==
  ASSUME timer \in Times
  PROVE  /\ Keeps(Now)
         /\ \A silicon \in BOOLEAN :
              /\ Keeps(SiliconClock(silicon))
              /\ Keeps(Clear(SiliconClock(silicon), {"input"}))
              /\ Keeps(Begin(SiliconClock(silicon), "input"))
<1>1. Keeps(Now)
  BY StampTimes DEF Keeps, Lasting, Now, Timers
<1>2. ASSUME NEW t, Keeps(t), NEW m \in Timers \ Lasting
      PROVE  Keeps(Begin(t, m)) /\ Keeps(Clear(t, {m}))
  BY <1>2, BeginTimes, ClearTimes DEF Keeps, Lasting, Timers
<1>3. {"silicon", "input"} \subseteq Timers \ Lasting
  BY DEF Timers, Lasting
<1> QED BY <1>1, <1>2, <1>3, Zenon DEF SiliconClock

-----------------------------------------------------------------------------
(* What a pass over the fan comes to.                                      *)

(* What no pass changes.                                                   *)
Untouched == UNCHANGED <<mode, setpoint, suspended, dirty, needs, applied, register>>

(* Nothing is sent.                                                        *)
Waits ==
  /\ Untouched /\ UNCHANGED <<pending, superseded, wasOff, held, cause>>
  /\ known' \in {known, TRUE} /\ Keeps(timer') /\ FlagsOK' /\ AlarmOK'

(* The fan is asked back: after AutoRetry, or at once if a configuration   *)
(* has not been applied or a write was confirmed since the last request.   *)
Asks ==
  /\ Decides /\ Untouched /\ known' = TRUE /\ FlagsOK' /\ AlarmOK'
  /\ pending' \in Actions /\ pending'.rpm = None /\ held' = Append(held, pending')
  /\ ~superseded' /\ ~cause' /\ alarm' = None
  /\ timer' \in Times /\ timer'["auto"] = 0
  /\ \A n \in Lasting \ {"auto"} : timer'[n] = timer[n]
  /\ Passed(timer, "auto", AutoRetry) \/ dirty \/ NewlyForced(timer)

(* A target is sent.                                                       *)
Sends ==
  /\ Sampled /\ Untouched /\ UNCHANGED cause /\ Keeps(timer') /\ FlagsOK' /\ AlarmOK'
  /\ pending' \in Actions /\ pending'.rpm # None /\ held' = Append(held, pending')
  /\ ~superseded'
  /\ pending'.rpm = 0 => MinRpm = 0
  /\ alarm' > 0 => pending'.rpm >= alarm'
  /\ mode = "curve" /\ alarm' = None /\ applied = 0 /\ timer["run"] = None
     /\ Within(timer, "off", OffResidence) => pending'.rpm = 0
  /\ mode = "curve" /\ alarm' = None /\ pending'.rpm = 0 /\ Within(timer, "run", RunResidence)
       => applied = 0 \/ timer["off"] # None

(* A request to hand back, with the timers of a pass.                      *)
LEMMA AskingStep ==
  ASSUME TypeOK, Decides, known' = TRUE, HandedBackOnly,
         NEW t, Keeps(t), NEW reason \in Reasons, NEW force,
         force => dirty \/ NewlyForced(timer), AskAutomatic(t, reason, force)
  PROVE  Asks \/ Waits
<1>1. CASE force \/ Passed(t, "auto", AutoRetry)
  <2>1. Emit(None, reason, FALSE) /\ timer' = Stamp(t, "auto") /\ cause' = FALSE
    BY <1>1, Zenon DEF AskAutomatic
  <2>2. pending' \in Actions /\ pending'.rpm = None /\ held' = Append(held, pending')
        /\ superseded' = FALSE /\ wasOff' = FALSE
    BY <2>1 DEF Emit, Actions, FreeIds
  <2>3. timer' \in Times /\ timer'["auto"] = 0
        /\ \A n \in Lasting \ {"auto"} : timer'[n] = timer[n]
    BY <2>1, StampTimes DEF Keeps, Lasting, Timers
  <2>4. Passed(timer, "auto", AutoRetry) \/ dirty \/ NewlyForced(timer)
    BY <1>1 DEF Keeps, Passed, Lasting
  <2>5. FlagsOK' /\ AlarmOK' /\ Untouched /\ alarm' = None
    BY <2>1, <2>2, TypeParts, Zenon DEF FlagsOK, AlarmOK, Untouched, HandedBackOnly, config
  <2>6. ~superseded' /\ ~cause'
    BY <2>1, <2>2, Zenon
  <2> QED BY <2>2, <2>3, <2>4, <2>5, <2>6, Zenon DEF Asks
<1>2. CASE ~(force \/ Passed(t, "auto", AutoRetry))
  BY <1>2, TypeParts, Zenon
     DEF AskAutomatic, EmitNothing, Waits, Untouched, HandedBackOnly, config, FlagsOK, AlarmOK
<1> QED BY <1>1, <1>2, Zenon

(* A pass that leaves the fan as it is.                                    *)
LEMMA WaitingStep ==
  ASSUME TypeOK, known' \in {known, TRUE}, HandedBackOnly, NEW t, Keeps(t),
         EmitNothing, timer' = t, UNCHANGED cause
  PROVE  Waits
BY TypeParts, Zenon
   DEF EmitNothing, Waits, Untouched, HandedBackOnly, config, FlagsOK, AlarmOK

-----------------------------------------------------------------------------
(* The way of a target from its goal to the write.                         *)

(* What a target that is sent has to do with its goal.                     *)
Meets(g, rpm) ==
  /\ rpm \in Rpms
  /\ rpm = 0 => MinRpm = 0 /\ g.desired = 0
  /\ g.bypass => rpm >= g.desired
  /\ mode = "curve" /\ applied = 0 /\ g.desired = 0 /\ g.bound = 0 => rpm = 0

LEMMA PursuingStep ==
  ASSUME TypeOK, NEW g, NEW current \in Rpms, Keeps(g.t), g.desired \in Rpms, g.bound \in Rpms,
         g.reason \in Reasons, g.wasOff \in BOOLEAN, g.bypass \in BOOLEAN, Pursue(g, current)
  PROVE  /\ Untouched /\ UNCHANGED cause /\ Keeps(timer')
         /\ release' \in BOOLEAN /\ panicked' \in BOOLEAN
         /\ \/ EmitNothing
            \/ \E rpm \in Rpms : Meets(g, rpm) /\ Emit(rpm, g.reason, g.wasOff)
<1> DEFINE adaptive  == mode = "adaptive"
           takeOver  == ReadsAutomatic /\ Passed(g.t, "mode", ModeReconcile)
           t1        == IF takeOver THEN Stamp(g.t, "mode") ELSE g.t
           effective == IF applied = None THEN g.desired ELSE applied
           t2        == IF Deviation(current, effective) > Tolerance
                        THEN Begin(t1, "mismatch") ELSE Clear(t1, {"mismatch"})
           correct   == /\ Lasted(t2, "mismatch", MismatchHold)
                        /\ Passed(t2, "rpm", RpmReconcile)
           t3        == IF correct THEN Stamp(t2, "rpm") ELSE t2
           previous  == IF applied = None \/ (adaptive /\ ReadsAutomatic)
                        THEN current ELSE applied
           override  == g.reason = "emergency"
           protected == g.desired < previous /\ (override \/ release)
           gradual   == adaptive \/ protected
           immediate == \/ mode = "manual" /\ ~protected
                        \/ g.bypass /\ g.desired > previous
                        \/ previous = 0 /\ g.desired > 0 /\ ~gradual
           target(r) == Validated(Larger(r, g.bound), g.desired = 0)
<1>1. Keeps(t3)
  <2>1. Keeps(t1)
    BY StampTimes DEF Keeps, Lasting, Timers
  <2>2. Keeps(t2)
    <3> HIDE DEF t1
    <3> QED BY <2>1, BeginTimes, ClearTimes DEF Keeps, Lasting, Timers
  <2> HIDE DEF t2
  <2> QED BY <2>2, StampTimes DEF Keeps, Lasting, Timers
<1>2. PICK r \in Ramped(g.desired, previous, gradual, immediate) :
        /\ release' = ((release \/ override) /\ (override \/ Larger(r, g.bound) # g.desired))
        /\ panicked' = (target(r) = None)
        /\ timer' = t3
        /\ EmitNothing \/ (target(r) # None /\ Emit(target(r), g.reason, g.wasOff))
        /\ UNCHANGED <<config, suspended, dirty, needs, applied, register, cause>>
  BY Zenon DEF Pursue
<1>3. previous \in Rpms
  BY TypeParts DEF SpeedsOK
<1>4. /\ r \in Rpms
      /\ immediate \/ g.desired <= previous => r >= g.desired
      /\ previous = g.desired => r = g.desired
  <2>1. gradual \in BOOLEAN /\ immediate \in BOOLEAN
    BY Zenon
  <2> HIDE DEF previous, gradual, immediate
  <2> QED BY <1>2, <1>3, <2>1, RampedInRange
<1>5. ASSUME target(r) # None PROVE target(r) \in Rpms /\ Meets(g, target(r))
  <2> DEFINE ramped == Larger(r, g.bound)
  <2>1. ramped \in Rpms /\ ramped >= r /\ (g.bound = 0 /\ r = 0 => ramped = 0)
    BY <1>4 DEF Larger, Rpms
  <2>2. /\ target(r) \in Rpms /\ target(r) >= ramped
        /\ target(r) = 0 => g.desired = 0 /\ MinRpm = 0
        /\ ramped = 0 => target(r) = 0
    BY <1>5, <2>1, ValidatedInRange
  <2>3. g.bypass => r >= g.desired
    BY <1>3, <1>4 DEF Rpms
  <2>4. mode = "curve" /\ applied = 0 /\ g.desired = 0 => r = 0
    BY <1>4 DEF None
  <2> HIDE DEF ramped, target
  <2> QED BY <1>4, <2>1, <2>2, <2>3, <2>4 DEF Meets, Rpms
<1> HIDE DEF t3, target
<1>6. \/ EmitNothing
      \/ \E rpm \in Rpms : Meets(g, rpm) /\ Emit(rpm, g.reason, g.wasOff)
  BY <1>2, <1>5, Zenon
<1> QED BY <1>1, <1>2, <1>6, Zenon DEF Untouched, config

(* A goal that reaches the alarm, and keeps the residence times.           *)
Reaches(g) ==
  /\ alarm' > 0 => g.bypass /\ g.desired >= alarm'
  /\ mode = "curve" /\ alarm' = None =>
       /\ g.bound = 0
       /\ MinRpm = 0 /\ applied = 0 /\ timer["run"] = None /\ Within(timer, "off", OffResidence)
            => g.desired = 0
       /\ MinRpm = 0 /\ g.desired = 0 /\ Within(timer, "run", RunResidence)
            => applied = 0 \/ timer["off"] # None

(* No target is confirmed that the range does not allow.                   *)
StopIsAllowed == applied = 0 \/ pending.rpm = 0 => MinRpm = 0

LEMMA SendingStep ==
  ASSUME TypeOK, StopIsAllowed, Sampled, AlarmOK', NEW g, NEW current \in Rpms, Reaches(g),
         Keeps(g.t), g.desired \in Rpms, g.bound \in Rpms, g.reason \in Reasons,
         g.wasOff \in BOOLEAN, g.bypass \in BOOLEAN, Pursue(g, current)
  PROVE  Sends \/ Waits
<1>1. /\ Untouched /\ UNCHANGED cause /\ Keeps(timer')
      /\ release' \in BOOLEAN /\ panicked' \in BOOLEAN
      /\ \/ EmitNothing
         \/ \E rpm \in Rpms : Meets(g, rpm) /\ Emit(rpm, g.reason, g.wasOff)
  BY PursuingStep
<1>2. known' = TRUE
  BY DEF Sampled
<1>3. CASE EmitNothing
  BY <1>1, <1>2, <1>3, TypeParts, Zenon DEF Waits, EmitNothing, FlagsOK, Untouched
<1>4. ASSUME NEW rpm \in Rpms, Meets(g, rpm), Emit(rpm, g.reason, g.wasOff)
      PROVE  Sends
  <2>1. pending' \in Actions /\ pending'.rpm = rpm /\ held' = Append(held, pending')
        /\ superseded' = FALSE /\ wasOff' = g.wasOff
    BY <1>4 DEF Emit, Actions, FreeIds
  <2>2. FlagsOK'
    BY <1>1, <1>2, <2>1, TypeParts, Zenon DEF FlagsOK, Untouched
  <2>3. pending'.rpm # None /\ (pending'.rpm = 0 => MinRpm = 0)
    BY <1>4, <2>1 DEF Meets, None, Rpms
  <2>4. alarm' > 0 => pending'.rpm >= alarm'
    BY <1>4, <2>1, LowestInRange, RangeAssumption DEF Meets, Reaches, AlarmOK, None, Rpms
  <2>5. /\ mode = "curve" /\ alarm' = None /\ applied = 0 /\ timer["run"] = None
          /\ Within(timer, "off", OffResidence) => pending'.rpm = 0
        /\ mode = "curve" /\ alarm' = None /\ pending'.rpm = 0 /\ Within(timer, "run", RunResidence)
             => applied = 0 \/ timer["off"] # None
    BY <1>4, <2>1, Zenon DEF Meets, Reaches, StopIsAllowed
  <2> QED BY <1>1, <2>1, <2>2, <2>3, <2>4, <2>5, Zenon DEF Sends
<1> QED BY <1>1, <1>3, <1>4, Zenon

LEMMA FloorsInRange ==
  ASSUME NEW floor \in Floors \cup {None}
  PROVE  floor \in Rpms \cup {None} /\ (floor # None => floor > 0)
BY LowestInRange, RangeAssumption DEF Rpms, None

(* The passes of an automatic configuration, and those without a target.   *)
LEMMA HandingBackStep ==
  ASSUME TypeOK,
         \/ UpdateFailure \/ UpdateStale \/ UpdateAutomatic \/ UpdateUnreadable
         \/ UpdateBlind \/ UpdateInputMissing
  PROVE  Asks \/ Waits
<1>0. Keeps(Now)
      /\ \A silicon \in BOOLEAN :
              /\ Keeps(SiliconClock(silicon))
              /\ Keeps(Clear(SiliconClock(silicon), {"input"}))
              /\ Keeps(Begin(SiliconClock(silicon), "input"))
  BY TypeParts, ClocksKeep
<1>. USE DEF Reasons
<1>1. CASE UpdateFailure
  <2>1. Decides /\ known' = TRUE /\ HandedBackOnly /\ AskAutomatic(Now, "other", FALSE)
    BY <1>1, TypeParts DEF UpdateFailure, FlagsOK
  <2> QED BY <2>1, <1>0, AskingStep
<1>2. CASE UpdateStale
  <2>1. Decides /\ known' = TRUE /\ HandedBackOnly /\ AskAutomatic(Now, "other", FALSE)
    BY <1>2, TypeParts DEF UpdateStale, FlagsOK
  <2> QED BY <2>1, <1>0, AskingStep
<1>3. CASE UpdateAutomatic
  <2>1. Decides /\ known' = TRUE /\ HandedBackOnly
    BY <1>3, Zenon DEF UpdateAutomatic, Sampled
  <2>2. CASE AskAutomatic(Now, "other", dirty)
    BY <2>1, <2>2, <1>0, AskingStep
  <2>3. CASE EmitNothing /\ timer' = Now /\ UNCHANGED cause
    BY <2>1, <2>3, <1>0, WaitingStep
  <2> QED BY <1>3, <2>2, <2>3, Zenon DEF UpdateAutomatic
<1>4. CASE UpdateUnreadable
  <2>1. Decides /\ known' = TRUE /\ HandedBackOnly /\ AskAutomatic(Now, "other", dirty)
    BY <1>4, Zenon DEF UpdateUnreadable, Sampled
  <2> QED BY <2>1, <1>0, AskingStep
<1>5. CASE UpdateBlind
  <2>1. Decides /\ known' = TRUE /\ HandedBackOnly
        /\ AskAutomatic(SiliconClock(FALSE), "other", FALSE)
    BY <1>5, Zenon DEF UpdateBlind, Sampled
  <2> QED BY <2>1, <1>0, AskingStep
<1>6. CASE UpdateInputMissing
  <2>1. Decides /\ known' = TRUE /\ HandedBackOnly
    BY <1>6, Zenon DEF UpdateInputMissing, Sampled
  <2>2. PICK silicon \in BOOLEAN : MissingInput(Begin(SiliconClock(silicon), "input"))
    BY <1>6, Zenon DEF UpdateInputMissing
  <2>3. Keeps(Begin(SiliconClock(silicon), "input"))
    BY <1>0
  <2> DEFINE t == Begin(SiliconClock(silicon), "input")
  <2> HIDE DEF t
  <2>4. AskAutomatic(t, "other", FALSE) \/ (EmitNothing /\ timer' = t /\ UNCHANGED cause)
    BY <2>2, Zenon DEF MissingInput, t
  <2> QED BY <2>1, <2>3, <2>4, AskingStep, WaitingStep DEF t
<1> QED BY <1>1, <1>2, <1>3, <1>4, <1>5, <1>6

(* The system is left, or asked, to run the fan at low demand.             *)
LEMMA LeavingStep ==
  ASSUME TypeOK, Sampled, HandedBackOnly, NEW t, Keeps(t), LeaveToSystem(t)
  PROVE  Asks \/ Waits
<1>1. Decides /\ known' = TRUE
  BY DEF Sampled
<1>2. NewlyForced(t) => NewlyForced(timer)
  BY DEF NewlyForced, Keeps, Lasting
<1>3. CASE AskAutomatic(t, "other", dirty \/ NewlyForced(t))
  BY <1>1, <1>2, <1>3, AskingStep DEF Reasons
<1>4. CASE EmitNothing /\ timer' = t /\ UNCHANGED cause
  BY <1>1, <1>4, WaitingStep
<1> QED BY <1>3, <1>4, Zenon DEF LeaveToSystem

LEMMA ManualStep == TypeOK /\ StopIsAllowed /\ UpdateManual => Sends \/ Waits
<1> SUFFICES ASSUME TypeOK, StopIsAllowed, UpdateManual PROVE Sends \/ Waits
  OBVIOUS
<1>1. PICK silicon \in BOOLEAN, floor \in Floors \cup {None}, current \in Readings :
        /\ Pursue([desired |-> Larger(setpoint, floor),
                   reason  |-> Reason(floor # None),
                   t       |-> SiliconClock(silicon),
                   bypass  |-> floor # None,
                   bound   |-> 0,
                   wasOff  |-> ObservedOff(current)], current)
        /\ alarm' = floor
  BY Zenon DEF UpdateManual
<1> DEFINE g == [desired |-> Larger(setpoint, floor), reason |-> Reason(floor # None),
                 t |-> SiliconClock(silicon), bypass |-> floor # None,
                 bound |-> 0, wasOff |-> ObservedOff(current)]
<1>2. Sampled /\ mode = "manual"
  BY Zenon DEF UpdateManual
<1>3. AlarmOK' /\ current \in Rpms
  BY <1>1, RangeAssumption DEF AlarmOK
<1>4. Larger(setpoint, floor) \in Rpms /\ Larger(setpoint, floor) >= floor
  BY FloorsInRange, TypeParts, LowestInRange DEF Larger, SpeedsOK, Rpms, None
<1>5. g.desired \in Rpms /\ g.bound \in Rpms /\ g.reason \in Reasons
      /\ g.wasOff \in BOOLEAN /\ g.bypass \in BOOLEAN /\ Keeps(g.t)
  BY <1>4, TypeParts, ClocksKeep, LowestInRange DEF Reason, Reasons, ObservedOff, Rpms
<1>6. Reaches(g)
  <2>1. g.desired = Larger(setpoint, floor) /\ g.bypass = (floor # None) /\ mode # "curve"
    BY <1>2
  <2>2. alarm' > 0 => floor # None
    BY <1>1 DEF None
  <2> HIDE DEF g
  <2> QED BY <1>1, <1>4, <2>1, <2>2, Zenon DEF Reaches
<1> HIDE DEF g
<1> QED BY <1>1, <1>2, <1>3, <1>5, <1>6, SendingStep DEF g

(* The goal of the curve keeps the residence times, unless it is urgent.   *)
LEMMA CurveGoalReaches ==
  ASSUME TypeOK, NEW speed \in {Stop} \cup Lowest .. MaxRpm, NEW override \in BOOLEAN,
         NEW urgent \in BOOLEAN, NEW t, Keeps(t), NEW current \in Rpms,
         AlarmOK', alarm' > 0 => urgent /\ speed >= alarm', alarm' = None => ~urgent
  PROVE  LET g == CurveGoal(speed, override, urgent, t, current)
         IN /\ g.desired \in Rpms /\ g.bound \in Rpms /\ g.reason \in Reasons
            /\ g.wasOff \in BOOLEAN /\ g.bypass \in BOOLEAN /\ Keeps(g.t)
            /\ Reaches(g)
<1> DEFINE base == IF speed = Stop THEN MinRpm ELSE speed
           g    == CurveGoal(speed, override, urgent, t, current)
<1>1. base \in Rpms /\ (alarm' > 0 => urgent /\ base >= alarm' /\ base > 0)
  BY LowestInRange, RangeAssumption DEF Stop, Rpms, AlarmOK, None
<1>2. /\ Resident(base, urgent, current) \in Rpms
      /\ alarm' > 0 => Resident(base, urgent, current) >= alarm'
  <2> HIDE DEF base
  <2> QED BY <1>1, LowestInRange DEF Resident, Rpms
<1>3. ASSUME MinRpm = 0, ~urgent
      PROVE /\ applied = 0 /\ timer["run"] = None /\ Within(timer, "off", OffResidence)
                 => Resident(base, urgent, current) = 0
            /\ Resident(base, urgent, current) = 0 /\ Within(timer, "run", RunResidence)
                 => applied = 0 \/ timer["off"] # None
  <2> HIDE DEF base
  <2>1. Lowest = 1
    BY <1>3 DEF Lowest
  <2> QED BY <1>1, <1>3, <2>1 DEF Resident, ObservedOff, Within, Rpms
<1>4. g.desired = Resident(base, urgent, current) /\ g.bound = 0 /\ g.t = t
      /\ g.reason = Reason(override) /\ g.bypass = (urgent \/ current = MaxRpm)
      /\ g.wasOff = ObservedOff(current)
  BY DEF CurveGoal
<1> HIDE DEF base, g
<1>5. Reaches(g)
  BY <1>2, <1>3, <1>4, Zenon DEF Reaches
<1>6. g.desired \in Rpms /\ g.bound \in Rpms /\ g.reason \in Reasons
      /\ g.wasOff \in BOOLEAN /\ g.bypass \in BOOLEAN /\ Keeps(g.t)
  BY <1>2, <1>4, LowestInRange DEF Reason, Reasons, ObservedOff, Rpms
<1> QED BY <1>5, <1>6 DEF g

LEMMA CurveStep == TypeOK /\ StopIsAllowed /\ UpdateCurve => Asks \/ Sends \/ Waits
<1> SUFFICES ASSUME TypeOK, StopIsAllowed, UpdateCurve PROVE Asks \/ Sends \/ Waits
  OBVIOUS
<1>1. Sampled
  BY Zenon DEF UpdateCurve
<1> DEFINE speed(asked) == IF CurveReleases(asked) THEN Lowest ELSE asked
           t(silicon)   == Clear(SiliconClock(silicon), {"input"})
<1>2. PICK silicon \in BOOLEAN, urgent \in BOOLEAN, raised \in BOOLEAN,
           floor \in Floors \cup {None}, ask \in {Stop} \cup Lowest .. MaxRpm :
        /\ Sees(silicon, floor)
        /\ raised => ask # Stop
        /\ floor # None => raised /\ urgent
        /\ IF CurveLeaves(speed(Larger(ask, floor)))
           THEN /\ LeaveToSystem(t(silicon))
                /\ HandedBackOnly
           ELSE /\ \E current \in Readings :
                     Pursue(CurveGoal(speed(Larger(ask, floor)), raised, urgent, t(silicon), current),
                            current)
                /\ alarm' = IF urgent THEN Larger(floor, 0) ELSE None
  BY Zenon DEF UpdateCurve
<1>3. Keeps(t(silicon))
  BY TypeParts, ClocksKeep
<1>4. CASE LeaveToSystem(t(silicon)) /\ HandedBackOnly
  BY <1>1, <1>3, <1>4, LeavingStep
<1>5. ASSUME NEW current \in Readings,
             Pursue(CurveGoal(speed(Larger(ask, floor)), raised, urgent, t(silicon), current),
                    current),
             alarm' = IF urgent THEN Larger(floor, 0) ELSE None
      PROVE  Sends \/ Waits
  <2> DEFINE asked == Larger(ask, floor)
  <2>1. asked \in {Stop} \cup Lowest .. MaxRpm /\ (floor # None => asked >= floor)
    BY LowestInRange, RangeAssumption DEF Larger, Stop, None
  <2>2. speed(asked) \in {Stop} \cup Lowest .. MaxRpm
    BY <2>1, LowestInRange
  <2>3. AlarmOK' /\ (alarm' = None => ~urgent) /\ (alarm' > 0 => urgent /\ alarm' = floor /\ floor # None)
    BY <1>5, FloorsInRange DEF AlarmOK, Larger, Rpms, None
  <2>4. alarm' > 0 => urgent /\ speed(asked) >= alarm'
    BY <2>1, <2>3, FloorsInRange DEF CurveReleases, Stop, Rpms, None
  <2>5. current \in Rpms
    BY RangeAssumption
  <2> DEFINE g == CurveGoal(speed(asked), raised, urgent, t(silicon), current)
  <2>6. Pursue(g, current)
    BY <1>5
  <2> HIDE DEF asked, speed, t
  <2>7. /\ g.desired \in Rpms /\ g.bound \in Rpms /\ g.reason \in Reasons
        /\ g.wasOff \in BOOLEAN /\ g.bypass \in BOOLEAN /\ Keeps(g.t)
        /\ Reaches(g)
    BY <1>3, <2>2, <2>3, <2>4, <2>5, CurveGoalReaches, Zenon
  <2> HIDE DEF g
  <2> QED BY <1>1, <2>3, <2>5, <2>6, <2>7, SendingStep
<1> QED BY <1>2, <1>4, <1>5, Zenon

LEMMA CurveBlindStep == TypeOK /\ StopIsAllowed /\ UpdateCurveBlind => Sends \/ Waits
<1> SUFFICES ASSUME TypeOK, StopIsAllowed, UpdateCurveBlind PROVE Sends \/ Waits
  OBVIOUS
<1>1. Sampled
  BY Zenon DEF UpdateCurveBlind
<1> DEFINE t(silicon) == Begin(SiliconClock(silicon), "input")
           goal(silicon, floor, current) ==
             CurveGoal(Larger(floor, applied), TRUE, TRUE, t(silicon), current)
<1>2. PICK silicon \in BOOLEAN, floor \in Floors, current \in Readings :
        Pursue(goal(silicon, floor, current), current) /\ alarm' = floor
  BY Zenon DEF UpdateCurveBlind
<1>3. Keeps(t(silicon)) /\ current \in Rpms
  BY TypeParts, ClocksKeep, RangeAssumption
<1>4. Larger(floor, applied) \in Lowest .. MaxRpm /\ Larger(floor, applied) >= floor
  BY TypeParts, LowestInRange, RangeAssumption DEF SpeedsOK, Larger, Rpms, None
<1>5. AlarmOK' /\ alarm' # None
  BY <1>2, LowestInRange, RangeAssumption DEF AlarmOK, None
<1> DEFINE g == goal(silicon, floor, current)
<1>6. /\ g.desired \in Rpms /\ g.bound \in Rpms /\ g.reason \in Reasons
      /\ g.wasOff \in BOOLEAN /\ g.bypass \in BOOLEAN /\ Keeps(g.t)
      /\ Reaches(g)
  <2> HIDE DEF t
  <2> QED BY <1>2, <1>3, <1>4, <1>5, CurveGoalReaches
<1>7. Pursue(g, current)
  BY <1>2
<1> HIDE DEF g
<1> QED BY <1>1, <1>3, <1>5, <1>6, <1>7, SendingStep

LEMMA AdaptiveStep == TypeOK /\ StopIsAllowed /\ UpdateAdaptive => Asks \/ Sends \/ Waits
<1> SUFFICES ASSUME TypeOK, StopIsAllowed, UpdateAdaptive PROVE Asks \/ Sends \/ Waits
  OBVIOUS
<1>1. Sampled /\ mode = "adaptive"
  BY Zenon DEF UpdateAdaptive
<1> DEFINE t(silicon, demand) ==
             AdaptiveClocks(Clear(SiliconClock(silicon), {"input"}), demand)
<1>2. PICK silicon \in BOOLEAN, available \in BOOLEAN, floor \in Floors \cup {None},
           demand \in Demands, ask \in Lowest .. MaxRpm, current \in Readings :
        /\ Sees(silicon, floor)
        /\ available \/ floor # None
        /\ floor # None => demand = "start"
        /\ demand = "low" => ask = Lowest
        /\ IF \/ RemainsWithSystem(t(silicon, demand), demand)
              \/ CoolingComplete(t(silicon, demand), demand, current)
           THEN /\ LeaveToSystem(t(silicon, demand))
                /\ HandedBackOnly
           ELSE /\ \E comfort \in {0, ask} :
                     /\ demand \in {"low", "idle"} => comfort = 0
                     /\ Pursue(AdaptiveGoal(ask, floor, available, comfort, t(silicon, demand),
                                            current), current)
                /\ alarm' = floor
  BY Zenon DEF UpdateAdaptive
<1>3. Keeps(t(silicon, demand))
  <2> DEFINE t0 == Clear(SiliconClock(silicon), {"input"})
             t1 == IF demand = "start" /\ t0["cooling"] # None THEN Stamp(t0, "demand") ELSE t0
  <2>1. Keeps(t0)
    BY TypeParts, ClocksKeep
  <2> HIDE DEF t0
  <2>2. Keeps(t1)
    BY <2>1, StampTimes DEF Keeps, Lasting, Timers
  <2>3. t(silicon, demand) = IF demand = "low" THEN Begin(t1, "quiet") ELSE Clear(t1, {"quiet"})
    BY DEF AdaptiveClocks, t0
  <2> HIDE DEF t1, t
  <2> QED BY <2>2, <2>3, BeginTimes, ClearTimes DEF Keeps, Lasting, Timers
<1> HIDE DEF t
<1>4. CASE LeaveToSystem(t(silicon, demand)) /\ HandedBackOnly
  BY <1>1, <1>3, <1>4, LeavingStep
<1>5. ASSUME NEW comfort \in {0, ask},
             Pursue(AdaptiveGoal(ask, floor, available, comfort, t(silicon, demand), current),
                    current),
             alarm' = floor
      PROVE  Sends \/ Waits
  <2> DEFINE system == IF ReadsAutomatic /\ current > 0 THEN Larger(Lowest, current) ELSE 0
             speed  == Larger(ask, floor)
             desired == IF ~available THEN Larger(speed, applied) ELSE speed
             g == AdaptiveGoal(ask, floor, available, comfort, t(silicon, demand), current)
  <2>1. current \in Rpms
    BY RangeAssumption
  <2>2. system \in Rpms
    BY <2>1, LowestInRange DEF Larger, Rpms
  <2>3. speed \in Rpms /\ (floor # None => speed >= floor)
    BY LowestInRange, FloorsInRange DEF Larger, Rpms, None
  <2>4. desired \in Rpms /\ desired >= speed
    <3> HIDE DEF speed
    <3> QED BY <2>3, TypeParts DEF SpeedsOK, Larger, Rpms, None
  <2>5. /\ g.desired = Larger(desired, system) /\ g.bound = Larger(system, comfort)
        /\ g.reason = Reason(floor # None) /\ g.wasOff = ObservedOff(current)
        /\ g.bypass = (floor # None) /\ g.t = t(silicon, demand)
    BY DEF AdaptiveGoal
  <2>6. AlarmOK' /\ (alarm' > 0 => floor # None)
    BY <1>5 DEF AlarmOK, None
  <2>7. comfort \in Rpms
    BY LowestInRange DEF Rpms
  <2> HIDE DEF system, desired, speed
  <2>8. Larger(desired, system) \in Rpms /\ Larger(desired, system) >= desired
        /\ Larger(system, comfort) \in Rpms
    BY <2>2, <2>4, <2>7, LowestInRange DEF Larger, Rpms
  <2>9. alarm' > 0 => g.desired >= alarm'
    BY <1>5, <2>3, <2>4, <2>5, <2>6, <2>8, FloorsInRange DEF Rpms, None
  <2>10. Pursue(g, current)
    BY <1>5
  <2> HIDE DEF g
  <2>11. Reaches(g)
    BY <1>1, <2>5, <2>6, <2>9 DEF Reaches
  <2>12. /\ g.desired \in Rpms /\ g.bound \in Rpms /\ g.reason \in Reasons
         /\ g.wasOff \in BOOLEAN /\ g.bypass \in BOOLEAN /\ Keeps(g.t)
    BY <1>3, <2>5, <2>8 DEF Reason, Reasons, ObservedOff
  <2> QED BY <1>1, <2>1, <2>6, <2>10, <2>11, <2>12, SendingStep
<1> QED BY <1>2, <1>4, <1>5, Zenon

(* A pass over the fan waits, asks for the fan or sends a target.          *)
LEMMA UpdateCases == TypeOK /\ StopIsAllowed /\ Update => Asks \/ Sends \/ Waits
<1> SUFFICES ASSUME TypeOK, StopIsAllowed, Update PROVE Asks \/ Sends \/ Waits
  OBVIOUS
<1>1. CASE UpdateWaiting
  <2>1. Keeps(timer')
    BY <1>1, TypeParts, ClocksKeep DEF UpdateWaiting
  <2> QED BY <1>1, <2>1, TypeParts, Zenon
          DEF UpdateWaiting, Waits, Untouched, config, FlagsOK, AlarmOK
<1> QED BY <1>1, HandingBackStep, ManualStep, CurveStep, CurveBlindStep, AdaptiveStep, Zenon
        DEF Update

-----------------------------------------------------------------------------
(* What an answer comes to.                                                *)

(* The times after the accepted answer to action a.                        *)
LEMMA AcceptTimes ==
  ASSUME timer \in Times, NEW a \in Actions, NEW ok \in BOOLEAN, Accept(a, ok)
  PROVE  /\ timer' \in Times
         /\ ~ok => /\ \A n \in Lasting \ {"auto"} : timer'[n] = timer[n]
                   /\ timer'["auto"] \in {timer["auto"], None}
         /\ ok => timer'["auto"] = timer["auto"]
         /\ ok /\ a.rpm = None => \A n \in {"write", "off", "run"} : timer'[n] = None
         /\ ok /\ a.rpm # None => timer'["write"] = 0
         /\ ok /\ a.rpm = 0 => /\ timer'["off"] = IF timer["off"] = None THEN 0 ELSE timer["off"]
                               /\ timer'["run"] = None
         /\ ok /\ a.rpm # None /\ a.rpm # 0 =>
              IF wasOff \/ applied = 0 THEN timer'["off"] = None /\ timer'["run"] = 0
              ELSE timer'["off"] = timer["off"] /\ timer'["run"] = timer["run"]
<1>1. CASE ~ok
  BY <1>1, ClearTimes DEF Accept, Lasting, Timers
<1>2. CASE ok /\ a.rpm = None
  <2>1. timer' = Clear(timer, {"write", "off", "run", "cooling", "demand", "quiet", "mismatch"})
    BY <1>2 DEF Accept
  <2> QED BY <1>2, <2>1, ClearTimes DEF Lasting, Timers, None
<1>3. CASE ok /\ a.rpm # None
  <2> DEFINE t1 == IF mode = "adaptive" /\ a.rpm > 0
                   THEN Begin(Begin(timer, "cooling"), "demand") ELSE timer
             t2 == IF a.rpm = 0 THEN Clear(Begin(t1, "off"), {"run"})
                   ELSE IF wasOff \/ applied = 0 THEN Stamp(Clear(t1, {"off"}), "run") ELSE t1
  <2>1. timer' = Stamp(t2, "write")
    BY <1>3, Zenon DEF Accept
  <2>2. t1 \in Times /\ \A n \in Lasting : t1[n] = timer[n]
    <3> DEFINE b == Begin(timer, "cooling")
    <3>1. b \in Times /\ \A n \in Lasting : b[n] = timer[n]
      BY BeginTimes DEF Lasting, Timers
    <3> HIDE DEF b
    <3>2. Begin(b, "demand") \in Times /\ \A n \in Lasting : Begin(b, "demand")[n] = timer[n]
      BY <3>1, BeginTimes DEF Lasting, Timers
    <3> QED BY <3>2 DEF b
  <2> HIDE DEF t1
  <2>3. CASE a.rpm = 0
    <3> DEFINE b == Begin(t1, "off")
    <3>1. b \in Times /\ b["off"] = (IF timer["off"] = None THEN 0 ELSE timer["off"])
          /\ b["auto"] = timer["auto"]
      BY <2>2, BeginTimes DEF Lasting, Timers
    <3>2. t2 = Clear(b, {"run"})
      BY <2>3
    <3> HIDE DEF b, t2
    <3>3. t2 \in Times /\ t2["off"] = b["off"] /\ t2["run"] = None /\ t2["auto"] = b["auto"]
      BY <3>1, <3>2, ClearTimes DEF Timers
    <3> QED BY <1>3, <2>1, <2>3, <3>1, <3>3, StampTimes DEF Timers, None
  <2>4. CASE a.rpm # 0 /\ (wasOff \/ applied = 0)
    <3> DEFINE c == Clear(t1, {"off"})
    <3>1. c \in Times /\ c["off"] = None /\ c["auto"] = timer["auto"]
      BY <2>2, ClearTimes DEF Lasting, Timers
    <3>2. t2 = Stamp(c, "run")
      BY <2>4
    <3> HIDE DEF c, t2
    <3>3. t2 \in Times /\ t2["off"] = None /\ t2["run"] = 0 /\ t2["auto"] = timer["auto"]
      BY <3>1, <3>2, StampTimes DEF Timers
    <3> QED BY <1>3, <2>1, <2>4, <3>3, StampTimes DEF Timers
  <2>5. CASE a.rpm # 0 /\ ~(wasOff \/ applied = 0)
    <3>1. timer' = Stamp(t1, "write")
      BY <2>1, <2>5
    <3> QED BY <1>3, <2>2, <2>5, <3>1, StampTimes DEF Lasting, Timers
  <2> QED BY <2>3, <2>4, <2>5
<1> QED BY <1>1, <1>2, <1>3

(* An answer is to an action that is not pending, to one that a new        *)
(* configuration has overtaken, or it is accepted.                         *)
Ignores(a) == pending # a /\ UNCHANGED <<runtime, cause>>

EndsWait(a) ==
  /\ pending = a /\ superseded /\ pending' = NoAction /\ superseded' = FALSE
  /\ UNCHANGED <<wasOff, dirty, needs, applied, release, timer, cause>>

Accepts(a, ok) == pending = a /\ ~superseded /\ Accept(a, ok)

LEMMA ExecuteCases ==
  ASSUME TypeOK, NEW ok \in BOOLEAN, Execute(ok)
  PROVE  /\ Running /\ held # << >> /\ Head(held) \in Actions /\ held' = Tail(held)
         /\ held' \in Seq(Actions) /\ Len(held') < Len(held)
         /\ Ignores(Head(held)) \/ EndsWait(Head(held)) \/ Accepts(Head(held), ok)
         /\ register' \in IF ok THEN {Head(held).rpm} ELSE {register, Head(held).rpm}
         /\ alarm' = None
         /\ UNCHANGED <<mode, setpoint, known, suspended, panicked>>
<1>1. /\ Running /\ held # << >> /\ Acknowledge(Head(held), ok)
      /\ register' \in IF ok THEN {Head(held).rpm} ELSE {register, Head(held).rpm}
      /\ held' = Tail(held) /\ alarm' = None
      /\ UNCHANGED <<config, known, suspended, panicked>>
  BY Zenon DEF Execute
<1>2. held \in Seq(Actions)
  BY TypeParts DEF ActionsOK
<1>3. Head(held) \in Actions /\ Tail(held) \in Seq(Actions) /\ Len(Tail(held)) < Len(held)
  BY <1>1, <1>2
<1>4. Ignores(Head(held)) \/ EndsWait(Head(held)) \/ Accepts(Head(held), ok)
  BY <1>1, Zenon DEF Acknowledge, Ignores, EndsWait, Accepts
<1> QED BY <1>1, <1>3, <1>4, Zenon DEF config

-----------------------------------------------------------------------------
(* The inductive invariant.                                                *)

(* A fan the controller has never seen is nobody's business yet.           *)
UnknownIsIdle == ~known => pending = NoAction /\ ~needs

(* A configuration to be applied, or one that overtook an action, warrants *)
(* a request, unless a request is what is pending.                         *)
Warranted ==
  /\ dirty => cause \/ (pending # NoAction /\ pending.rpm = None)
  /\ superseded => cause

(* Without a cause nothing was confirmed after the last request.           *)
RequestIsLast ==
  ~cause /\ timer["write"] # None /\ timer["auto"] # None => timer["write"] >= timer["auto"]

IInv ==
  /\ TypeOK
  /\ StopIsAllowed
  /\ CustomWritesWait
  /\ UnknownIsIdle
  /\ Warranted
  /\ RequestIsLast

LEMMA NoActionIsNone ==
  NoAction.rpm = None /\ NoAction \notin Actions /\ None \notin Rpms /\ None # 0
BY IdsAssumption DEF NoAction, Actions, None, Rpms

LEMMA NeverTimes == Never \in Times /\ \A n \in Timers : Never[n] = None
BY DEF Never, Times

(* Nothing has happened yet.                                               *)
LEMMA IInvInit == Init => IInv
<1> SUFFICES ASSUME Init PROVE IInv
  OBVIOUS
<1>1. SpeedsOK /\ AlarmOK
  BY LowestInRange DEF Init, SpeedsOK, AlarmOK, Rpms
<1>2. FlagsOK /\ pending = NoAction /\ held = << >> /\ timer = Never /\ applied = None
      /\ cause = TRUE /\ needs = FALSE /\ suspended = FALSE /\ superseded = FALSE
  BY Zenon DEF Init, FlagsOK
<1>3. ActionsOK
  BY <1>2 DEF ActionsOK
<1>4. TypeOK
  BY <1>1, <1>2, <1>3, NeverTimes, TypeParts
<1> QED BY <1>2, <1>4, NoActionIsNone, Zenon
        DEF IInv, StopIsAllowed, CustomWritesWait, UnknownIsIdle, Warranted, RequestIsLast

(* A pass over the fan.                                                    *)
LEMMA IInvUpdate == IInv /\ Update => IInv'
<1> SUFFICES ASSUME IInv, Update PROVE IInv'
  OBVIOUS
<1> USE DEF IInv
<1>1. Asks \/ Sends \/ Waits
  BY UpdateCases
<1>2. CASE Asks
  <2>1. /\ SpeedsOK' /\ FlagsOK' /\ timer' \in Times /\ AlarmOK'
        /\ UNCHANGED <<suspended, dirty, needs, applied>> /\ known' = TRUE
    BY <1>2, TypeParts, Zenon DEF Asks, Untouched, SpeedsOK
  <2>2. pending' \in Actions /\ pending'.rpm = None /\ held' = Append(held, pending')
        /\ superseded' = FALSE /\ cause' = FALSE /\ timer'["auto"] = 0
    BY <1>2 DEF Asks
  <2>3. ActionsOK'
    BY <2>2, TypeParts DEF ActionsOK
  <2>4. RequestIsLast'
    BY <2>1, <2>2 DEF RequestIsLast, Times, Timers, None
  <2>5. (StopIsAllowed /\ CustomWritesWait /\ UnknownIsIdle /\ Warranted)'
    BY <2>1, <2>2, NoActionIsNone
       DEF StopIsAllowed, CustomWritesWait, UnknownIsIdle, Warranted
  <2> QED BY <2>1, <2>3, <2>4, <2>5, TypePartsNext
<1>3. CASE Sends
  <2>1. /\ SpeedsOK' /\ FlagsOK' /\ timer' \in Times /\ AlarmOK'
        /\ UNCHANGED <<suspended, dirty, needs, applied, cause>> /\ known' = TRUE
        /\ ~suspended /\ ~needs /\ pending = NoAction
    BY <1>3, TypeParts, Zenon DEF Sends, Untouched, SpeedsOK, Sampled, Decides, Keeps
  <2>2. pending' \in Actions /\ held' = Append(held, pending') /\ superseded' = FALSE
        /\ (pending'.rpm = 0 => MinRpm = 0)
        /\ timer'["auto"] = timer["auto"] /\ timer'["write"] = timer["write"]
    BY <1>3, TypePartsNext DEF Sends, Keeps, Lasting, FlagsOK
  <2>3. ActionsOK'
    BY <2>2, TypeParts DEF ActionsOK
  <2>4. (RequestIsLast /\ StopIsAllowed /\ CustomWritesWait /\ UnknownIsIdle /\ Warranted)'
    BY <2>1, <2>2, NoActionIsNone
       DEF RequestIsLast, StopIsAllowed, CustomWritesWait, UnknownIsIdle, Warranted
  <2> QED BY <2>1, <2>3, <2>4, TypePartsNext
<1>4. CASE Waits
  <2>1. /\ SpeedsOK' /\ FlagsOK' /\ timer' \in Times /\ AlarmOK'
        /\ UNCHANGED <<suspended, dirty, needs, applied, cause, pending, superseded, held>>
    BY <1>4, TypeParts, Zenon DEF Waits, Untouched, SpeedsOK, Keeps
  <2>2. timer'["auto"] = timer["auto"] /\ timer'["write"] = timer["write"]
    BY <1>4 DEF Waits, Keeps, Lasting
  <2>5. known => known'
    <3>1. known \in BOOLEAN /\ known' \in {known, TRUE}
      BY <1>4, TypeParts, Zenon DEF Waits, FlagsOK
    <3> QED BY <3>1, Zenon
  <2>3. ActionsOK'
    BY <2>1, TypeParts DEF ActionsOK
  <2>4. (RequestIsLast /\ StopIsAllowed /\ CustomWritesWait /\ UnknownIsIdle /\ Warranted)'
    BY <2>1, <2>2, <2>5
       DEF RequestIsLast, StopIsAllowed, CustomWritesWait, UnknownIsIdle, Warranted
  <2> QED BY <2>1, <2>3, <2>4, TypePartsNext
<1> QED BY <1>1, <1>2, <1>3, <1>4

(* An answer: only that to a confirmed write is news to `update`, which    *)
(* comes after whatever was requested before.                              *)
LEMMA IInvExecute ==
  ASSUME IInv, NEW ok \in BOOLEAN, Execute(ok)
  PROVE  IInv'
<1> USE DEF IInv
<1> DEFINE a == Head(held)
<1>1. /\ held # << >> /\ a \in Actions /\ held' \in Seq(Actions)
      /\ Ignores(a) \/ EndsWait(a) \/ Accepts(a, ok)
      /\ register' \in IF ok THEN {a.rpm} ELSE {register, a.rpm}
      /\ alarm' = None
      /\ UNCHANGED <<mode, setpoint, known, suspended, panicked>>
  BY ExecuteCases
<1> HIDE DEF a
<1>2. AlarmOK' /\ a.rpm \in Rpms \cup {None} /\ register' \in Rpms \cup {None}
  BY <1>1, TypeParts DEF AlarmOK, Actions, SpeedsOK
<1>3. CASE Ignores(a)
  <2>1. UNCHANGED <<pending, superseded, wasOff, dirty, needs, applied, release, timer, cause>>
    BY <1>3, Zenon DEF Ignores, runtime
  <2>2. SpeedsOK' /\ FlagsOK' /\ ActionsOK' /\ timer' \in Times
    BY <1>1, <1>2, <2>1, TypeParts DEF SpeedsOK, FlagsOK, ActionsOK
  <2>3. (RequestIsLast /\ StopIsAllowed /\ CustomWritesWait /\ UnknownIsIdle /\ Warranted)'
    BY <1>1, <2>1, Zenon
       DEF RequestIsLast, StopIsAllowed, CustomWritesWait, UnknownIsIdle, Warranted
  <2> QED BY <1>2, <2>2, <2>3, TypePartsNext
<1>4. CASE EndsWait(a)
  <2>1. pending' = NoAction /\ superseded' = FALSE /\ superseded /\ cause
        /\ UNCHANGED <<wasOff, dirty, needs, applied, release, timer, cause>>
    BY <1>4 DEF EndsWait, Warranted
  <2>2. SpeedsOK' /\ FlagsOK' /\ ActionsOK' /\ timer' \in Times
    BY <1>1, <1>2, <2>1, TypeParts DEF SpeedsOK, FlagsOK, ActionsOK
  <2>3. (RequestIsLast /\ StopIsAllowed /\ CustomWritesWait /\ UnknownIsIdle /\ Warranted)'
    BY <1>1, <2>1, NoActionIsNone, Zenon
       DEF RequestIsLast, StopIsAllowed, CustomWritesWait, UnknownIsIdle, Warranted
  <2> QED BY <1>2, <2>2, <2>3, TypePartsNext
<1>5. CASE Accepts(a, ok)
  <2>1. pending = a /\ superseded' = FALSE /\ ~superseded /\ Accept(a, ok) /\ pending' = NoAction
        /\ known /\ UNCHANGED <<wasOff, release>>
    BY <1>1, <1>5, TypeParts, NoActionIsNone DEF Accepts, Accept, UnknownIsIdle, FlagsOK
  <2>2. /\ dirty' = (~ok /\ a.rpm # None)
        /\ needs' \in BOOLEAN
        /\ applied' = IF ok THEN a.rpm ELSE applied
        /\ cause' = (cause \/ a.rpm # None)
    BY <2>1, TypeParts DEF Accept, FlagsOK
  <2>3. /\ timer' \in Times
        /\ ~ok => timer'["write"] = timer["write"] /\ timer'["auto"] \in {timer["auto"], None}
        /\ ok /\ a.rpm = None => timer'["write"] = None
    BY <1>1, <2>1, AcceptTimes, TypeParts DEF Lasting
  <2>4. SpeedsOK' /\ FlagsOK' /\ ActionsOK'
    BY <1>1, <1>2, <2>1, <2>2, TypeParts DEF SpeedsOK, FlagsOK, ActionsOK
  <2>5. RequestIsLast'
    BY <2>2, <2>3 DEF RequestIsLast
  <2>6. (StopIsAllowed /\ CustomWritesWait /\ UnknownIsIdle /\ Warranted)'
    BY <1>1, <2>1, <2>2, NoActionIsNone
       DEF StopIsAllowed, CustomWritesWait, UnknownIsIdle, Warranted
  <2> QED BY <1>2, <2>3, <2>4, <2>5, <2>6, TypePartsNext
<1> QED BY <1>1, <1>3, <1>4, <1>5

(* Whatever starts the runtime afresh is a cause, with nothing pending.    *)
LEMMA IInvFresh ==
  ASSUME IInv, FreshRuntime, SpeedsOK', AlarmOK', held' = << >>, cause' = TRUE,
         known' \in BOOLEAN, suspended' = FALSE, panicked' \in BOOLEAN
  PROVE  IInv'
<1>1. /\ pending' = NoAction /\ superseded' = FALSE /\ wasOff' = FALSE /\ dirty' = TRUE
      /\ needs' = FALSE /\ applied' = None /\ release' = FALSE /\ timer' = Never
  BY Zenon DEF FreshRuntime
<1>2. FlagsOK' /\ ActionsOK' /\ timer' \in Times
  <2>1. FlagsOK'
    BY <1>1, Zenon DEF FlagsOK
  <2> QED BY <1>1, <2>1, NeverTimes DEF ActionsOK
<1>3. (RequestIsLast /\ StopIsAllowed /\ CustomWritesWait /\ UnknownIsIdle /\ Warranted)'
  BY <1>1, NoActionIsNone
     DEF RequestIsLast, StopIsAllowed, CustomWritesWait, UnknownIsIdle, Warranted
<1> QED BY <1>2, <1>3, TypePartsNext DEF IInv

(* Commands that leave the fan's part to a later pass: each of them is a   *)
(* cause.                                                                  *)
LEMMA IInvCommand ==
  ASSUME IInv, SpeedsOK', AlarmOK', timer' \in Times, cause' = TRUE, dirty' = TRUE,
         pending' \in {pending, NoAction}, superseded' \in BOOLEAN,
         held' \in Seq(Actions), UNCHANGED <<known, suspended, wasOff, needs, applied, release,
                                             panicked>>
  PROVE  IInv'
<1>1. FlagsOK' /\ ActionsOK'
  BY TypeParts DEF IInv, FlagsOK, ActionsOK
<1>2. (RequestIsLast /\ StopIsAllowed /\ CustomWritesWait /\ UnknownIsIdle /\ Warranted)'
  BY NoActionIsNone
     DEF IInv, RequestIsLast, StopIsAllowed, CustomWritesWait, UnknownIsIdle, Warranted
<1> QED BY <1>1, <1>2, TypePartsNext DEF IInv

LEMMA IInvCommands ==
  IInv /\ (Defer \/ Configure \/ SetPolicy \/ Recheck \/ Recover \/ Relaunch) => IInv'
<1> SUFFICES ASSUME IInv, Defer \/ Configure \/ SetPolicy \/ Recheck \/ Recover \/ Relaunch
             PROVE  IInv'
  OBVIOUS
<1>0. SpeedsOK /\ FlagsOK /\ ActionsOK /\ timer \in Times
  BY TypeParts DEF IInv
<1>1. CASE Defer
  <2>1. SpeedsOK' /\ AlarmOK' /\ timer' \in Times /\ held' \in Seq(Actions)
    BY <1>0, <1>1 DEF Defer, config, SpeedsOK, ActionsOK, AlarmOK
  <2>2. cause' = TRUE /\ dirty' = TRUE /\ pending' \in {pending, NoAction} /\ superseded' \in BOOLEAN
        /\ UNCHANGED <<known, suspended, wasOff, needs, applied, release, panicked>>
    BY <1>1, Zenon DEF Defer
  <2> QED BY <2>1, <2>2, IInvCommand
<1>2. CASE Configure
  <2>1. PICK m \in Modes, rpm \in Lowest .. MaxRpm, changed \in BOOLEAN : SetConfig(m, rpm, changed)
    BY <1>2, Zenon DEF Configure
  <2>2. SpeedsOK' /\ AlarmOK' /\ held' \in Seq(Actions)
    BY <1>0, <2>1 DEF SetConfig, SpeedsOK, ActionsOK, AlarmOK
  <2>3. timer' \in Times
    BY <1>0, <2>1, ClearTimes, Zenon DEF SetConfig
  <2>4. cause' = TRUE /\ dirty' = TRUE /\ pending' \in {pending, NoAction} /\ superseded' \in BOOLEAN
        /\ UNCHANGED <<known, suspended, wasOff, needs, applied, release, panicked>>
    BY <2>1 DEF SetConfig
  <2> QED BY <2>2, <2>3, <2>4, IInvCommand
<1>3. CASE SetPolicy
  <2>1. SpeedsOK' /\ AlarmOK' /\ timer' \in Times /\ held' \in Seq(Actions)
    BY <1>0, <1>3 DEF SetPolicy, config, SpeedsOK, ActionsOK, AlarmOK
  <2>2. cause' = TRUE /\ dirty' = TRUE /\ pending' \in {pending, NoAction} /\ superseded' \in BOOLEAN
        /\ UNCHANGED <<known, suspended, wasOff, needs, applied, release, panicked>>
    BY <1>3, Zenon DEF SetPolicy
  <2> QED BY <2>1, <2>2, IInvCommand
<1>4. CASE Recheck
  <2>1. SpeedsOK' /\ AlarmOK' /\ held' \in Seq(Actions)
    BY <1>0, <1>4 DEF Recheck, config, SpeedsOK, ActionsOK, AlarmOK
  <2>2. timer' \in Times
    BY <1>0, <1>4, ClearTimes, Zenon DEF Recheck
  <2>3. cause' = TRUE /\ dirty' = TRUE /\ pending' \in {pending, NoAction} /\ superseded' \in BOOLEAN
        /\ UNCHANGED <<known, suspended, wasOff, needs, applied, release, panicked>>
    BY <1>0, <1>4, Zenon DEF Recheck, FlagsOK
  <2> QED BY <2>1, <2>2, <2>3, IInvCommand
<1>5. CASE Recover
  <2>1. SpeedsOK' /\ AlarmOK'
    BY <1>0, <1>5 DEF Recover, FreshRuntime, config, SpeedsOK, AlarmOK
  <2> QED BY <1>0, <1>5, <2>1, IInvFresh, Zenon DEF Recover, FlagsOK
<1>6. CASE Relaunch
  <2>1. SpeedsOK' /\ AlarmOK'
    BY <1>0, <1>6 DEF Relaunch, FreshRuntime, config, SpeedsOK, AlarmOK
  <2>2. FreshRuntime /\ held' = << >> /\ cause' = TRUE /\ known' \in BOOLEAN
        /\ suspended' = FALSE /\ panicked' \in BOOLEAN
    BY <1>6, Zenon DEF Relaunch
  <2> QED BY <2>1, <2>2, IInvFresh
<1> QED BY <1>1, <1>2, <1>3, <1>4, <1>5, <1>6

(* A sleep suspends the controller with a request as its last word.        *)
LEMMA IInvSleep == IInv /\ PrepareForSleep => IInv'
<1> SUFFICES ASSUME IInv, PrepareForSleep PROVE IInv'
  OBVIOUS
<1> USE DEF IInv
<1>1. /\ suspended' = TRUE /\ alarm' = None
      /\ UNCHANGED <<mode, setpoint, known, dirty, needs, applied, release, register, panicked>>
  BY Zenon DEF PrepareForSleep, config
<1>2. SpeedsOK' /\ AlarmOK'
  BY <1>1, TypeParts DEF SpeedsOK, AlarmOK
<1>3. CASE known
  <2>1. Emit(None, "other", FALSE) /\ timer' = Stamp(timer, "auto") /\ cause' = FALSE
    BY <1>3, Zenon DEF PrepareForSleep
  <2>2. pending' \in Actions /\ pending'.rpm = None /\ held' = Append(held, pending')
        /\ superseded' = FALSE /\ wasOff' = FALSE
    BY <2>1 DEF Emit, Actions, FreeIds, Reasons
  <2>3. timer' \in Times /\ timer'["auto"] = 0
    BY <2>1, TypeParts, StampTimes DEF Timers
  <2>4. ActionsOK'
    BY <2>2, TypeParts DEF ActionsOK
  <2>5. FlagsOK'
    BY <1>1, <2>1, <2>2, TypeParts DEF FlagsOK
  <2>6. RequestIsLast'
    BY <2>3 DEF RequestIsLast, Times, Timers, None
  <2>7. (StopIsAllowed /\ CustomWritesWait /\ UnknownIsIdle /\ Warranted)'
    BY <1>1, <1>3, <2>1, <2>2, NoActionIsNone
       DEF StopIsAllowed, CustomWritesWait, UnknownIsIdle, Warranted
  <2> QED BY <1>2, <2>3, <2>4, <2>5, <2>6, <2>7, TypePartsNext
<1>4. CASE ~known
  <2>1. UNCHANGED <<timer, cause, pending, held, superseded, wasOff>> /\ pending = NoAction
    BY <1>4, Zenon DEF PrepareForSleep, EmitNothing, UnknownIsIdle
  <2>2. FlagsOK' /\ ActionsOK' /\ timer' \in Times
    BY <1>1, <2>1, TypeParts DEF FlagsOK, ActionsOK
  <2>3. (RequestIsLast /\ StopIsAllowed /\ CustomWritesWait /\ UnknownIsIdle /\ Warranted)'
    BY <1>1, <2>1, NoActionIsNone, Zenon
       DEF RequestIsLast, StopIsAllowed, CustomWritesWait, UnknownIsIdle, Warranted
  <2> QED BY <1>2, <2>2, <2>3, TypePartsNext
<1> QED BY <1>3, <1>4

(* Time and the firmware.  The time of a write is told apart for as long   *)
(* as that of a request, so that the order of the two is never lost.       *)
LEMMA IInvEnvironment == IInv /\ (FirmwareTakesOver \/ Tick \/ UNCHANGED vars) => IInv'
<1> SUFFICES ASSUME IInv, FirmwareTakesOver \/ Tick \/ UNCHANGED vars PROVE IInv'
  OBVIOUS
<1> USE DEF IInv
<1>1. UNCHANGED <<mode, setpoint, known, suspended, pending, superseded, wasOff, dirty, needs,
                  applied, release, held, panicked, cause>>
  BY Zenon DEF FirmwareTakesOver, Tick, vars, config, runtime, history
<1>2. SpeedsOK' /\ AlarmOK'
  <2>1. register' \in {register, None} /\ alarm' \in {alarm, None}
    BY Zenon DEF FirmwareTakesOver, Tick, vars, history
  <2> QED BY <1>1, <2>1, TypeParts DEF SpeedsOK, AlarmOK
<1>3. FlagsOK' /\ ActionsOK'
  BY <1>1, TypeParts DEF FlagsOK, ActionsOK
<1>4. timer' \in Times /\ RequestIsLast'
  <2>1. CASE Tick
    <3>1. timer' = [n \in Timers |-> IF timer[n] = None \/ timer[n] >= Horizon[n]
                                     THEN timer[n] ELSE timer[n] + 1]
      BY <2>1, Zenon DEF Tick
    <3>2. timer \in Times
      BY TypeParts
    <3>3. timer' \in Times
      BY <3>1, <3>2 DEF Times, None
    <3>4. Horizon["auto"] = AutoRetry /\ Horizon["write"] >= AutoRetry /\ Horizon["write"] \in Nat
      BY DurationAssumption DEF Horizon, Timers, Larger
    <3> HIDE DEF Horizon
    <3>5. RequestIsLast'
      BY <1>1, <3>1, <3>2, <3>4, DurationAssumption DEF RequestIsLast, Times, Timers, None
    <3> QED BY <3>3, <3>5
  <2>2. CASE FirmwareTakesOver \/ UNCHANGED vars
    <3>1. UNCHANGED timer
      BY <2>2, Zenon DEF FirmwareTakesOver, vars, runtime
    <3> QED BY <1>1, <3>1, TypeParts, Zenon DEF RequestIsLast
  <2> QED BY <2>1, <2>2
<1>5. (StopIsAllowed /\ CustomWritesWait /\ UnknownIsIdle /\ Warranted)'
  BY <1>1, Zenon DEF StopIsAllowed, CustomWritesWait, UnknownIsIdle, Warranted
<1> QED BY <1>2, <1>3, <1>4, <1>5, TypePartsNext

LEMMA IInvStep == IInv /\ [Next]_vars => IInv'
<1>1. IInv /\ Execute(TRUE) => IInv'
  BY IInvExecute
<1>2. IInv /\ Execute(FALSE) => IInv'
  BY IInvExecute
<1> QED BY <1>1, <1>2, IInvUpdate, IInvCommands, IInvSleep, IInvEnvironment, Zenon DEF Next

-----------------------------------------------------------------------------
(* Theorems.                                                               *)

LEMMA IInvAlways == Safety => []IInv
BY IInvInit, IInvStep, PTL DEF Safety

(* The state of the controller keeps its type, whatever is asked of it and *)
(* however the hardware answers.                                           *)
THEOREM TypeCorrect == Safety => []TypeOK
<1>1. IInv => TypeOK
  BY DEF IInv
<1> QED BY <1>1, IInvAlways, PTL

(* Only a pass over the fan and a sleep send anything.                     *)
LEMMA OnlyTheseEmit == TypeOK /\ [Next]_vars /\ Emits => Update \/ PrepareForSleep
<1> SUFFICES ASSUME TypeOK, [Next]_vars, ~Update, ~PrepareForSleep PROVE ~Emits
  OBVIOUS
<1>1. held \in Seq(Actions)
  BY TypeParts DEF ActionsOK
<1>2. ASSUME NEW ok \in BOOLEAN, Execute(ok) PROVE Len(held') < Len(held)
  BY <1>2, ExecuteCases
<1>3. CASE Defer
  BY <1>1, <1>3 DEF Defer, Emits
<1>4. CASE Recover \/ Relaunch
  BY <1>1, <1>4 DEF Recover, Relaunch, Emits
<1>5. CASE Configure \/ SetPolicy \/ Recheck \/ FirmwareTakesOver \/ Tick \/ UNCHANGED vars
  <2>1. held' = held
    BY <1>5, Zenon DEF Configure, SetConfig, SetPolicy, Recheck, FirmwareTakesOver, Tick, vars
  <2> QED BY <1>1, <2>1 DEF Emits
<1>6. Len(held') < Len(held) => ~Emits
  BY <1>1 DEF Emits
<1>7. ASSUME Execute(TRUE) \/ Execute(FALSE) PROVE ~Emits
  <2>1. Len(held') < Len(held)
    BY <1>2, <1>7, Zenon
  <2> QED BY <1>1, <2>1, ExecuteCases, <1>7 DEF Emits
<1> QED BY <1>3, <1>4, <1>5, <1>7, Zenon DEF Next

(* A failed write is forgotten by a confirmed hand-back, or together with  *)
(* the controller: only a hand-back can be pending while it is owed.       *)
LEMMA FailureStep ==
  IInv /\ [Next]_vars => (needs => needs' \/ register' = None \/ ~known')
<1> SUFFICES ASSUME IInv, [Next]_vars, needs, ~needs' PROVE register' = None \/ ~known'
  OBVIOUS
<1> USE DEF IInv
<1>1. ASSUME NEW ok \in BOOLEAN, Execute(ok) PROVE register' = None
  <2> DEFINE a == Head(held)
  <2>1. /\ Ignores(a) \/ EndsWait(a) \/ Accepts(a, ok)
        /\ register' \in IF ok THEN {a.rpm} ELSE {register, a.rpm}
    BY <1>1, ExecuteCases
  <2> HIDE DEF a
  <2>2. Accepts(a, ok)
    BY <2>1, Zenon DEF Ignores, EndsWait, runtime
  <2>3. a.rpm = None
    BY <2>2, Zenon DEF Accepts, CustomWritesWait
  <2>4. ok
    BY <2>2, Zenon DEF Accepts, Accept
  <2> QED BY <2>1, <2>3, <2>4
<1>2. CASE Update
  <2>1. needs' = needs
    BY <1>2, UpdateCases, Zenon DEF Asks, Sends, Waits, Untouched
  <2> QED BY <2>1, Zenon
<1>3. CASE \/ Defer \/ Configure \/ SetPolicy \/ PrepareForSleep \/ Recheck
           \/ FirmwareTakesOver \/ Tick \/ UNCHANGED vars
  <2>1. needs' = needs
    BY <1>3, Zenon DEF Defer, Configure, SetConfig, SetPolicy, PrepareForSleep, Recheck,
                       FirmwareTakesOver, Tick, vars, runtime
  <2> QED BY <2>1, Zenon
<1>4. CASE Recover \/ Relaunch
  BY <1>4, Zenon DEF Recover, Relaunch
<1> QED BY <1>1, <1>2, <1>3, <1>4, Zenon DEF Next

(* After a failed write nothing custom is pending, and the failure is not  *)
(* forgotten, before the fan is back with the system or the controller is  *)
(* new; nor is anything custom pending while the machine sleeps.           *)
THEOREM FailureAlwaysComesFirst == Safety => FailureComesFirst
<1>1. IInv => CustomWritesWait
  BY DEF IInv
<1>2. IInv /\ [Next]_vars => [needs => needs' \/ register' = None \/ ~known']_vars
  BY FailureStep
<1> QED BY <1>1, <1>2, IInvAlways, PTL DEF Safety, FailureComesFirst, FailureIsHandedBack

LEMMA AnswerStep ==
  IInv /\ [Next]_vars =>
    (applied' \notin {applied, None} =>
       /\ held # << >> /\ pending = Head(held) /\ ~superseded /\ ~suspended
       /\ applied' = register')
<1> SUFFICES ASSUME IInv, [Next]_vars, applied' \notin {applied, None}
             PROVE  /\ held # << >> /\ pending = Head(held) /\ ~superseded /\ ~suspended
                    /\ applied' = register'
  OBVIOUS
<1> USE DEF IInv
<1>1. ASSUME NEW ok \in BOOLEAN, Execute(ok)
      PROVE  /\ held # << >> /\ pending = Head(held) /\ ~superseded /\ ~suspended
             /\ applied' = register'
  <2> DEFINE a == Head(held)
  <2>1. /\ held # << >>
        /\ Ignores(a) \/ EndsWait(a) \/ Accepts(a, ok)
        /\ register' \in IF ok THEN {a.rpm} ELSE {register, a.rpm}
    BY <1>1, ExecuteCases
  <2> HIDE DEF a
  <2>2. pending = a /\ ~superseded /\ Accept(a, ok)
    BY <2>1, Zenon DEF Ignores, EndsWait, runtime, Accepts
  <2>3. ok /\ applied' = a.rpm
    BY <2>2, Zenon DEF Accept
  <2>4. ~suspended
    BY <2>2, <2>3, Zenon DEF CustomWritesWait
  <2>5. applied' = register'
    BY <2>1, <2>3
  <2> QED BY <2>1, <2>2, <2>4, <2>5, Zenon DEF a
<1>2. CASE Update
  BY <1>2, UpdateCases, Zenon DEF Asks, Sends, Waits, Untouched
<1>3. CASE \/ Defer \/ Configure \/ SetPolicy \/ PrepareForSleep \/ Recheck
           \/ FirmwareTakesOver \/ Tick \/ UNCHANGED vars
  BY <1>3, Zenon DEF Defer, Configure, SetConfig, SetPolicy, PrepareForSleep, Recheck,
                     FirmwareTakesOver, Tick, vars, runtime
<1>4. CASE Recover \/ Relaunch
  BY <1>4, Zenon DEF Recover, Relaunch, FreshRuntime
<1> QED BY <1>1, <1>2, <1>3, <1>4, Zenon DEF Next

(* The confirmed target is what the hardware has just confirmed for the    *)
(* action asked for under the configuration and power state in force,      *)
(* however late or overtaken answers are.                                  *)
THEOREM OnlyCurrentAnswersEverCount == Safety => OnlyCurrentAnswersCount
<1>1. IInv /\ [Next]_vars =>
        [applied' \notin {applied, None} =>
           /\ held # << >> /\ pending = Head(held) /\ ~superseded /\ ~suspended
           /\ applied' = register']_vars
  BY AnswerStep
<1> QED BY <1>1, IInvAlways, PTL DEF Safety, OnlyCurrentAnswersCount

LEMMA EmergencyStep ==
  IInv /\ [Next]_vars => (Emits /\ alarm' > 0 => pending'.rpm >= alarm')
<1> SUFFICES ASSUME IInv, [Next]_vars, Emits, alarm' > 0 PROVE pending'.rpm >= alarm'
  OBVIOUS
<1>1. alarm' # None
  BY DEF None
<1>2. Update
  BY <1>1, OnlyTheseEmit, Zenon DEF IInv, PrepareForSleep
<1>3. held' # held
  BY DEF Emits
<1>4. Sends
  BY <1>1, <1>2, <1>3, UpdateCases, Zenon DEF IInv, Asks, Waits
<1> QED BY <1>4 DEF Sends

(* In an emergency a target that is sent is at least its floor, whatever   *)
(* the mode, the ramp, the residence times and the throttle make of it.    *)
THEOREM EmergencyFloorAlwaysHolds == Safety => EmergencyFloorHolds
<1>1. IInv /\ [Next]_vars => [Emits /\ alarm' > 0 => pending'.rpm >= alarm']_vars
  BY EmergencyStep
<1> QED BY <1>1, IInvAlways, PTL DEF Safety, EmergencyFloorHolds

LEMMA RequestStep ==
  IInv /\ [Next]_vars =>
    (Emits /\ pending'.rpm = None /\ ~suspended' =>
       cause \/ Passed(timer, "auto", AutoRetry) \/ timer["write"] = timer["auto"])
<1> SUFFICES ASSUME IInv, [Next]_vars, Emits, pending'.rpm = None, ~suspended', ~cause,
                    ~Passed(timer, "auto", AutoRetry)
             PROVE  timer["write"] = timer["auto"]
  OBVIOUS
<1> USE DEF IInv
<1>1. Update
  BY OnlyTheseEmit, Zenon DEF PrepareForSleep
<1>2. held' # held
  BY DEF Emits
<1>3. Asks
  BY <1>1, <1>2, UpdateCases, Zenon DEF Sends, Waits
<1>4. NewlyForced(timer)
  BY <1>3, Zenon DEF Asks, Decides, Warranted
<1>5. timer["auto"] \in Nat \cup {None} /\ timer["write"] \in Nat \cup {None}
  BY TypeParts DEF Times, Timers
<1> QED BY <1>4, <1>5 DEF NewlyForced, Passed, RequestIsLast, None

(* The fan is not asked back again before AutoRetry is over unless         *)
(* something warrants it.                                                  *)
THEOREM RequestsAreNotRepeated == Safety => HandBackIsNotRepeated
<1>1. IInv /\ [Next]_vars =>
        [Emits /\ pending'.rpm = None /\ ~suspended' =>
           cause \/ Passed(timer, "auto", AutoRetry) \/ timer["write"] = timer["auto"]]_vars
  BY RequestStep
<1> QED BY <1>1, IInvAlways, PTL DEF Safety, HandBackIsNotRepeated

-----------------------------------------------------------------------------
(* Residence.                                                              *)

(* Only a stopped fan has a time of its stop, and none of its start.       *)
StopsAreTimed ==
  /\ applied # 0 => timer["off"] = None
  /\ applied = 0 => timer["run"] = None

(* The controller's times tell no more than the history: a later start of  *)
(* a fan that the tachometer saw standing begins a new running time.       *)
AgesAreTimed ==
  /\ stopAge \in Nat \cup {None} /\ runAge \in Nat \cup {None}
  /\ stopAge # None => applied = 0 /\ timer["off"] = stopAge
  /\ runAge # None => applied > 0 /\ timer["run"] # None /\ timer["run"] <= runAge

HInv == IInv /\ StopsAreTimed /\ AgesAreTimed

(* What a step other than the passing of time does to these times.         *)
KeepsTimes == UNCHANGED applied /\ \A n \in {"off", "run"} : timer'[n] = timer[n]

ResidentStep ==
  \/ KeepsTimes
  \/ applied' = applied /\ mode' = "automatic" /\ timer'["off"] = None /\ timer'["run"] = None
  \/ applied' = None /\ timer'["off"] = None /\ timer'["run"] = None
  \/ /\ applied' = 0 /\ timer'["run"] = None
     /\ timer'["off"] = IF timer["off"] = None THEN 0 ELSE timer["off"]
  \/ applied' \in Rpms \ {0} /\ timer'["off"] = None /\ timer'["run"] = 0
  \/ applied' \in Rpms \ {0} /\ applied # 0
     /\ timer'["off"] = timer["off"] /\ timer'["run"] = timer["run"]

LEMMA ResidentCases == IInv /\ [Next]_vars => ResidentStep \/ Tick
<1> SUFFICES ASSUME IInv, [Next]_vars PROVE ResidentStep \/ Tick
  OBVIOUS
<1>0. timer \in Times /\ TypeOK /\ StopIsAllowed
  BY TypeParts DEF IInv
<1>1. ASSUME NEW ok \in BOOLEAN, Execute(ok) PROVE ResidentStep
  <2> DEFINE a == Head(held)
  <2>1. /\ a \in Actions
        /\ Ignores(a) \/ EndsWait(a) \/ Accepts(a, ok)
    BY <1>0, <1>1, ExecuteCases
  <2> HIDE DEF a
  <2>2. CASE Ignores(a) \/ EndsWait(a)
    <3>1. UNCHANGED <<applied, timer>>
      BY <2>2, Zenon DEF Ignores, EndsWait, runtime
    <3> QED BY <3>1 DEF ResidentStep, KeepsTimes
  <2>3. CASE Accepts(a, ok)
    <3>1. Accept(a, ok) /\ a.rpm \in Rpms \cup {None}
          /\ applied' = IF ok THEN a.rpm ELSE applied
      BY <2>1, <2>3 DEF Accepts, Accept, Actions
    <3>2. CASE ~ok
      BY <1>0, <2>1, <3>1, <3>2, AcceptTimes DEF ResidentStep, KeepsTimes, Lasting
    <3>3. CASE ok
      BY <1>0, <2>1, <3>1, <3>3, AcceptTimes DEF ResidentStep, None
    <3> QED BY <3>2, <3>3
  <2> QED BY <2>1, <2>2, <2>3
<1>2. CASE Update
  <2>1. Asks \/ Sends \/ Waits
    BY <1>0, <1>2, UpdateCases
  <2> QED BY <2>1 DEF Asks, Sends, Waits, Keeps, Lasting, Untouched, ResidentStep, KeepsTimes
<1>3. CASE PrepareForSleep
  <2>1. UNCHANGED applied /\ timer' \in {Stamp(timer, "auto"), timer}
    BY <1>3, Zenon DEF PrepareForSleep
  <2> QED BY <1>0, <2>1, StampTimes DEF Timers, ResidentStep, KeepsTimes
<1>4. CASE Recheck
  <2>1. UNCHANGED applied /\ timer' = Clear(timer, {"mode", "rpm"})
    BY <1>4, Zenon DEF Recheck
  <2> QED BY <1>0, <2>1, ClearTimes DEF Timers, ResidentStep, KeepsTimes
<1>5. CASE Configure
  <2>1. PICK m \in Modes, rpm \in Lowest .. MaxRpm, changed \in BOOLEAN : SetConfig(m, rpm, changed)
    BY <1>5, Zenon DEF Configure
  <2> DEFINE S == (IF changed THEN {"input"} ELSE {})
                    \cup (IF m # "adaptive" THEN {"cooling", "demand", "quiet"} ELSE {})
                    \cup (IF m = "automatic" THEN {"off", "run"} ELSE {})
  <2>2. UNCHANGED applied /\ mode' = m /\ timer' = Clear(timer, S)
    BY <2>1, Zenon DEF SetConfig
  <2>3. \A n \in {"off", "run"} : n \in S <=> m = "automatic"
    OBVIOUS
  <2> HIDE DEF S
  <2>4. \A n \in {"off", "run"} : timer'[n] = IF m = "automatic" THEN None ELSE timer[n]
    BY <1>0, <2>2, <2>3, ClearTimes DEF Timers
  <2> QED BY <2>2, <2>4 DEF ResidentStep, KeepsTimes
<1>6. CASE Recover \/ Relaunch
  <2>1. applied' = None /\ timer' = Never
    BY <1>6, Zenon DEF Recover, Relaunch, FreshRuntime
  <2> QED BY <2>1, NeverTimes DEF Timers, ResidentStep
<1>7. CASE Defer \/ SetPolicy \/ FirmwareTakesOver \/ UNCHANGED vars
  <2>1. UNCHANGED <<applied, timer>>
    BY <1>7, Zenon DEF Defer, SetPolicy, FirmwareTakesOver, vars, runtime
  <2> QED BY <2>1 DEF ResidentStep, KeepsTimes
<1> QED BY <1>1, <1>2, <1>3, <1>4, <1>5, <1>6, <1>7, Zenon DEF Next

(* The times of a stop and of a start grow with the history's.             *)
LEMMA HInvTick ==
  ASSUME HInv, IInv', Tick, HistoryNext
  PROVE  HInv'
<1>0. /\ timer \in Times /\ timer' \in Times /\ applied \in Rpms \cup {None}
      /\ StopsAreTimed /\ AgesAreTimed
  BY TypeParts, TypePartsNext DEF HInv, IInv, SpeedsOK
<1>1. /\ timer' = [n \in Timers |-> IF timer[n] = None \/ timer[n] >= Horizon[n]
                                    THEN timer[n] ELSE timer[n] + 1]
      /\ timer' # timer /\ UNCHANGED <<applied, mode>>
  BY Zenon DEF Tick, config
<1>2. /\ Horizon["off"] = OffResidence /\ Horizon["run"] = RunResidence
      /\ OffResidence \in Nat /\ RunResidence \in Nat
  BY DurationAssumption DEF Horizon, Timers
<1>3. \A n \in {"off", "run"} :
        timer'[n] = IF timer[n] = None \/ timer[n] >= Horizon[n] THEN timer[n] ELSE timer[n] + 1
  BY <1>1 DEF Timers
<1>4. /\ timer["off"] \in Nat \cup {None} /\ timer["run"] \in Nat \cup {None}
  BY <1>0 DEF Times, Timers
<1> HIDE DEF Horizon
<1>5. StopsAreTimed'
  BY <1>0, <1>1, <1>3 DEF StopsAreTimed, None
<1>6. \/ stopAge' = None /\ runAge' = None
      \/ stopAge' = Older(stopAge, OffResidence) /\ runAge' = Older(runAge, RunResidence)
  <2>1. IF Forgets THEN stopAge' = None /\ runAge' = None
        ELSE IF applied' = 0 /\ applied # 0 THEN stopAge' = 0 /\ runAge' = None
        ELSE IF applied = 0 /\ applied' > 0 THEN stopAge' = None /\ runAge' = 0
        ELSE IF timer' # timer /\ Tick
        THEN /\ stopAge' = Older(stopAge, OffResidence)
             /\ runAge' = Older(runAge, RunResidence)
        ELSE UNCHANGED <<stopAge, runAge>>
    BY Zenon DEF HistoryNext
  <2>2. applied' = applied /\ ~(applied = 0 /\ applied > 0)
    BY <1>1
  <2> QED BY <1>1, <2>1, <2>2, Zenon
<1>7. AgesAreTimed'
  BY <1>0, <1>1, <1>2, <1>3, <1>4, <1>6 DEF AgesAreTimed, Older, None
<1> QED BY <1>5, <1>7 DEF HInv

LEMMA HInvStep == HInv /\ [HistoryNext]_historyVars => HInv'
<1> SUFFICES ASSUME HInv, [HistoryNext]_historyVars PROVE HInv'
  OBVIOUS
<1>0. /\ timer \in Times /\ applied \in Rpms \cup {None} /\ MaxRpm \in Nat
      /\ StopsAreTimed /\ AgesAreTimed /\ IInv
      /\ timer["off"] \in Nat \cup {None} /\ timer["run"] \in Nat \cup {None}
  BY TypeParts, RangeAssumption DEF HInv, IInv, SpeedsOK, Times, Timers
<1>1. CASE UNCHANGED historyVars
  <2>1. UNCHANGED <<vars, stopAge, runAge, applied, timer>>
    BY <1>1, Zenon DEF historyVars, vars, runtime
  <2> QED BY <1>0, <2>1, IInvStep, Zenon DEF HInv, StopsAreTimed, AgesAreTimed
<1>2. CASE HistoryNext
  <2>1. Next /\ IInv'
    BY <1>0, <1>2, IInvStep, Zenon DEF HistoryNext
  <2>2. CASE Tick
    BY <1>2, <2>1, <2>2, HInvTick
  <2>3. CASE ~Tick
    <3>1. ResidentStep
      BY <1>0, <2>1, <2>3, ResidentCases, Zenon
    <3>2. IF Forgets THEN stopAge' = None /\ runAge' = None
          ELSE IF applied' = 0 /\ applied # 0 THEN stopAge' = 0 /\ runAge' = None
          ELSE IF applied = 0 /\ applied' > 0 THEN stopAge' = None /\ runAge' = 0
          ELSE UNCHANGED <<stopAge, runAge>>
      BY <1>2, <2>3, Zenon DEF HistoryNext
    <3>3. StopsAreTimed'
      BY <1>0, <3>1 DEF ResidentStep, KeepsTimes, StopsAreTimed, None, Rpms
    <3>4. AgesAreTimed'
      BY <1>0, <3>1, <3>2
         DEF ResidentStep, KeepsTimes, StopsAreTimed, AgesAreTimed, Forgets, None, Rpms
    <3> QED BY <2>1, <3>3, <3>4 DEF HInv
  <2> QED BY <2>2, <2>3
<1> QED BY <1>1, <1>2

LEMMA ResidenceStep ==
  HInv /\ [HistoryNext]_historyVars =>
    (Emits /\ mode = "curve" /\ pending'.rpm # None /\ alarm' = None /\ ~dirty =>
       /\ applied = 0 /\ pending'.rpm > 0 => stopAge = None \/ stopAge >= OffResidence
       /\ pending'.rpm = 0 /\ applied > 0 => runAge = None \/ runAge >= RunResidence)
<1> SUFFICES ASSUME HInv, [HistoryNext]_historyVars, Emits, mode = "curve",
                    pending'.rpm # None, alarm' = None
             PROVE  /\ applied = 0 /\ pending'.rpm > 0 => stopAge = None \/ stopAge >= OffResidence
                    /\ pending'.rpm = 0 /\ applied > 0 => runAge = None \/ runAge >= RunResidence
  OBVIOUS
<1>0. IInv /\ StopsAreTimed /\ AgesAreTimed /\ TypeOK /\ StopIsAllowed
      /\ OffResidence \in Nat /\ RunResidence \in Nat
      /\ timer["off"] \in Nat \cup {None} /\ timer["run"] \in Nat \cup {None}
  BY TypeParts, DurationAssumption DEF HInv, IInv, Times, Timers
<1>1. [Next]_vars
  BY Zenon DEF HistoryNext, historyVars
<1>2. Update
  <2>1. ~PrepareForSleep \/ pending' = pending \/ pending'.rpm = None
    BY DEF PrepareForSleep, Emit, EmitNothing
  <2>2. held' # held
    BY DEF Emits
  <2>3. ~PrepareForSleep
    BY <2>1, <2>2 DEF PrepareForSleep, Emit, EmitNothing
  <2> QED BY <1>0, <1>1, <2>3, OnlyTheseEmit, Zenon
<1>3. held' # held
  BY DEF Emits
<1>4. Sends
  BY <1>0, <1>2, <1>3, UpdateCases, Zenon DEF Asks, Waits
<1> QED BY <1>0, <1>4 DEF Sends, StopsAreTimed, AgesAreTimed, Within, None

(* On a sample that is not urgent the curve starts a stopped fan only      *)
(* OffResidence after its stop, and stops a started one only RunResidence  *)
(* after its start, whatever came between: lost answers, failures, a new   *)
(* policy, a sleep.                                                        *)
THEOREM ResidenceIsAlwaysKept == HistorySpec => ResidenceIsKept
<1>1. HistoryInit => HInv
  BY IInvInit, NeverTimes
     DEF HistoryInit, HInv, Init, StopsAreTimed, AgesAreTimed, None, Timers
<1>2. HInv /\ [HistoryNext]_historyVars => HInv'
  BY HInvStep
<1>3. HInv /\ [HistoryNext]_historyVars =>
        [Emits /\ mode = "curve" /\ pending'.rpm # None /\ alarm' = None /\ ~dirty =>
           /\ applied = 0 /\ pending'.rpm > 0 => stopAge = None \/ stopAge >= OffResidence
           /\ pending'.rpm = 0 /\ applied > 0 => runAge = None \/ runAge >= RunResidence
        ]_historyVars
  BY ResidenceStep
<1> QED BY <1>1, <1>2, <1>3, PTL DEF HistorySpec, ResidenceIsKept
=============================================================================
