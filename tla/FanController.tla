--------------------------- MODULE FanController ---------------------------
(***************************************************************************)
(* The decision core of the unprivileged app                               *)
(* (crates/fan-core/src/controller.rs), for one fan: the loop body of      *)
(* Controller::update treats every fan alike and shares nothing between    *)
(* them but the counter of action ids.                                     *)
(*                                                                         *)
(* `update` turns a sample of the hardware into at most one action, which  *)
(* the host executes and acknowledges; meanwhile the configuration, the    *)
(* thermal policy or the power state may change, so an acknowledgement can *)
(* find that its action is no longer the pending one, or belongs to an     *)
(* older generation of the configuration.                                  *)
(*                                                                         *)
(* A fan speed is one of a few levels: the estimators, the curve and the   *)
(* ramp arithmetic are abstracted to the level they may ask for, and a     *)
(* sample is chosen anew for every update.  Times are ages in ticks.       *)
(***************************************************************************)
EXTENDS Integers, Sequences

CONSTANTS
  Modes,               \* the control modes the user may choose
  MinRpm, MaxRpm,      \* the live range of the fan, in levels
  Readings,            \* levels the tachometer may read
  Floors,              \* levels that thermal emergencies demand
  Tolerance,           \* the tachometer deviation that counts as a mismatch
  FineStep, WriteStep, \* 50 and 75 RPM: smaller changes are throttled
  IdleMargin,          \* 75 RPM above the minimum still counts as idle
  Ids,                 \* ids of the actions the host may hold
  \* durations, in ticks
  AutoRetry,           \* between two unforced SetAutomatic: 15 s
  WriteInterval,       \* between two small changes: 5 s
  ModeReconcile,       \* between two take-overs from the system: 30 s
  MismatchHold,        \* a mismatch is corrected after 10 s
  RpmReconcile,        \* and again after 15 s
  InputHold,           \* MISSING_INPUT_MAXIMUM_HOLD
  OffResidence,        \* MINIMUM_FAN_OFF_RESIDENCE
  RunResidence,        \* MINIMUM_FAN_RUN_RESIDENCE
  CoolingResidence,    \* ADAPTIVE_COOLING_RESIDENCE_SECONDS
  QuietConfirmation    \* ADAPTIVE_QUIET_CONFIRMATION_SECONDS

Rpms     == 0 .. MaxRpm
None     == -1         \* no RPM, no time; as a command, SetAutomatic
AllModes == {"automatic", "manual", "curve", "adaptive"}
Lowest   == IF MinRpm = 0 THEN 1 ELSE MinRpm    \* the slowest turning speed

ASSUME ModesAssumption == Modes \subseteq AllModes
ASSUME IdsAssumption == 0 \notin Ids
ASSUME RangeAssumption ==
  /\ MinRpm \in Nat /\ MaxRpm \in Nat /\ MinRpm < MaxRpm
  /\ Readings \subseteq Rpms
  /\ Floors \subseteq Lowest .. MaxRpm
  /\ Tolerance \in Nat /\ FineStep \in Nat /\ WriteStep \in Nat /\ IdleMargin \in Nat
ASSUME DurationAssumption ==
  /\ AutoRetry \in Nat /\ WriteInterval \in Nat /\ ModeReconcile \in Nat
  /\ MismatchHold \in Nat /\ RpmReconcile \in Nat /\ InputHold \in Nat
  /\ OffResidence \in Nat /\ RunResidence \in Nat
  /\ CoolingResidence \in Nat /\ QuietConfirmation \in Nat

Larger(a, b) == IF a >= b THEN a ELSE b

VARIABLES
  mode,        \* config.fans[id].mode
  setpoint,    \* the RPM of ControlMode::Manual; Lowest in the other modes
  known,       \* known_fans contains the fan
  suspended,   \* suspended
  pending,     \* status.pending, or NoAction
  superseded,  \* pending_generation # generation
  wasOff,      \* pending_was_off
  dirty,       \* dirty
  needs,       \* needs_failure_hand_back
  applied,     \* status.applied_rpm
  release,     \* safety_release_active
  timer,       \* age of each Option<f64> time of Runtime, or None
  held,        \* the actions the host has yet to execute, oldest first
  register,    \* what the fan does: the RPM it is forced to, or None
  panicked,    \* an expect() of update failed: the control thread is gone
  \* history
  alarm,       \* how urgent the sample just driven to a target was: the floor
               \* of its emergency, 0 for a hot input, None
  cause        \* what happened since the last SetAutomatic that warrants one

runtime == <<pending, superseded, wasOff, dirty, needs, applied, release, timer>>
history == <<alarm, cause>>
config  == <<mode, setpoint>>
vars    == <<config, known, suspended, runtime, held, register, panicked, history>>

Timers == {"write", "control", "auto", "mode", "mismatch", "rpm", "off", "run",
           "cooling", "demand", "quiet", "input", "silicon"}

(* The age at which a timer stops mattering.  `write` and `auto` are also  *)
(* compared with each other, within AutoRetry.                             *)
Horizon == [n \in Timers |->
  CASE n = "write"    -> Larger(WriteInterval, AutoRetry)
    [] n = "control"  -> 1
    [] n = "auto"     -> AutoRetry
    [] n = "mode"     -> ModeReconcile
    [] n = "mismatch" -> MismatchHold
    [] n = "rpm"      -> RpmReconcile
    [] n = "off"      -> OffResidence
    [] n = "run"      -> RunResidence
    [] n = "cooling"  -> 0
    [] n = "demand"   -> CoolingResidence
    [] n = "quiet"    -> QuietConfirmation
    [] OTHER          -> InputHold]

(* ActionReason, as far as anybody decides by it: the host never holds    *)
(* back an emergency.                                                      *)
Reasons  == {"emergency", "other"}
Actions  == [id : Ids, rpm : Rpms \cup {None}, reason : Reasons]
NoAction == [id |-> 0, rpm |-> None, reason |-> "other"]

TypeOK ==
  /\ mode \in Modes /\ setpoint \in Lowest .. MaxRpm
  /\ known \in BOOLEAN /\ suspended \in BOOLEAN
  /\ pending \in Actions \cup {NoAction}
  /\ superseded \in BOOLEAN /\ wasOff \in BOOLEAN /\ dirty \in BOOLEAN
  /\ needs \in BOOLEAN /\ release \in BOOLEAN
  /\ applied \in Rpms \cup {None}
  /\ timer \in [Timers -> Nat \cup {None}]
  /\ held \in Seq(Actions)
  /\ register \in Rpms \cup {None}
  /\ panicked \in BOOLEAN
  /\ alarm \in Floors \cup {0, None} /\ cause \in BOOLEAN

-----------------------------------------------------------------------------
(* Times.                                                                  *)

(* get_or_insert(now), Some(now), None and interval_passed.                *)
Stamp(t, m)     == [n \in Timers |-> IF n = m THEN 0 ELSE t[n]]
Begin(t, m)     == IF t[m] = None THEN Stamp(t, m) ELSE t
Clear(t, S)     == [n \in Timers |-> IF n \in S THEN None ELSE t[n]]
Passed(t, n, d) == t[n] = None \/ t[n] >= d
Within(t, n, d) == t[n] # None /\ t[n] < d
Lasted(t, n, d) == t[n] # None /\ t[n] >= d

Never == [n \in Timers |-> None]

(* Runtime::default.                                                       *)
FreshRuntime ==
  /\ pending' = NoAction /\ superseded' = FALSE /\ wasOff' = FALSE
  /\ dirty' = TRUE /\ needs' = FALSE /\ applied' = None /\ release' = FALSE
  /\ timer' = Never

Init ==
  /\ mode \in Modes /\ setpoint = Lowest
  /\ known = FALSE /\ suspended = FALSE
  /\ pending = NoAction /\ superseded = FALSE /\ wasOff = FALSE
  /\ dirty = TRUE /\ needs = FALSE /\ applied = None /\ release = FALSE
  /\ timer = Never
  /\ held = << >> /\ register \in {None, MaxRpm}
  /\ panicked = FALSE
  /\ alarm = None /\ cause = TRUE

Running == ~panicked

-----------------------------------------------------------------------------
(* The actions update returns.                                             *)

(* next_action_id: an id no action the host still holds carries.           *)
FreeIds == { id \in Ids : \A i \in 1 .. Len(held) : held[i].id # id }

(* emit.                                                                   *)
Emit(rpm, reason, off) ==
  /\ \E id \in FreeIds : pending' = [id |-> id, rpm |-> rpm, reason |-> reason]
  /\ held' = Append(held, pending')
  /\ superseded' = FALSE /\ wasOff' = off

EmitNothing == UNCHANGED <<pending, held, superseded, wasOff>>

(* emit_auto: unless forced, no two requests within AutoRetry.             *)
AskAutomatic(t, reason, force) ==
  IF force \/ Passed(t, "auto", AutoRetry)
  THEN /\ Emit(None, reason, FALSE)
       /\ timer' = Stamp(t, "auto")
       /\ cause' = FALSE
  ELSE EmitNothing /\ timer' = t /\ UNCHANGED cause

(* Every pass over a known fan stamps last_control_at.                     *)
Now == Stamp(timer, "control")

(* update reaches the decision for this fan.                               *)
Decides == Running /\ ~suspended /\ pending = NoAction

(* The hardware mode a sample reads.                                       *)
ReadsAutomatic == register = None

HandedBackOnly ==
  /\ UNCHANGED <<config, suspended, dirty, needs, applied, release, register, panicked>>
  /\ alarm' = None

-----------------------------------------------------------------------------
(* update, one action for each way through the loop body.                  *)

(* A pending action: nothing but the time of this pass changes.            *)
UpdateWaiting ==
  /\ Running /\ ~suspended /\ known /\ pending # NoAction
  /\ timer' = Now
  /\ alarm' = None
  /\ UNCHANGED <<config, known, suspended, pending, superseded, wasOff, dirty, needs,
                 applied, release, held, register, panicked, cause>>

(* After a failed SetRpm the fan goes back to the system first.            *)
UpdateFailure ==
  /\ Decides /\ known /\ needs
  /\ AskAutomatic(Now, "other", FALSE)
  /\ HandedBackOnly /\ UNCHANGED known

(* A stale snapshot, no FNum, or the fan absent from it.                   *)
UpdateStale ==
  /\ Decides /\ known /\ ~needs
  /\ AskAutomatic(Now, "other", FALSE)
  /\ HandedBackOnly /\ UNCHANGED known

(* From here on the sample shows the fan; the first one makes it known.    *)
Sampled == Decides /\ ~needs /\ known' = TRUE

(* Mutated form: forced mode under an automatic configuration is accepted. *)
UpdateAutomaticOnce ==
  /\ Sampled /\ mode = "automatic"
  /\ IF dirty THEN AskAutomatic(Now, "other", dirty)
     ELSE EmitNothing /\ timer' = Now /\ UNCHANGED cause
  /\ HandedBackOnly

(* The configuration asks for the system; `unread` is an unreadable mode.  *)
UpdateAutomatic ==
  /\ Sampled /\ mode = "automatic"
  /\ \E unread \in BOOLEAN :
       IF dirty \/ unread \/ ~ReadsAutomatic
       THEN AskAutomatic(Now, "other", dirty)
       ELSE EmitNothing /\ timer' = Now /\ UNCHANGED cause
  /\ HandedBackOnly

(* Bounds that do not validate, an unknown mode or an implausible speed.   *)
UpdateUnreadable ==
  /\ Sampled /\ mode # "automatic"
  /\ AskAutomatic(Now, "other", dirty)
  /\ HandedBackOnly

(* No chip temperature.  Without an emergency that the system's pressure   *)
(* reports, a confirmed target is held for InputHold.                      *)
SiliconClock(silicon) == IF silicon THEN Clear(Now, {"silicon"}) ELSE Begin(Now, "silicon")

UpdateBlind ==
  /\ Sampled /\ mode # "automatic"
  /\ LET t == SiliconClock(FALSE)
     IN /\ t["silicon"] >= InputHold \/ applied = None
        /\ AskAutomatic(t, "other", FALSE)
  /\ HandedBackOnly

(* The chip temperature, or a reason to continue without it.               *)
Sees(silicon, floor) ==
  silicon \/ floor # None \/ (SiliconClock(FALSE)["silicon"] < InputHold /\ applied # None)

(* The input of the curve or the adaptive estimate is missing and no       *)
(* emergency says what to do: hold the confirmed target, then hand back.   *)
MissingInput(t) ==
  IF t["input"] >= InputHold \/ applied = None
  THEN AskAutomatic(t, "other", FALSE)
  ELSE EmitNothing /\ timer' = t /\ UNCHANGED cause

UpdateInputMissing ==
  /\ Sampled /\ mode \in {"curve", "adaptive"}
  /\ \E silicon \in BOOLEAN :
       /\ Sees(silicon, None)
       /\ MissingInput(Begin(SiliconClock(silicon), "input"))
  /\ HandedBackOnly

(* Mutated form: any earlier write makes the hand-back immediate.          *)
EverForced(t) == t["write"] # None

(* LowDemandSystem: the system decides what to do at low demand.  A write  *)
(* confirmed since the last request makes the hand-back immediate.         *)
NewlyForced(t) == t["write"] # None /\ (t["auto"] = None \/ t["write"] <= t["auto"])

LeaveToSystem(t) ==
  IF dirty \/ ~ReadsAutomatic
  THEN AskAutomatic(t, "other", dirty \/ NewlyForced(t))
  ELSE EmitNothing /\ timer' = t /\ UNCHANGED cause

(* Mutated form: nothing bypasses the ramp.                                *)
AlwaysRamped(desired, previous, gradual, immediate) ==
  { r \in Rpms : r \in (previous .. desired) \cup (desired .. previous) }

(* ramp_target, up to its arithmetic: manual, bypassed and (outside the    *)
(* adaptive mode) starting changes are immediate; any other moves towards  *)
(* the request, and has moved once a whole tick has passed.                *)
Ramped(desired, previous, gradual, immediate) ==
  IF immediate \/ previous = desired THEN {desired}
  ELSE { r \in Rpms : /\ r \in (previous .. desired) \cup (desired .. previous)
                      /\ r = previous => gradual /\ timer["control"] = 0 }

(* validated_rpm within the live range; None where the code finds no value *)
(* and its expect() fails.                                                 *)
Validated(r, allowOff) ==
  IF r = 0 THEN IF allowOff /\ MinRpm = 0 THEN 0 ELSE None
  ELSE Larger(Lowest, r)

Deviation(a, b) == IF a >= b THEN a - b ELSE b - a

(* The target of a custom mode becomes a write, or not.  `g` is the goal:  *)
(* desired level, reason, the timers so far, bypass, the lower bound that  *)
(* survives the ramp, wasOff; `current` is the tachometer reading.         *)
Pursue(g, current) ==
  LET adaptive  == mode = "adaptive"
      takeOver  == ReadsAutomatic /\ Passed(g.t, "mode", ModeReconcile)
      t1        == IF takeOver THEN Stamp(g.t, "mode") ELSE g.t
      effective == IF applied = None THEN g.desired ELSE applied
      t2        == IF Deviation(current, effective) > Tolerance
                   THEN Begin(t1, "mismatch") ELSE Clear(t1, {"mismatch"})
      correct   == /\ Lasted(t2, "mismatch", MismatchHold)
                   /\ Passed(t2, "rpm", RpmReconcile)
      t3        == IF correct THEN Stamp(t2, "rpm") ELSE t2
      previous  == IF applied = None \/ (adaptive /\ ReadsAutomatic)
                   THEN current ELSE applied
      override  == g.reason = "emergency"
      protected == g.desired < previous /\ (override \/ release)
      gradual   == adaptive \/ protected
      immediate == \/ mode = "manual" /\ ~protected
                   \/ g.bypass /\ g.desired > previous
                   \/ previous = 0 /\ g.desired > 0 /\ ~gradual
  IN \E r \in Ramped(g.desired, previous, gradual, immediate) :
       LET ramped == Larger(r, g.bound)
           target == Validated(ramped, g.desired = 0)
           step   == Deviation(applied, target)
           write  == \/ dirty \/ takeOver \/ correct \/ applied = None
                     \/ /\ applied # target
                        /\ \/ step >= (IF gradual THEN FineStep ELSE WriteStep)
                           \/ Passed(t3, "write", WriteInterval)
       IN /\ release' = ((release \/ override) /\ (override \/ ramped # g.desired))
          /\ panicked' = (target = None)
          /\ timer' = t3
          /\ IF write /\ target # None
             THEN Emit(target, g.reason, g.wasOff) ELSE EmitNothing
          /\ UNCHANGED <<config, suspended, dirty, needs, applied, register, cause>>

ObservedOff(current) == MinRpm = 0 /\ (applied = 0 \/ current = 0)

Reason(override) == IF override THEN "emergency" ELSE "other"

(* ControlMode::Manual.                                                    *)
UpdateManual ==
  /\ Sampled /\ mode = "manual"
  /\ \E silicon \in BOOLEAN, floor \in Floors \cup {None}, current \in Readings :
       /\ Sees(silicon, floor)
       /\ Pursue([desired |-> Larger(setpoint, floor),
                  reason  |-> Reason(floor # None),
                  t       |-> SiliconClock(silicon),
                  bypass  |-> floor # None,
                  bound   |-> 0,
                  wasOff  |-> ObservedOff(current)], current)
       /\ alarm' = floor

-----------------------------------------------------------------------------
(* ControlMode::Curve.                                                     *)

Stop == -1   \* the curve asks for less than 0 %

(* With a minimum above zero only the system may stop the fan; a release   *)
(* from an emergency first ramps down to the minimum.                      *)
CurveReleases(speed) == speed = Stop /\ MinRpm > 0 /\ release /\ applied > MinRpm
CurveLeaves(speed)   == speed = Stop /\ MinRpm > 0 /\ ~CurveReleases(speed)

(* The residence times of a fan that may be stopped.                       *)
Resident(desired, urgent, current) ==
  IF desired = 0 /\ Within(timer, "run", RunResidence) /\ ~urgent THEN Lowest
  ELSE IF desired > 0 /\ ObservedOff(current) /\ ~urgent /\ Within(timer, "off", OffResidence)
  THEN 0 ELSE desired

CurveGoal(speed, override, urgent, t, current) ==
  [desired |-> Resident(IF speed = Stop THEN MinRpm ELSE speed, urgent, current),
   reason  |-> Reason(override),
   t       |-> t,
   bypass  |-> urgent \/ current = MaxRpm,
   bound   |-> 0,
   wasOff  |-> ObservedOff(current)]

(* `ask` is what the curve with its hysteresis asks for; `raised` says that *)
(* safety_adjusted_percent raised it and `urgent` that the input is at 90   *)
(* or the speed at 70 %; an emergency does both.                            *)
UpdateCurve ==
  /\ Sampled /\ mode = "curve"
  /\ \E silicon, urgent, raised \in BOOLEAN, floor \in Floors \cup {None},
        ask \in {Stop} \cup Lowest .. MaxRpm :
       LET asked == Larger(ask, floor)
           speed == IF CurveReleases(asked) THEN Lowest ELSE asked
           t     == Clear(SiliconClock(silicon), {"input"})
       IN /\ Sees(silicon, floor)
          /\ raised => ask # Stop
          /\ floor # None => raised /\ urgent
          /\ IF CurveLeaves(speed)
             THEN /\ LeaveToSystem(t)
                  /\ HandedBackOnly
             ELSE /\ \E current \in Readings :
                       Pursue(CurveGoal(speed, raised, urgent, t, current), current)
                  /\ alarm' = IF urgent THEN Larger(floor, 0) ELSE None

(* The input is missing in an emergency: the floor, and no less than the   *)
(* target that was confirmed before.                                       *)
UpdateCurveBlind ==
  /\ Sampled /\ mode = "curve"
  /\ \E silicon \in BOOLEAN, floor \in Floors, current \in Readings :
       /\ Pursue(CurveGoal(Larger(floor, applied), TRUE, TRUE,
                           Begin(SiliconClock(silicon), "input"), current), current)
       /\ alarm' = floor

-----------------------------------------------------------------------------
(* ControlMode::Adaptive.                                                  *)

(* What the adaptive estimate says of the demand: `low` and sustained      *)
(* (low_demand_for_release), `idle` below the threshold that starts        *)
(* cooling, `comfort` demand only, or `start`.                             *)
Demands == {"low", "idle", "comfort", "start"}

AdaptiveClocks(t0, demand) ==
  LET t1 == IF demand = "start" /\ t0["cooling"] # None THEN Stamp(t0, "demand") ELSE t0
  IN  IF demand = "low" THEN Begin(t1, "quiet") ELSE Clear(t1, {"quiet"})

RemainsWithSystem(t, demand) == t["cooling"] = None /\ demand \in {"low", "idle"}

CoolingComplete(t, demand, current) ==
  /\ t["cooling"] # None /\ demand = "low"
  /\ ~Within(t, "demand", CoolingResidence)
  /\ Lasted(t, "quiet", QuietConfirmation)
  /\ applied # None /\ applied <= MinRpm + IdleMargin
  /\ current <= MinRpm + IdleMargin

(* A fan the system runs keeps at least the speed the system gave it, if   *)
(* it turns; `comfort` is the floor above the calibrated range.            *)
AdaptiveGoal(ask, floor, available, comfort, t, current) ==
  LET system  == IF ReadsAutomatic /\ current > 0 THEN Larger(Lowest, current) ELSE 0
      speed   == Larger(ask, floor)
      desired == IF ~available THEN Larger(speed, applied) ELSE speed
  IN [desired |-> Larger(desired, system),
      reason  |-> Reason(floor # None),
      t       |-> t,
      bypass  |-> floor # None,
      bound   |-> Larger(system, comfort),
      wasOff  |-> ObservedOff(current)]

UpdateAdaptive ==
  /\ Sampled /\ mode = "adaptive"
  /\ \E silicon, available \in BOOLEAN, floor \in Floors \cup {None}, demand \in Demands,
        ask \in Lowest .. MaxRpm, current \in Readings :
       LET t == AdaptiveClocks(Clear(SiliconClock(silicon), {"input"}), demand)
       IN /\ Sees(silicon, floor)
          /\ available \/ floor # None
          /\ floor # None => demand = "start"
          /\ demand = "low" => ask = Lowest
          /\ IF RemainsWithSystem(t, demand) \/ CoolingComplete(t, demand, current)
             THEN /\ LeaveToSystem(t)
                  /\ HandedBackOnly
             ELSE /\ \E comfort \in {0, ask} :
                       /\ demand \in {"low", "idle"} => comfort = 0
                       /\ Pursue(AdaptiveGoal(ask, floor, available, comfort, t, current),
                                 current)
                  /\ alarm' = floor

-----------------------------------------------------------------------------
(* The host: it executes the actions in order, and acknowledges each.      *)

(* Mutated form: off_since survives the start of the fan.                  *)
AcceptKeepsOff(a, ok) ==
  /\ pending' = NoAction
  /\ dirty' = (~ok /\ a.rpm # None)
  /\ needs' = (a.rpm # None /\ (needs \/ ~ok))
  /\ applied' = IF ok THEN a.rpm ELSE applied
  /\ timer' = IF ok /\ a.rpm = 0 THEN Stamp(Clear(Begin(timer, "off"), {"run"}), "write")
              ELSE IF ok /\ a.rpm > 0 THEN Stamp(Stamp(timer, "run"), "write") ELSE timer
  /\ cause' = TRUE
  /\ UNCHANGED <<superseded, wasOff, release>>

(* acknowledge(a, ok) of the pending action, in its generation.            *)
Accept(a, ok) ==
  /\ pending' = NoAction
  /\ IF ~ok
     THEN /\ dirty' = (a.rpm # None)
          /\ needs' = (needs \/ a.rpm # None)
          /\ timer' = IF a.rpm # None THEN Clear(timer, {"auto"}) ELSE timer
          /\ UNCHANGED applied
     ELSE /\ dirty' = FALSE
          /\ needs' = (needs /\ a.rpm # None)
          /\ applied' = a.rpm
          /\ timer' =
               IF a.rpm = None
               THEN Clear(timer, {"write", "off", "run", "cooling", "demand", "quiet", "mismatch"})
               ELSE LET t1 == IF mode = "adaptive" /\ a.rpm > 0
                              THEN Begin(Begin(timer, "cooling"), "demand") ELSE timer
                        t2 == IF a.rpm = 0 THEN Clear(Begin(t1, "off"), {"run"})
                              ELSE IF wasOff \/ applied = 0
                              THEN Stamp(Clear(t1, {"off"}), "run") ELSE t1
                    IN Stamp(t2, "write")
  /\ cause' = (cause \/ a.rpm # None)
  /\ UNCHANGED <<superseded, wasOff, release>>

(* Mutated form: the generation is not compared.                           *)
AcknowledgeAnyGeneration(a, ok) ==
  IF pending # a THEN UNCHANGED <<runtime, cause>> ELSE Accept(a, ok)

(* An answer to an action that is pending no more changes nothing, one     *)
(* from an older generation only ends the wait.                            *)
Acknowledge(a, ok) ==
  IF pending # a THEN UNCHANGED <<runtime, cause>>
  ELSE IF superseded
  THEN /\ pending' = NoAction /\ superseded' = FALSE
       /\ UNCHANGED <<wasOff, dirty, needs, applied, release, timer, cause>>
  ELSE Accept(a, ok)

(* A failed action may have changed the hardware all the same.             *)
Execute(ok) ==
  /\ Running /\ held # << >>
  /\ LET a == Head(held)
     IN /\ Acknowledge(a, ok)
        /\ register' \in IF ok THEN {a.rpm} ELSE {register, a.rpm}
  /\ held' = Tail(held)
  /\ alarm' = None
  /\ UNCHANGED <<config, known, suspended, panicked>>

(* defer: a SetRpm the host holds back after an earlier failure.           *)
Defer ==
  /\ Running /\ held # << >>
  /\ pending = Head(held) /\ pending.rpm # None /\ pending.reason # "emergency"
  /\ pending' = NoAction /\ superseded' = FALSE /\ dirty' = TRUE /\ cause' = TRUE
  /\ held' = Tail(held)
  /\ alarm' = None
  /\ UNCHANGED <<config, known, suspended, wasOff, needs, applied, release, timer,
                 register, panicked>>

(* reset_all is confirmed, and the host calls resume().                    *)
Recover ==
  /\ Running
  /\ FreshRuntime /\ suspended' = FALSE /\ held' = << >> /\ register' = None
  /\ alarm' = None /\ cause' = TRUE
  /\ UNCHANGED <<config, known, panicked>>

(* The app starts, or replaces its controller on wake: Controller::new     *)
(* with the saved configuration.                                           *)
Relaunch ==
  /\ FreshRuntime /\ known' = FALSE /\ suspended' = FALSE /\ held' = << >>
  /\ panicked' = FALSE
  /\ alarm' = None /\ cause' = TRUE
  /\ UNCHANGED <<config, register>>

-----------------------------------------------------------------------------
(* Configuration and power.                                                *)

(* Mutated form: a new configuration forgets the failed write.             *)
SetConfigForgives(m, rpm, sourceChanged) ==
  /\ Running
  /\ mode' = m /\ setpoint' = rpm
  /\ superseded' = (pending # NoAction)
  /\ dirty' = TRUE /\ cause' = TRUE /\ needs' = FALSE
  /\ alarm' = None
  /\ UNCHANGED <<known, suspended, pending, wasOff, applied, release, timer,
                 held, register, panicked>>

(* set_fan_config with another mode, set-point or curve.                   *)
SetConfig(m, rpm, sourceChanged) ==
  /\ Running
  /\ mode' = m /\ setpoint' = rpm
  /\ superseded' = (pending # NoAction)
  /\ dirty' = TRUE /\ cause' = TRUE
  /\ timer' = Clear(timer, (IF sourceChanged THEN {"input"} ELSE {})
                      \cup (IF m # "adaptive" THEN {"cooling", "demand", "quiet"} ELSE {})
                      \cup (IF m = "automatic" THEN {"off", "run"} ELSE {}))
  /\ alarm' = None
  /\ UNCHANGED <<known, suspended, pending, wasOff, needs, applied, release,
                 held, register, panicked>>

Configure ==
  \E m \in Modes, rpm \in Lowest .. MaxRpm, sourceChanged \in BOOLEAN :
    /\ m # "manual" => rpm = Lowest
    /\ <<m, rpm>> # <<mode, setpoint>> \/ m = "curve"
    /\ SetConfig(m, rpm, sourceChanged)

(* replace_config with another thermal policy.                             *)
SetPolicy ==
  /\ Running
  /\ pending' = NoAction /\ superseded' = FALSE
  /\ dirty' = TRUE /\ cause' = TRUE
  /\ alarm' = None
  /\ UNCHANGED <<config, known, suspended, wasOff, needs, applied, release, timer,
                 held, register, panicked>>

(* prepare_for_sleep and prepare_for_shutdown.                             *)
PrepareForSleep ==
  /\ Running /\ suspended' = TRUE
  /\ IF known
     THEN Emit(None, "other", FALSE) /\ timer' = Stamp(timer, "auto") /\ cause' = FALSE
     ELSE EmitNothing /\ UNCHANGED <<timer, cause>>
  /\ alarm' = None
  /\ UNCHANGED <<config, known, dirty, needs, applied, release, register, panicked>>

(* recheck_hardware, at several moments after a wake.                      *)
Recheck ==
  /\ Running
  /\ dirty' = TRUE /\ cause' = TRUE
  /\ timer' = Clear(timer, {"mode", "rpm"})
  /\ alarm' = None
  /\ UNCHANGED <<config, known, suspended, pending, superseded, wasOff, needs, applied,
                 release, held, register, panicked>>

-----------------------------------------------------------------------------
(* The environment.                                                        *)

(* The firmware, or the helper's watchdog, takes the fan back.             *)
FirmwareTakesOver ==
  /\ register # None /\ register' = None
  /\ alarm' = None
  /\ UNCHANGED <<config, known, suspended, runtime, held, panicked, cause>>

Tick ==
  /\ timer' = [n \in Timers |-> IF timer[n] = None \/ timer[n] >= Horizon[n]
                                THEN timer[n] ELSE timer[n] + 1]
  /\ timer' # timer
  /\ alarm' = None
  /\ UNCHANGED <<config, known, suspended, pending, superseded, wasOff, dirty, needs,
                 applied, release, held, register, panicked, cause>>

Update ==
  \/ UpdateWaiting \/ UpdateFailure \/ UpdateStale \/ UpdateAutomatic
  \/ UpdateUnreadable \/ UpdateBlind \/ UpdateInputMissing
  \/ UpdateManual \/ UpdateCurve \/ UpdateCurveBlind \/ UpdateAdaptive

Next ==
  \/ Update
  \/ Execute(TRUE) \/ Execute(FALSE) \/ Defer
  \/ Configure \/ SetPolicy \/ PrepareForSleep \/ Recheck \/ Recover \/ Relaunch
  \/ FirmwareTakesOver \/ Tick

Safety == Init /\ [][Next]_vars

(* The hardware does what the controller is waiting for.                   *)
Succeed == /\ held # << >> /\ pending = Head(held) /\ ~superseded
           /\ Execute(TRUE)

(* The worker loop samples and updates for ever, time passes, every action *)
(* is executed, and a helper that is asked again and again for what is     *)
(* still wanted succeeds at some time.                                     *)
Fairness ==
  /\ WF_vars(Update) /\ WF_vars(Tick)
  /\ WF_vars(Execute(TRUE) \/ Execute(FALSE)) /\ SF_vars(Succeed)

Spec == Safety /\ Fairness

-----------------------------------------------------------------------------
(* Properties.                                                             *)

(* An action leaves the controller in this step.                           *)
Emits == Len(held') > Len(held)

(* No custom write is outstanding while the controller is suspended for    *)
(* sleep or exit, nor while it owes a hand-back after a failed write:      *)
(* whatever the configuration does in the meantime.                        *)
CustomWritesWait == suspended \/ needs => pending.rpm = None

(* A failed custom write is forgotten only when the fan is back with the   *)
(* system, or when the controller itself is new.                           *)
FailureIsHandedBack == [][needs => needs' \/ register' = None \/ ~known']_vars

(* A failed write comes first: nothing custom is sent before the fan is    *)
(* back with the system.                                                   *)
FailureComesFirst == []CustomWritesWait /\ FailureIsHandedBack

(* The confirmed target changes only to what the hardware has just         *)
(* confirmed for the pending action, asked for under the configuration     *)
(* and power state still in force.                                         *)
OnlyCurrentAnswersCount ==
  [][applied' \notin {applied, None} =>
       /\ held # << >> /\ pending = Head(held) /\ ~superseded /\ ~suspended
       /\ applied' = register']_vars

(* The helper is not asked again and again to hand a fan back: update      *)
(* repeats SetAutomatic only after AutoRetry, or after something happened  *)
(* that warrants it (a change of configuration, a write, a new session).   *)
(* A write confirmed in the instant of the last request also counts.       *)
HandBackIsNotRepeated ==
  [][Emits /\ pending'.rpm = None /\ ~suspended' =>
       cause \/ Passed(timer, "auto", AutoRetry) \/ timer["write"] = timer["auto"]]_vars

(* Whatever the ramp, the residence times and the throttle do, a target    *)
(* sent in a thermal emergency is at least the emergency's floor.          *)
EmergencyFloorHolds ==
  [][Emits /\ alarm' > 0 => pending'.rpm >= alarm']_vars

(* A fan that is configured to be the system's, but is not, gets there     *)
(* unless the app is restarted, suspended or reconfigured in between.      *)
Interrupted == ~known \/ suspended \/ panicked

AutomaticIsReached ==
  mode = "automatic" /\ register # None
    ~> register = None \/ mode # "automatic" \/ Interrupted

(* A failed write is followed by a confirmed hand-back.                    *)
FailureIsRecovered == needs ~> ~needs \/ Interrupted

(* Whatever took the fan, it returns to the system.                        *)
FanIsReturned == AutomaticIsReached /\ FailureIsRecovered

(* controller.rs expects a "bounded target": the ramped target is always   *)
(* one the live range validates.                                           *)
TargetIsBounded == ~panicked
=============================================================================
