----------------------------- MODULE Telemetry -----------------------------
(***************************************************************************)
(* From the sensors to the demand of the adaptive mode: the app's own,     *)
(* read-only SMC connection and CPU tick counter (fan-platform: smc.rs,    *)
(* smc_sensors.rs, workload.rs), the sample the worker makes of them, and  *)
(* the two estimators of the controller (fan-core: thermal.rs, adaptive.rs,*)
(* tuning.rs, model.rs).                                                   *)
(*                                                                         *)
(* The worker samples and updates in one turn; what can go wrong is what a *)
(* turn remembers of earlier ones: filtered temperatures of sensors that   *)
(* are gone, evidence gathered before a gap, a reading made under another  *)
(* policy.  Times are ticks.  A low-pass filter is a move to any level     *)
(* between its state and its input; everything else is computed, in whole  *)
(* degrees and percent.                                                    *)
(***************************************************************************)
EXTENDS Integers, FiniteSets, FiniteSetsExt

CONSTANTS
  Keys,            \* temperature keys of this machine, with the names below
  Samples,         \* what reads of all keys may give: a temperature, 0 if it fails
  Levels,          \* the percentages a filter may stand at
  Loads,           \* readings of the CPU load, in percent
  Measurements,    \* <<proxy, surface, proxy, surface>> a user may record
  Targets,         \* comfort targets
  Biases,          \* positions of the everyday preference, -10 .. 10
  Pressures,       \* of "nominal", "fair", "serious", "critical"
  Steps,           \* ticks between the starts of two samples
  MaxAge,          \* SNAPSHOT_MAXIMUM_AGE
  Hold,            \* MISSING_INPUT_MAXIMUM_HOLD
  DtCap,           \* the longest step the estimator integrates, 5 s
  Confirmation,    \* ADAPTIVE_LOAD_CONFIRMATION_SECONDS
  LoadGap          \* MAX_SAMPLE_GAP of the tick counter

ASSUME KeysAssumption ==
  /\ Keys \subseteq {"TCMb", "TCMz", "cpuProbe", "cpuProbe2", "gpuProbe", "gpuProbe2",
                     "body", "TW0P", "label"}
  /\ Samples \subseteq [Keys -> Nat]
ASSUME TimesAssumption ==
  /\ {MaxAge, Hold, DtCap, Confirmation, LoadGap} \subseteq Nat \ {0}
  /\ Confirmation <= DtCap /\ DtCap < MaxAge /\ MaxAge < Hold
  /\ Steps \subseteq Nat \ {0} /\ Steps # {}
ASSUME LevelsAssumption ==
  /\ 0 \in Levels /\ Levels \subseteq 0 .. 100
  /\ Loads \subseteq 0 .. 100 /\ Biases \subseteq -10 .. 10
  /\ Targets \subseteq Nat /\ Measurements \subseteq Nat \X Nat \X Nat \X Nat

None == 0        \* no temperature: a valid one is above 1 degree
NoLoad == -1

(* A policy without a target, or without a calibration of this machine.    *)
NoPolicy == [target |-> None]

(* The time since the last sample is not told apart beyond this.           *)
Horizon == Hold + MaxAge + 1

VARIABLES
  \* the configuration
  policy,      \* thermal_policy: [target, calibration]
  bias,        \* adaptive_tuning.bias
  \* the controller
  lag,         \* ticks from last_sample_at to now, or -1
  held,        \* ThermalEstimator: filtered silicon, hotspot, chassis
  missing,     \* ThermalEstimator: the three missing_elapsed
  trend,       \* AdaptiveEstimator: previous and rising_elapsed, per chip
  loadElapsed, thermalLoad, heatSoak,
  effectiveBias,
  reading,     \* thermal
  \* history
  warmest,     \* per estimate, the highest reading of its present spell
  absent,      \* per estimate, ticks since its last reading
  proof,       \* ticks of unbroken observation of the load
  last         \* the last sample under the policy in force: proxy, hottest
               \* silicon, age at its use

config    == <<policy, bias>>
estimates == <<lag, held, missing, trend, loadElapsed, thermalLoad, heatSoak, effectiveBias>>
history   == <<warmest, absent, proof, last>>
vars      == <<config, estimates, reading, history>>

Inputs == {"silicon", "hotspot", "chassis"}
Chips  == {"cpu", "gpu"}

-----------------------------------------------------------------------------
(* Sensors.                                                                *)

(* sensor_name: only exact keys of this generation of chips are silicon.   *)
Group(k) == CASE k \in {"TCMb", "TCMz", "cpuProbe", "cpuProbe2"} -> "cpu"
              [] k \in {"gpuProbe", "gpuProbe2"} -> "gpu"
              [] k \in {"body", "TW0P"} -> "system"
              [] OTHER -> "other"

(* Inactive slots read as exactly 1 degree.                                *)
Plausible(v) == v > 1 /\ v < 120

(* refresh_snapshot: what was not read now, or is not plausible, is absent.*)
Refreshed(raw) == [k \in Keys |-> IF Plausible(raw[k]) THEN raw[k] ELSE None]

Of(s, g) == { k \in Keys : Group(k) = g /\ s[k] # None }

Hottest(s, ks) == IF ks = {} THEN None ELSE Max({ s[k] : k \in ks })

HottestSilicon(s) == Hottest(s, Of(s, "cpu") \cup Of(s, "gpu"))

(* discover_snapshot or refresh_snapshot: what became of the reads, empty  *)
(* without a connection or if one of the steps failed.                     *)
Nothing == [k \in Keys |-> None]
Snapshots == { Refreshed(raw) : raw \in Samples } \cup {Nothing}

(* Snapshot::average_temperature: the firmware's mean, or that of the      *)
(* probes, of which a chip has two at most, and never the firmware's hot   *)
(* spot among them.                                                        *)
Average == [s \in Snapshots |-> [g \in Chips |->
  LET probes == Of(s, g) \ {"TCMz"}
      shown  == { s[k] : k \in probes }
  IN IF g = "cpu" /\ "TCMb" \in probes THEN s["TCMb"]
     ELSE IF probes = {} THEN None
     ELSE (Max(shown) + Min(shown)) \div 2]]

Silicon(s) == Max({ Average[s][g] : g \in Chips })

(* representative_temperature of the body sensors, the wireless card left  *)
(* out: here there is one of them at most.                                 *)
Chassis(s) == Hottest(s, Of(s, "system") \ {"TW0P"})

Input == [s \in Snapshots |-> [i \in Inputs |->
  CASE i = "silicon" -> Silicon(s)
    [] i = "hotspot" -> IF HottestSilicon(s) # None THEN HottestSilicon(s) ELSE Silicon(s)
    [] i = "chassis" -> Chassis(s)]]

-----------------------------------------------------------------------------
(* Curves and filters.                                                     *)

Clamp(v, lo, hi) == IF v < lo THEN lo ELSE IF v > hi THEN hi ELSE v

(* smooth, smooth_step: in percent.                                        *)
Smooth(v, lo, hi) ==
  LET x == Clamp(((v - lo) * 100) \div (hi - lo), 0, 100)
  IN (x * x * (300 - 2 * x)) \div 10000

Between(a, b) == (IF a < b THEN a ELSE b) .. (IF a < b THEN b ELSE a)

Grid == { r[k] : r \in Samples, k \in Keys }

(* One step of a low pass of a temperature, or of a percentage: towards    *)
(* its input and never past it.                                            *)
Filtered(previous, sample) ==
  IF previous = None THEN {sample}
  ELSE Between(previous, sample) \cap (Grid \cup {previous, sample})

Approached(level, input) == Between(level, input) \cap Levels

-----------------------------------------------------------------------------
(* The configuration.                                                      *)

(* SurfaceCalibration::from_measurements: two measurements, either order;  *)
(* the mean offset is kept in half degrees, as the sum of the two.         *)
FromMeasurements(m) ==
  LET low  == IF m[1] <= m[3] THEN <<m[1], m[2]>> ELSE <<m[3], m[4]>>
      high == IF m[1] <= m[3] THEN <<m[3], m[4]>> ELSE <<m[1], m[2]>>
  IN [sensorMin |-> low[1], sensorMax |-> high[1],
      surfaceMin |-> low[2], surfaceMax |-> high[2],
      twice |-> (low[2] - low[1]) + (high[2] - high[1])]

Gap(a, b) == IF a > b THEN a - b ELSE b - a

(* SurfaceCalibration::validate.                                           *)
ValidCalibration(c) ==
  /\ Gap(c.twice, 0) <= 80
  /\ Plausible(c.sensorMin) /\ Plausible(c.sensorMax)
  /\ c.sensorMax - c.sensorMin >= 3
  /\ c.surfaceMin >= 15 /\ c.surfaceMax <= 60 /\ c.surfaceMin < c.surfaceMax
  /\ Gap(c.surfaceMin, c.sensorMin) <= 40 /\ Gap(c.surfaceMax, c.sensorMax) <= 40
  /\ Gap(c.surfaceMin - c.sensorMin, c.surfaceMax - c.sensorMax) <= 3

Calibrations == { c \in { FromMeasurements(m) : m \in Measurements } : ValidCalibration(c) }

Policies == [target : Targets, calibration : Calibrations] \cup {NoPolicy}

-----------------------------------------------------------------------------
(* ThermalEstimator::update.                                               *)

(* A first sample after a reset has elapsed = 0.                           *)
Reseeds(elapsed) == elapsed = 0

HeldBefore(elapsed)    == IF Reseeds(elapsed) THEN [i \in Inputs |-> None] ELSE held
MissingBefore(elapsed) == IF Reseeds(elapsed) THEN [i \in Inputs |-> 0] ELSE missing

Saturated(n, limit) == IF n > limit THEN limit ELSE n

MissingAfter(in, elapsed) ==
  [i \in Inputs |-> IF in[i] # None THEN 0
                    ELSE Saturated(MissingBefore(elapsed)[i] + elapsed, Hold)]

Three(a, b, c) == [i \in Inputs |-> CASE i = "silicon" -> a [] i = "hotspot" -> b [] i = "chassis" -> c]

Combine(choices) ==
  { Three(a, b, c) :
      a \in choices["silicon"], b \in choices["hotspot"], c \in choices["chassis"] }

(* The two filters of silicon have the same constant.                      *)
SameInput(in, elapsed) ==
  in["silicon"] = in["hotspot"] /\ HeldBefore(elapsed)["silicon"] = HeldBefore(elapsed)["hotspot"]

(* Mutated form: an estimate whose sensor is gone is kept.                 *)
HeldForEver(in, elapsed) ==
  Combine([i \in Inputs |->
    IF in[i] # None THEN Filtered(HeldBefore(elapsed)[i], in[i]) ELSE {HeldBefore(elapsed)[i]}])

(* The values the three filters may come to: an estimate whose sensor is   *)
(* gone is held, but not for Hold.                                         *)
HeldAfter(in, elapsed) ==
  { h \in Combine([i \in Inputs |->
      IF in[i] # None THEN Filtered(HeldBefore(elapsed)[i], in[i])
      ELSE IF MissingAfter(in, elapsed)[i] >= Hold THEN {None}
      ELSE {HeldBefore(elapsed)[i]}]) :
    SameInput(in, elapsed) => h["silicon"] = h["hotspot"] }

PressureFloor(p) ==
  CASE p = "nominal" -> 0 [] p = "fair" -> 35 [] p = "serious" -> 75 [] p = "critical" -> 100

(* The demand of a body that warms on this grid counts it as warming fast. *)
ThermalDemand(h, in, pressure, elapsed) ==
  LET silicon == Smooth(h["silicon"], 50, 95)
      rising  == ~Reseeds(elapsed) /\ held["chassis"] # None /\ h["chassis"] > held["chassis"]
      body    == (35 * silicon + 55 * Smooth(h["chassis"], 32, 55)
                  + (IF rising THEN 1000 ELSE 0)) \div 100
      urgent  == in["hotspot"]
  IN Max({ IF h["chassis"] # None THEN body ELSE silicon,
           (80 * Smooth(h["hotspot"], 65, 95)) \div 100,
           PressureFloor(pressure),
           IF urgent >= 96 THEN Clamp(75 + (25 * (urgent - 96)) \div 9, 75, 100) ELSE 0 })

-----------------------------------------------------------------------------
(* AdaptiveEstimator::update.                                              *)

NoTrend == [previous |-> None, rising |-> 0]

ObservationGap(elapsed) == ~Reseeds(elapsed) /\ elapsed > MaxAge

(* dt, and the part of it that was observed.                               *)
Step(elapsed)     == Saturated(elapsed, DtCap)
Observed(elapsed) == IF ObservationGap(elapsed) THEN 0 ELSE Step(elapsed)

Forgets(elapsed) == Reseeds(elapsed) \/ ObservationGap(elapsed)

(* SiliconTrend::update: a step of this grid is steeper than 0.15 degrees  *)
(* per second.                                                             *)
TrendAfter(c, s, elapsed) ==
  LET before  == IF Forgets(elapsed) THEN NoTrend ELSE trend[c]
      now == Average[s][c]
      climbs  == Observed(elapsed) > 0 /\ before.previous # None /\ now > before.previous
  IN IF now = None THEN NoTrend
     ELSE [previous |-> now,
           rising   |-> IF climbs THEN Saturated(before.rising + Observed(elapsed), Confirmation)
                        ELSE 0]

LoadElapsedAfter(s, load, elapsed) ==
  IF load >= 65 /\ Silicon(s) # None
  THEN Saturated((IF Forgets(elapsed) THEN 0 ELSE loadElapsed) + Observed(elapsed), Confirmation)
  ELSE 0

(* What the confirmed load and trends ask for; a prediction lies anywhere  *)
(* above the temperature that rises.                                       *)
FeedForward(load, confirmed) == IF confirmed THEN 25 + (30 * Smooth(load, 65, 95)) \div 100 ELSE 0

TrendDemands(s, rising) ==
  IF rising = {} THEN {0}
  ELSE { (80 * Smooth(t, 60, 90)) \div 100 :
           t \in { u \in Grid : u >= Silicon(s) } }

ChassisSoak(h) == IF h["chassis"] = None THEN 0 ELSE (45 * Smooth(h["chassis"], 40, 55)) \div 100

SoakInput(s, h) ==
  IF Silicon(s) = None THEN 0
  ELSE Max({ (70 * Smooth(h["silicon"], 65, 90)) \div 100, ChassisSoak(h) })

(* A reset estimator starts from what the body proves, and without time    *)
(* nothing moves.                                                          *)
HeatSoakAfter(s, h, elapsed) ==
  IF Reseeds(elapsed) THEN Approached(0, ChassisSoak(h))
  ELSE Approached(heatSoak, SoakInput(s, h))

ThermalLoadAfter(input, elapsed) ==
  IF Reseeds(elapsed) THEN {0} ELSE Approached(thermalLoad, input)

-----------------------------------------------------------------------------
(* Comfort: comfort_input, in half degrees where the offset counts.        *)

ComfortDemand(twiceSurface, target) ==
  (65 * Smooth(twiceSurface, 2 * target - 2, 2 * target + 10)) \div 100

ProxyOf(s) == IF "body" \in Keys THEN s["body"] ELSE None

(* Mutated form: outside its range on either side, a calibration is void.  *)
ComfortVoidOutside(s) ==
  LET c == policy.calibration
      p == ProxyOf(s)
      estimate == 2 * p + c.twice
  IN IF policy = NoPolicy \/ p = None THEN 0
     ELSE IF \/ p \notin c.sensorMin .. c.sensorMax
             \/ estimate \notin 2 * c.surfaceMin .. 2 * c.surfaceMax THEN 0
     ELSE ComfortDemand(estimate, policy.target)

(* Above the range, the demand of its upper end; below it, none.           *)
Comfort(s) ==
  LET c == policy.calibration
      p == ProxyOf(s)
      estimate == 2 * p + c.twice
      upper == Min({ 2 * c.sensorMax + c.twice, 2 * c.surfaceMax })
  IN IF policy = NoPolicy \/ p = None THEN 0
     ELSE IF p > c.sensorMax \/ estimate > 2 * c.surfaceMax
     THEN ComfortDemand(upper, policy.target)
     ELSE IF p < c.sensorMin \/ estimate < 2 * c.surfaceMin THEN 0
     ELSE ComfortDemand(estimate, policy.target)

-----------------------------------------------------------------------------
(* The preference: tuned_adaptive_demand.                                  *)

Tuned(demand, b, hot) ==
  IF b >= 0 THEN Saturated(demand + 2 * b, 100)
  ELSE LET gate == 100 - Smooth(hot, 80, 90)
       IN demand - (32 * (-b) * demand * (100 - demand) * gate) \div 10000000

(* Cooler adds to the whole demand, quieter takes from the daily part, and *)
(* neither from comfort.                                                   *)
Adjusted(daily, comfort, b, hot) ==
  IF b = 0 THEN Max({daily, comfort})
  ELSE Max({ Tuned(IF b > 0 THEN Max({daily, comfort}) ELSE daily, b, hot), comfort })

-----------------------------------------------------------------------------
(* The readings of the controller.                                         *)

NoReading == [available |-> FALSE, live |-> FALSE, sustained |-> FALSE,
              demand |-> 0, adjusted |-> 0, comfort |-> 0]

NoSample == [proxy |-> None, hottest |-> None, age |-> MaxAge + 1]

(* The estimators of a controller that was created, or of one resumed.     *)
Blank ==
  /\ lag' = -1 /\ held' = [i \in Inputs |-> None] /\ missing' = [i \in Inputs |-> 0]
  /\ trend' = [c \in Chips |-> NoTrend]
  /\ loadElapsed' = 0 /\ thermalLoad' = 0 /\ heatSoak' = 0
  /\ reading' = NoReading
  /\ warmest' = [i \in Inputs |-> None] /\ absent' = [i \in Inputs |-> 0] /\ proof' = 0
  /\ last' = NoSample

Init ==
  /\ policy \in Policies /\ bias \in Biases /\ effectiveBias = bias
  /\ lag = -1 /\ held = [i \in Inputs |-> None] /\ missing = [i \in Inputs |-> 0]
  /\ trend = [c \in Chips |-> NoTrend]
  /\ loadElapsed = 0 /\ thermalLoad = 0 /\ heatSoak = 0
  /\ reading = NoReading
  /\ warmest = [i \in Inputs |-> None] /\ absent = [i \in Inputs |-> 0] /\ proof = 0
  /\ last = NoSample

-----------------------------------------------------------------------------
(* One turn of the worker: CPU load, sensors, update.                      *)

(* TickSampler::observe: a load needs the counters of a sample that is not *)
(* too old, and counters that moved forward since.                         *)
ReadLoad(step) == {NoLoad} \cup (IF step <= LoadGap THEN Loads ELSE {})

Elapsed(step) == IF lag = -1 THEN 0 ELSE lag + step

(* smooth_adaptive_bias: a preference takes effect over some seconds.      *)
BiasAfter(elapsed) ==
  IF Reseeds(elapsed) THEN {effectiveBias} ELSE Between(effectiveBias, bias) \cap Biases

(* The reading that AdaptiveEstimator::update ends with, of the sample and *)
(* of what its estimates have come to, and the preference on top of it.    *)
ReadingOf(s, any, sustained, daily, b, hotspot) ==
  LET hot == IF HottestSilicon(s) = None THEN 90 ELSE HottestSilicon(s)
  IN [available |-> any,
      live      |-> HottestSilicon(s) # None,
      sustained |-> sustained,
      demand    |-> Max({daily, Comfort(s)}),
      adjusted  |-> Adjusted(daily, Comfort(s), b, Max({hot, hotspot})),
      comfort   |-> Comfort(s)]

(* Controller::update on a fresh sample.                                   *)
Evaluate(s, load, pressure, elapsed) ==
  LET in == Input[s]
      any == \E i \in Inputs : in[i] # None
      sustained == LoadElapsedAfter(s, load, elapsed) >= Confirmation
      rising == { c \in Chips : TrendAfter(c, s, elapsed).rising >= Confirmation }
  IN
  /\ lag' = 0
  /\ missing' = MissingAfter(in, elapsed)
  /\ held' \in HeldAfter(in, elapsed)
  /\ trend' = [c \in Chips |-> TrendAfter(c, s, elapsed)]
  /\ loadElapsed' = LoadElapsedAfter(s, load, elapsed)
  /\ LET demand == IF any THEN ThermalDemand(held', in, pressure, elapsed) ELSE 0
         feed   == FeedForward(load, sustained)
     IN thermalLoad' \in UNION { ThermalLoadAfter(Max({demand, feed, t}), elapsed) :
                                  t \in TrendDemands(s, rising) }
  /\ heatSoak' \in HeatSoakAfter(s, held', elapsed)
  /\ effectiveBias' \in BiasAfter(elapsed)
  /\ reading' = ReadingOf(s, any, sustained, Max({thermalLoad', heatSoak'}), effectiveBias',
                          held'["hotspot"])

(* On a sample that took too long to read: nothing in it counts, and what  *)
(* earlier ones proved is withdrawn from the reading.                      *)
Withdraw(step) ==
  /\ lag' = IF lag = -1 THEN -1 ELSE Saturated(lag + step, Horizon)
  /\ reading' = [reading EXCEPT !.available = FALSE, !.live = FALSE, !.sustained = FALSE,
                                !.comfort = 0]
  /\ UNCHANGED <<held, missing, trend, loadElapsed, thermalLoad, heatSoak, effectiveBias>>

(* History of a sample: for how long each input has been away, the most it *)
(* has been in its spell (which ends with a sample that misses it for      *)
(* Hold), and for how long the load has been watched.                      *)
Observe(s, load, step, elapsed, spent) ==
  LET in == Input[s]
      away == [i \in Inputs |-> Saturated(absent[i] + step, Hold)]
      before == IF Reseeds(elapsed) THEN [i \in Inputs |-> None] ELSE warmest
  IN
  /\ absent' = [i \in Inputs |-> IF in[i] # None THEN 0 ELSE away[i]]
  /\ warmest' = [i \in Inputs |->
       IF in[i] # None THEN Max({before[i], in[i]})
       ELSE IF away[i] >= Hold THEN None ELSE before[i]]
  /\ proof' = IF Reseeds(elapsed) \/ elapsed > MaxAge \/ load < 65 THEN 0
              ELSE Saturated(proof + elapsed, Confirmation)
  /\ last' = [proxy |-> ProxyOf(s), hottest |-> HottestSilicon(s), age |-> spent]

Overlook(step) ==
  /\ absent' = [i \in Inputs |-> Saturated(absent[i] + step, Hold)]
  /\ proof' = 0 /\ last' = NoSample
  /\ UNCHANGED warmest

(* Mutated form: the sample is stamped when it is complete.                *)
StampedAtEnd(spent) == 0

(* The age of a sample at its use: it was stamped before the battery, the  *)
(* helper and the sensors were asked.                                      *)
Stamped(spent) == spent

(* `step` is the time from the start of one sample to the start of the     *)
(* next, `spent` the time the sample took.                                 *)
Turn ==
  /\ \E step \in Steps :
       /\ lag # -1 => step >= last.age
       /\ \E spent \in {0, MaxAge + 1} :
            IF Stamped(spent) <= MaxAge
            THEN \E s \in Snapshots, load \in ReadLoad(step), pressure \in Pressures :
                   /\ Evaluate(s, load, pressure, Elapsed(step))
                   /\ Observe(s, load, step, Elapsed(step), spent)
            ELSE Withdraw(step) /\ Overlook(step)
  /\ UNCHANGED config

-----------------------------------------------------------------------------
(* Commands.                                                               *)

(* replace_config with another thermal policy.                             *)
SetPolicy ==
  /\ policy' \in Policies \ {policy}
  /\ trend' = [c \in Chips |-> NoTrend] /\ loadElapsed' = 0 /\ thermalLoad' = 0 /\ heatSoak' = 0
  /\ lag' = -1
  /\ reading' = [NoReading EXCEPT !.available = reading.available]
  /\ last' = NoSample
  /\ UNCHANGED <<bias, held, missing, effectiveBias, warmest, absent, proof>>

SetTuning ==
  /\ bias' \in Biases \ {bias}
  /\ UNCHANGED <<policy, estimates, reading, history>>

(* Controller::resume, after any confirmed reset of the fans.              *)
Resume ==
  /\ Blank
  /\ UNCHANGED <<config, effectiveBias>>

(* A sleep pauses the worker, and the wake creates a controller, whose     *)
(* preference is in force at once.                                         *)
Wake ==
  /\ Blank /\ effectiveBias' = bias
  /\ UNCHANGED config

Next == Turn \/ SetPolicy \/ SetTuning \/ Resume \/ Wake

Spec == Init /\ [][Next]_vars

-----------------------------------------------------------------------------
(* Properties.                                                             *)

TypeOK ==
  /\ policy \in Policies /\ bias \in Biases /\ effectiveBias \in -10 .. 10
  /\ lag \in -1 .. Horizon
  /\ missing \in [Inputs -> 0 .. Hold] /\ absent \in [Inputs -> 0 .. Hold]
  /\ \A c \in Chips : trend[c].rising \in 0 .. Confirmation
  /\ {loadElapsed, proof} \subseteq 0 .. Confirmation
  /\ thermalLoad \in Levels /\ heatSoak \in Levels
  /\ {reading.demand, reading.adjusted, reading.comfort} \subseteq 0 .. 100

Fresh == last.age <= MaxAge

(* After an update, an estimate is no higher than what its sensor said in  *)
(* its present spell, and a sensor that is missing has been for less than  *)
(* 30 s of real time, however that time was divided into samples, slow     *)
(* ones included: what a sensor said before a longer absence, or before a  *)
(* reset, leaves no trace (thermal.rs:84-166).                             *)
EstimateIsOfThisSpell ==
  Fresh => \A i \in Inputs : held[i] # None => absent[i] < Hold /\ held[i] <= warmest[i]

(* A load counts as sustained only after it was watched, without a gap,    *)
(* for the time of confirmation (adaptive.rs:246-267).                     *)
ConfirmationIsObserved == reading.sustained => proof >= Confirmation

(* Neither a temperature nor the proof of a load outlives the samples that *)
(* support it.                                                             *)
EvidenceIsOfThisSpell == EstimateIsOfThisSpell /\ ConfirmationIsObserved

(* What authorises custom control is silicon that was read no longer than  *)
(* SNAPSHOT_MAXIMUM_AGE before it is used; and a demand for comfort comes  *)
(* from the policy in force and from its own sensor (controller.rs:281-336,*)
(* 197-204).                                                               *)
ReadingIsCurrent ==
  /\ reading.live => last.hottest # None /\ Fresh
  /\ reading.comfort > 0 => last.proxy # None

(* On hot silicon the everyday preference takes nothing from the demand    *)
(* (tuning.rs:38-56, controller.rs:297-317).                               *)
HotKeepsDemand ==
  reading.live /\ last.hottest >= 90 => reading.adjusted >= reading.demand

(* From one sample to the next, a calibrated sensor that does not fall     *)
(* does not lower the demand for comfort, not even when it leaves its      *)
(* calibrated range (adaptive.rs:397-414).                                 *)
ComfortDoesNotDrop ==
  [][ policy' = policy /\ Fresh /\ Fresh'
      /\ last.proxy # None /\ last'.proxy >= last.proxy
        => reading'.comfort >= reading.comfort ]_vars

(* Neither a preference nor a calibration makes heat go unheard.           *)
HeatIsHeard == []HotKeepsDemand /\ ComfortDoesNotDrop
=============================================================================
