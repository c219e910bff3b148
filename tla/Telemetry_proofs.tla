-------------------------- MODULE Telemetry_proofs --------------------------
(***************************************************************************)
(* The estimators of the adaptive mode, for every machine, every set of    *)
(* samples, calibrations, preferences and times.  First the operators: the *)
(* inputs of a sample, the curves, comfort and the preference.  Then an    *)
(* invariant that every turn and every command keeps, and what follows     *)
(* from it.                                                                *)
(***************************************************************************)
EXTENDS Telemetry, FiniteSetTheorems, TLAPS

(* A finite set of integers that is not empty has a least element: the     *)
(* elements below each member form a finite set, and of these sets one is  *)
(* smallest. This takes the place of an induction over the set.            *)
LEMMA HasMin ==
  ASSUME NEW S, S \subseteq Int, IsFiniteSet(S), S # {}
  PROVE  \E m \in S : \A y \in S : m <= y
<1> DEFINE Lower(x) == { y \in S : y < x }
           Lowers == { Lower(x) : x \in S }
<1>1. Lowers \subseteq FiniteSubsetsOf(S) /\ Lowers # {}
  <2>1. \A x \in S : Lower(x) \in SUBSET S /\ IsFiniteSet(Lower(x))
    BY FS_Subset
  <2> QED BY <2>1 DEF FiniteSubsetsOf
<1>2. \E L \in Lowers : \A K \in Lowers : <<K, L>> \notin StrictSubsetOrdering(S)
  <2> HIDE DEF Lowers
  <2> QED BY <1>1, FS_StrictSubsetOrderingWellFounded, WFMin, Zenon
<1>3. PICK x \in S : \A y \in S : <<Lower(y), Lower(x)>> \notin StrictSubsetOrdering(S)
  BY <1>2
<1>4. \A y \in S : x <= y
  <2> SUFFICES ASSUME NEW y \in S, y < x PROVE FALSE OBVIOUS
  <2>1. x \in Int /\ y \in Int /\ \A z \in S : z \in Int OBVIOUS
  <2>2. \A z \in S : z < y => z < x BY <2>1
  <2>3. Lower(y) \subseteq Lower(x) BY <2>2, Zenon
  <2>4. y \in Lower(x) /\ ~(y < y) BY <2>1
  <2>5. y \notin Lower(y) BY <2>4, Zenon
  <2>6. Lower(x) \in SUBSET S /\ Lower(y) \in SUBSET S OBVIOUS
  <2> HIDE DEF Lower
  <2>7. <<Lower(y), Lower(x)>> \in StrictSubsetOrdering(S)
    BY <2>3, <2>4, <2>5, <2>6 DEF StrictSubsetOrdering
  <2> QED BY <2>7, <1>3
<1> QED BY <1>4

(* In the same way it has a greatest element.                              *)
LEMMA HasMax ==
  ASSUME NEW S, S \subseteq Int, IsFiniteSet(S), S # {}
  PROVE  \E m \in S : \A y \in S : m >= y
<1> DEFINE Upper(x) == { y \in S : y > x }
           Uppers == { Upper(x) : x \in S }
<1>1. Uppers \subseteq FiniteSubsetsOf(S) /\ Uppers # {}
  <2>1. \A x \in S : Upper(x) \in SUBSET S /\ IsFiniteSet(Upper(x))
    BY FS_Subset
  <2> QED BY <2>1 DEF FiniteSubsetsOf
<1>2. \E L \in Uppers : \A K \in Uppers : <<K, L>> \notin StrictSubsetOrdering(S)
  <2> HIDE DEF Uppers
  <2> QED BY <1>1, FS_StrictSubsetOrderingWellFounded, WFMin, Zenon
<1>3. PICK x \in S : \A y \in S : <<Upper(y), Upper(x)>> \notin StrictSubsetOrdering(S)
  BY <1>2
<1>4. \A y \in S : x >= y
  <2> SUFFICES ASSUME NEW y \in S, y > x PROVE FALSE OBVIOUS
  <2>1. x \in Int /\ y \in Int /\ \A z \in S : z \in Int OBVIOUS
  <2>2. \A z \in S : z > y => z > x BY <2>1
  <2>3. Upper(y) \subseteq Upper(x) BY <2>2, Zenon
  <2>4. y \in Upper(x) /\ ~(y > y) BY <2>1
  <2>5. y \notin Upper(y) BY <2>4, Zenon
  <2>6. Upper(x) \in SUBSET S /\ Upper(y) \in SUBSET S OBVIOUS
  <2> HIDE DEF Upper
  <2>7. <<Upper(y), Upper(x)>> \in StrictSubsetOrdering(S)
    BY <2>3, <2>4, <2>5, <2>6 DEF StrictSubsetOrdering
  <2> QED BY <2>7, <1>3
<1> QED BY <1>4

(* Min of the community modules is then the least element.                 *)
LEMMA MinIsLeast ==
  ASSUME NEW S, S \subseteq Int, IsFiniteSet(S), S # {}
  PROVE  Min(S) \in S /\ \A y \in S : Min(S) <= y
BY HasMin DEF Min

(* And Max the greatest.                                                   *)
LEMMA MaxIsGreatest ==
  ASSUME NEW S, S \subseteq Int, IsFiniteSet(S), S # {}
  PROVE  Max(S) \in S /\ \A y \in S : Max(S) >= y
BY HasMax DEF Max

(* Division by a positive number does not reverse an order.                *)
LEMMA DivMonotone ==
  ASSUME NEW a \in Int, NEW b \in Int, NEW w \in Nat \ {0}, a <= b
  PROVE  a \div w \in Int /\ a \div w <= b \div w
<1>1. a \div w \in Int /\ b \div w \in Int OBVIOUS
<1>2. w * (a \div w) <= a /\ b < w * (b \div w) + w OBVIOUS
<1>3. SUFFICES ASSUME a \div w >= b \div w + 1 PROVE FALSE BY <1>1
<1>4. w * (a \div w) >= w * (b \div w + 1) BY <1>1, <1>3
<1> QED BY <1>1, <1>2, <1>4


-----------------------------------------------------------------------------
(* Operators.                                                              *)

(* The greater of two integers.                                            *)
LEMMA MaxOfTwo ==
  ASSUME NEW a \in Int, NEW b \in Int
  PROVE  Max({a, b}) = IF a >= b THEN a ELSE b
<1>1. \A x \in {a, b} : x \in Int OBVIOUS
<1>2. \E m \in {a, b} : \A y \in {a, b} : m >= y OBVIOUS
<1>3. Max({a, b}) \in {a, b} /\ \A y \in {a, b} : Max({a, b}) >= y
  BY <1>2, Zenon DEF Max
<1> QED BY <1>1, <1>3

LEMMA MaxOfPercentages ==
  ASSUME NEW a \in 0 .. 100, NEW b \in 0 .. 100
  PROVE  Max({a, b}) \in 0 .. 100
BY MaxOfTwo

(* The lesser of two integers.                                             *)
LEMMA MinOfTwo ==
  ASSUME NEW a \in Int, NEW b \in Int
  PROVE  Min({a, b}) = IF a <= b THEN a ELSE b
<1>1. \A x \in {a, b} : x \in Int OBVIOUS
<1>2. \E m \in {a, b} : \A y \in {a, b} : m <= y OBVIOUS
<1>3. Min({a, b}) \in {a, b} /\ \A y \in {a, b} : Min({a, b}) <= y
  BY <1>2, Zenon DEF Min
<1> QED BY <1>1, <1>3

(* A machine has finitely many temperature keys.                           *)
LEMMA KeysAreFinite == IsFiniteSet(Keys)
<1> DEFINE cpu  == {"TCMb", "TCMz", "cpuProbe", "cpuProbe2"}
           rest == {"gpuProbe", "gpuProbe2", "body", "TW0P", "label"}
<1>1. \A x : IsFiniteSet({x}) BY FS_Singleton
<1>2. \A S, T : IsFiniteSet(S) /\ IsFiniteSet(T) => IsFiniteSet(S \cup T) BY FS_Union
<1>3. cpu = {"TCMb"} \cup ({"TCMz"} \cup ({"cpuProbe"} \cup {"cpuProbe2"})) OBVIOUS
<1>4. rest = {"gpuProbe"} \cup ({"gpuProbe2"} \cup ({"body"} \cup ({"TW0P"} \cup {"label"}))) OBVIOUS
<1>5. Keys \in SUBSET (cpu \cup rest) BY KeysAssumption
<1> HIDE DEF cpu, rest
<1>6. IsFiniteSet(cpu \cup rest) BY <1>1, <1>2, <1>3, <1>4, Zenon
<1> QED BY <1>5, <1>6, FS_Subset

(* A snapshot has a temperature, or None, for every key.                   *)
LEMMA SnapshotType == \A s \in Snapshots : s \in [Keys -> Nat]
<1> SUFFICES ASSUME NEW s \in Snapshots PROVE s \in [Keys -> Nat] OBVIOUS
<1>1. CASE \E raw \in Samples : s = Refreshed(raw)
  <2> PICK raw \in Samples : s = Refreshed(raw) BY <1>1
  <2>1. raw \in [Keys -> Nat] BY KeysAssumption
  <2> QED BY <2>1 DEF Refreshed, None
<1>2. CASE s = Nothing BY <1>2 DEF Nothing, None
<1> QED BY <1>1, <1>2 DEF Snapshots

(* The readings of a set of sensors have a hottest and a coolest.          *)
LEMMA ReadingsHaveExtremes ==
  ASSUME NEW s \in [Keys -> Nat], NEW ks \in SUBSET Keys, ks # {}
  PROVE  LET shown == { s[k] : k \in ks } IN Max(shown) \in Nat /\ Min(shown) \in Nat
<1> DEFINE shown == { s[k] : k \in ks }
<1>1. shown # {} /\ shown \subseteq Nat OBVIOUS
<1>2. IsFiniteSet(shown)
  <2>1. IsFiniteSet(ks) BY KeysAreFinite, FS_Subset
  <2>2. [k \in ks |-> s[k]] \in Surjection(ks, shown)
    BY DEF Surjection
  <2> HIDE DEF shown
  <2> QED BY <2>1, <2>2, FS_Surjection
<1> HIDE DEF shown
<1>3. shown \subseteq Int BY <1>1
<1>4. Max(shown) \in shown BY <1>1, <1>2, <1>3, MaxIsGreatest
<1>5. Min(shown) \in shown BY <1>1, <1>2, <1>3, MinIsLeast
<1>6. Max(shown) \in Nat /\ Min(shown) \in Nat BY <1>1, <1>4, <1>5
<1> QED BY <1>6 DEF shown

(* The hottest of any sensors is a temperature, or None.                   *)
LEMMA HottestType ==
  ASSUME NEW s \in Snapshots, NEW ks \in SUBSET Keys
  PROVE  Hottest(s, ks) \in Nat
<1>1. s \in [Keys -> Nat] BY SnapshotType
<1>2. CASE ks = {} BY <1>2 DEF Hottest, None
<1>3. CASE ks # {} BY <1>1, <1>3, ReadingsHaveExtremes DEF Hottest
<1> QED BY <1>2, <1>3

(* So is the average of a chip.                                            *)
LEMMA AverageType ==
  ASSUME NEW s \in Snapshots, NEW g \in Chips
  PROVE  Average[s][g] \in Nat
<1> DEFINE probes == Of(s, g) \ {"TCMz"}  shown == { s[k] : k \in probes }
<1>1. s \in [Keys -> Nat] BY SnapshotType
<1>2. probes \in SUBSET Keys BY DEF Of
<1>3. Average[s][g] = IF g = "cpu" /\ "TCMb" \in probes THEN s["TCMb"]
                      ELSE IF probes = {} THEN None
                      ELSE (Max(shown) + Min(shown)) \div 2
  BY DEF Average
<1>4. probes # {} => Max(shown) \in Nat /\ Min(shown) \in Nat
  BY <1>1, <1>2, ReadingsHaveExtremes
<1> HIDE DEF shown
<1>5. probes # {} => (Max(shown) + Min(shown)) \div 2 \in Nat
  BY <1>4
<1> HIDE DEF probes
<1> QED BY <1>1, <1>2, <1>3, <1>5 DEF None

(* So are the three inputs of the estimator.                               *)
LEMMA InputType ==
  ASSUME NEW s \in Snapshots
  PROVE  /\ Silicon(s) \in Nat /\ HottestSilicon(s) \in Nat
         /\ Input[s] \in [Inputs -> Nat]
<1>1. Silicon(s) \in Nat
  <2>1. Average[s]["cpu"] \in Nat /\ Average[s]["gpu"] \in Nat BY AverageType DEF Chips
  <2>2. { Average[s][g] : g \in Chips } = {Average[s]["cpu"], Average[s]["gpu"]} BY DEF Chips
  <2>3. Silicon(s) = Max({Average[s]["cpu"], Average[s]["gpu"]}) BY <2>2 DEF Silicon
  <2> QED BY <2>1, <2>3, MaxOfTwo
<1>2. HottestSilicon(s) \in Nat
  <2>1. Of(s, "cpu") \cup Of(s, "gpu") \in SUBSET Keys BY DEF Of
  <2> QED BY <2>1, HottestType DEF HottestSilicon
<1>3. Chassis(s) \in Nat
  <2>1. Of(s, "system") \ {"TW0P"} \in SUBSET Keys BY DEF Of
  <2> QED BY <2>1, HottestType DEF Chassis
<1>4. Input[s] = [i \in Inputs |->
  CASE i = "silicon" -> Silicon(s)
    [] i = "hotspot" -> IF HottestSilicon(s) # None THEN HottestSilicon(s) ELSE Silicon(s)
    [] i = "chassis" -> Chassis(s)]
  BY DEF Input
<1> QED BY <1>1, <1>2, <1>3, <1>4 DEF Inputs

(* A clamped value is a percentage, and does not fall when the value rises.*)
LEMMA ClampBounds ==
  ASSUME NEW v \in Int, NEW w \in Int, v <= w
  PROVE  Clamp(v, 0, 100) \in 0 .. 100 /\ Clamp(v, 0, 100) <= Clamp(w, 0, 100)
BY DEF Clamp

(* The cubic of smooth_step does not fall over the percentages.            *)
LEMMA CubeRises ==
  ASSUME NEW a \in 0 .. 100, NEW b \in 0 .. 100, a <= b
  PROVE  a * a * (300 - 2 * a) <= b * b * (300 - 2 * b)
<1> DEFINE d == b - a
<1>1. d \in Nat /\ a \in Nat /\ b \in Nat /\ a * a \in Nat /\ b * b \in Nat /\ a * b \in Nat OBVIOUS
<1>2. a * a <= 100 * a /\ b * b <= 100 * b OBVIOUS
<1>3. 2 * (a * b) <= a * a + b * b OBVIOUS
<1>4. 300 * (a + b) - 2 * (a * a + a * b + b * b) >= 0
  BY <1>1, <1>2, <1>3
<1>5. b * b * (300 - 2 * b) - a * a * (300 - 2 * a)
        = d * (300 * (a + b) - 2 * (a * a + a * b + b * b))
  BY <1>1
<1>6. \A m, n \in Int : m >= 0 /\ n >= 0 => m * n >= 0 OBVIOUS
<1>7. d * (300 * (a + b) - 2 * (a * a + a * b + b * b)) >= 0
  <2> DEFINE e == 300 * (a + b) - 2 * (a * a + a * b + b * b)
  <2>1. e \in Int /\ e >= 0 BY <1>1, <1>4
  <2> HIDE DEF e, d
  <2> QED BY <1>1, <2>1, <1>6 DEF e
<1> QED BY <1>1, <1>5, <1>7

(* smooth_step is a percentage and does not fall when its input rises,     *)
(* whatever the ends of its range.                                         *)
LEMMA SmoothRises ==
  ASSUME NEW lo \in Int, NEW hi \in Int, lo < hi, NEW v \in Int, NEW w \in Int, v <= w
  PROVE  /\ Smooth(v, lo, hi) \in 0 .. 100
         /\ Smooth(v, lo, hi) <= Smooth(w, lo, hi)
<1> DEFINE n == hi - lo  a == (v - lo) * 100  b == (w - lo) * 100
           x == Clamp(a \div n, 0, 100)  y == Clamp(b \div n, 0, 100)
<1>1. n \in Nat \ {0} /\ a \in Int /\ b \in Int /\ a <= b OBVIOUS
<1>2. Smooth(v, lo, hi) = (x * x * (300 - 2 * x)) \div 10000
      /\ Smooth(w, lo, hi) = (y * y * (300 - 2 * y)) \div 10000
  BY DEF Smooth
<1> HIDE DEF n, a, b
<1>3. a \div n \in Int /\ b \div n \in Int /\ a \div n <= b \div n
  BY <1>1, DivMonotone
<1>4. x \in 0 .. 100 /\ y \in 0 .. 100 /\ x <= y
  BY <1>3, ClampBounds
<1> HIDE DEF x, y
<1> DEFINE p == x * x * (300 - 2 * x)  q == y * y * (300 - 2 * y)
<1>5. p <= q /\ 0 <= p /\ q <= 1000000 /\ p \in Int /\ q \in Int
  <2>1. p <= q BY <1>4, CubeRises
  <2>2. 0 <= p
    <3>1. 0 * 0 * (300 - 2 * 0) <= x * x * (300 - 2 * x) BY <1>4, CubeRises
    <3> QED BY <3>1
  <2>3. q <= 1000000
    <3>1. y * y * (300 - 2 * y) <= 100 * 100 * (300 - 2 * 100) BY <1>4, CubeRises
    <3> QED BY <3>1
  <2> QED BY <1>4, <2>1, <2>2, <2>3
<1> HIDE DEF p, q
<1>6. p \div 10000 \in 0 .. 100 /\ p \div 10000 <= q \div 10000
  BY <1>5
<1> QED BY <1>2, <1>6 DEF p, q

(* The first half of it alone.                                             *)
LEMMA SmoothType ==
  ASSUME NEW lo \in Int, NEW hi \in Int, lo < hi, NEW v \in Int
  PROVE  Smooth(v, lo, hi) \in 0 .. 100
<1>1. v <= v OBVIOUS
<1> QED BY <1>1, SmoothRises

-----------------------------------------------------------------------------
(* The estimates of a sample.                                              *)

(* Each of the three combined values is one of its choices.                *)
LEMMA CombineChoices ==
  ASSUME NEW choices, NEW h \in Combine(choices)
  PROVE  h = [i \in Inputs |-> h[i]] /\ \A i \in Inputs : h[i] \in choices[i]
<1>1. PICK a \in choices["silicon"], b \in choices["hotspot"], c \in choices["chassis"] :
        h = Three(a, b, c)
  BY SMT DEF Combine
<1>2. h["silicon"] = a BY <1>1 DEF Inputs, Three
<1>3. h["hotspot"] = b BY <1>1 DEF Inputs, Three
<1>4. h["chassis"] = c BY <1>1 DEF Inputs, Three
<1>5. \A i \in Inputs : h[i] \in choices[i] BY <1>2, <1>3, <1>4 DEF Inputs
<1>6. h = [i \in Inputs |-> h[i]]
  <2> DEFINE t(i) == CASE i = "silicon" -> a [] i = "hotspot" -> b [] i = "chassis" -> c
  <2>1. h = [i \in Inputs |-> t(i)] BY <1>1 DEF Three
  <2> HIDE DEF t
  <2> QED BY <2>1
<1> QED BY <1>5, <1>6

(* A low pass does not rise above both its state and its input.            *)
LEMMA FilteredBounds ==
  ASSUME NEW previous \in Nat, NEW sample \in Nat, NEW f \in Filtered(previous, sample)
  PROVE  f \in Nat /\ (f <= previous \/ f <= sample)
<1>1. CASE previous = None BY <1>1 DEF Filtered
<1>2. CASE previous # None BY <1>2 DEF Filtered, Between
<1> QED BY <1>1, <1>2

Missing == [Inputs -> 0 .. Hold]

(* The time an input has been missing saturates at Hold.                   *)
LEMMA MissingAfterType ==
  ASSUME NEW in \in [Inputs -> Nat], NEW elapsed \in Nat, missing \in Missing
  PROVE  /\ MissingBefore(elapsed) \in Missing /\ MissingAfter(in, elapsed) \in Missing
         /\ \A i \in Inputs : MissingAfter(in, elapsed)[i] =
              IF in[i] # None THEN 0
              ELSE LET m == MissingBefore(elapsed)[i] + elapsed IN IF m > Hold THEN Hold ELSE m
<1>1. Hold \in Nat BY TimesAssumption
<1>2. MissingBefore(elapsed) \in Missing BY <1>1 DEF MissingBefore, Missing
<1> DEFINE before == MissingBefore(elapsed)
<1>3. MissingAfter(in, elapsed) =
        [i \in Inputs |-> IF in[i] # None THEN 0 ELSE Saturated(before[i] + elapsed, Hold)]
  BY DEF MissingAfter
<1> HIDE DEF before
<1>4. before \in Missing BY <1>2 DEF before
<1>5. \A i \in Inputs : Saturated(before[i] + elapsed, Hold) \in 0 .. Hold
  BY <1>1, <1>4 DEF Missing, Saturated
<1>6. MissingAfter(in, elapsed) \in Missing BY <1>1, <1>3, <1>5 DEF Missing
<1>7. \A i \in Inputs : MissingAfter(in, elapsed)[i] =
        IF in[i] # None THEN 0 ELSE Saturated(before[i] + elapsed, Hold)
  BY <1>3
<1> QED BY <1>2, <1>6, <1>7 DEF Saturated, before

(* An estimate is no higher than it was or than its input; without an input*)
(* it is what it was, or gone once it has been missing for Hold.           *)
LEMMA HeldAfterType ==
  ASSUME NEW in \in [Inputs -> Nat], NEW elapsed \in Nat, missing \in Missing,
         held \in [Inputs -> Nat], NEW h \in HeldAfter(in, elapsed)
  PROVE  /\ h \in [Inputs -> Nat]
         /\ \A i \in Inputs :
              IF in[i] # None
                THEN h[i] <= HeldBefore(elapsed)[i] \/ h[i] <= in[i]
                ELSE h[i] = IF MissingAfter(in, elapsed)[i] >= Hold THEN None
                            ELSE HeldBefore(elapsed)[i]
<1> DEFINE choices == [i \in Inputs |->
             IF in[i] # None THEN Filtered(HeldBefore(elapsed)[i], in[i])
             ELSE IF MissingAfter(in, elapsed)[i] >= Hold THEN {None}
             ELSE {HeldBefore(elapsed)[i]}]
<1>1. h \in Combine(choices) BY DEF HeldAfter
<1>2. HeldBefore(elapsed) \in [Inputs -> Nat] BY DEF HeldBefore, None
<1>3. h = [i \in Inputs |-> h[i]] /\ \A i \in Inputs : h[i] \in choices[i]
  <2> HIDE DEF choices
  <2> QED BY <1>1, CombineChoices
<1>4. ASSUME NEW i \in Inputs
      PROVE  /\ h[i] \in Nat
             /\ IF in[i] # None
                  THEN h[i] <= HeldBefore(elapsed)[i] \/ h[i] <= in[i]
                  ELSE h[i] = IF MissingAfter(in, elapsed)[i] >= Hold THEN None
                              ELSE HeldBefore(elapsed)[i]
  <2>1. CASE in[i] # None
    <3>1. h[i] \in Filtered(HeldBefore(elapsed)[i], in[i]) BY <1>3, <2>1
    <3>2. HeldBefore(elapsed)[i] \in Nat /\ in[i] \in Nat BY <1>2
    <3>3. h[i] \in Nat /\ (h[i] <= HeldBefore(elapsed)[i] \/ h[i] <= in[i])
      BY <3>1, <3>2, FilteredBounds
    <3> QED BY <2>1, <3>3
  <2>2. CASE in[i] = None
    <3>1. h[i] = IF MissingAfter(in, elapsed)[i] >= Hold THEN None ELSE HeldBefore(elapsed)[i]
      BY <1>3, <2>2
    <3> QED BY <1>2, <2>2, <3>1 DEF None
  <2> QED BY <2>1, <2>2
<1> QED BY <1>3, <1>4

(* A filter stands at a level.                                             *)
LEMMA ApproachedInLevels ==
  ASSUME NEW level, NEW input, NEW l \in Approached(level, input)
  PROVE  l \in Levels
BY DEF Approached

-----------------------------------------------------------------------------
(* Comfort and the preference.                                             *)

(* The demand for comfort of a reading of the calibrated sensor.           *)
ComfortAt(p) ==
  LET c == policy.calibration
      estimate == 2 * p + c.twice
      upper == Min({ 2 * c.sensorMax + c.twice, 2 * c.surfaceMax })
  IN IF policy = NoPolicy \/ p = None THEN 0
     ELSE IF p > c.sensorMax \/ estimate > 2 * c.surfaceMax
     THEN ComfortDemand(upper, policy.target)
     ELSE IF p < c.sensorMin \/ estimate < 2 * c.surfaceMin THEN 0
     ELSE ComfortDemand(estimate, policy.target)

(* The demand for comfort of a sample depends on the calibrated sensor     *)
(* only.                                                                   *)
LEMMA ComfortIsOfProxy ==
  ASSUME NEW s PROVE Comfort(s) = ComfortAt(ProxyOf(s))
BY DEF Comfort, ComfortAt

(* A warmer surface does not lower the demand for comfort.                 *)
LEMMA ComfortDemandRises ==
  ASSUME NEW v \in Int, NEW w \in Int, NEW t \in Nat, v <= w
  PROVE  ComfortDemand(v, t) \in 0 .. 100 /\ ComfortDemand(v, t) <= ComfortDemand(w, t)
<1>1. 2 * t - 2 \in Int /\ 2 * t + 10 \in Int /\ 2 * t - 2 < 2 * t + 10 OBVIOUS
<1> DEFINE lo == 2 * t - 2  hi == 2 * t + 10  a == Smooth(v, lo, hi)  b == Smooth(w, lo, hi)
<1>2. ComfortDemand(v, t) = (65 * a) \div 100 /\ ComfortDemand(w, t) = (65 * b) \div 100
  BY DEF ComfortDemand
<1>3. lo \in Int /\ hi \in Int /\ lo < hi BY <1>1
<1> HIDE DEF lo, hi
<1>4. a \in 0 .. 100 /\ b \in 0 .. 100 /\ a <= b BY <1>3, SmoothRises, SmoothType
<1> HIDE DEF a, b
<1> QED BY <1>2, <1>4

(* What a policy that is in force consists of.                             *)
LEMMA PolicyType ==
  ASSUME policy \in Policies
  PROVE  \/ policy = NoPolicy
         \/ /\ policy.target \in Nat
            /\ policy.calibration.twice \in Int
            /\ policy.calibration.sensorMin \in Nat /\ policy.calibration.sensorMax \in Nat
            /\ policy.calibration.surfaceMin \in Nat /\ policy.calibration.surfaceMax \in Nat
<1> SUFFICES ASSUME policy # NoPolicy
             PROVE  /\ policy.target \in Nat
                    /\ policy.calibration.twice \in Int
                    /\ policy.calibration.sensorMin \in Nat /\ policy.calibration.sensorMax \in Nat
                    /\ policy.calibration.surfaceMin \in Nat /\ policy.calibration.surfaceMax \in Nat
  OBVIOUS
<1>1. policy.target \in Targets /\ policy.calibration \in Calibrations BY DEF Policies
<1>2. PICK m \in Measurements : policy.calibration = FromMeasurements(m)
  BY <1>1 DEF Calibrations
<1>3. m[1] \in Nat /\ m[2] \in Nat /\ m[3] \in Nat /\ m[4] \in Nat BY LevelsAssumption
<1>4. /\ policy.calibration.twice \in Int
      /\ policy.calibration.sensorMin \in Nat /\ policy.calibration.sensorMax \in Nat
      /\ policy.calibration.surfaceMin \in Nat /\ policy.calibration.surfaceMax \in Nat
  <2> DEFINE low  == IF m[1] <= m[3] THEN <<m[1], m[2]>> ELSE <<m[3], m[4]>>
             high == IF m[1] <= m[3] THEN <<m[3], m[4]>> ELSE <<m[1], m[2]>>
  <2>1. low[1] \in Nat /\ low[2] \in Nat /\ high[1] \in Nat /\ high[2] \in Nat BY <1>3
  <2>2. policy.calibration =
          [sensorMin |-> low[1], sensorMax |-> high[1],
           surfaceMin |-> low[2], surfaceMax |-> high[2],
           twice |-> (low[2] - low[1]) + (high[2] - high[1])]
    BY <1>2 DEF FromMeasurements
  <2> HIDE DEF low, high
  <2> QED BY <2>1, <2>2
<1> QED BY <1>1, <1>4, LevelsAssumption

(* A calibrated sensor that does not fall does not lower the demand for    *)
(* comfort: not within the calibrated range, and not on leaving it at      *)
(* either end (comfort_input).                                             *)
LEMMA ComfortRises ==
  ASSUME policy \in Policies, NEW p \in Nat, NEW q \in Nat, p <= q
  PROVE  ComfortAt(p) \in 0 .. 100 /\ (p # None => ComfortAt(p) <= ComfortAt(q))
<1>1. CASE policy = NoPolicy BY <1>1 DEF ComfortAt
<1>2. CASE policy # NoPolicy
  <2> DEFINE c == policy.calibration
             upper == Min({ 2 * c.sensorMax + c.twice, 2 * c.surfaceMax })
             D(v) == ComfortDemand(v, policy.target)
  <2>1. /\ policy.target \in Nat /\ c.twice \in Int /\ c.sensorMin \in Nat /\ c.sensorMax \in Nat
        /\ c.surfaceMin \in Nat /\ c.surfaceMax \in Nat
    BY <1>2, PolicyType
  <2>2. upper \in Int /\ upper = IF 2 * c.sensorMax + c.twice <= 2 * c.surfaceMax
                                 THEN 2 * c.sensorMax + c.twice ELSE 2 * c.surfaceMax
    BY <2>1, MinOfTwo
  <2>3. \A r \in Nat : ComfortAt(r) =
          IF r = None THEN 0
          ELSE IF r > c.sensorMax \/ 2 * r + c.twice > 2 * c.surfaceMax THEN D(upper)
          ELSE IF r < c.sensorMin \/ 2 * r + c.twice < 2 * c.surfaceMin THEN 0
          ELSE D(2 * r + c.twice)
    BY <1>2 DEF ComfortAt
  <2>4. \A v, w \in Int : v <= w => D(v) \in 0 .. 100 /\ D(v) <= D(w)
    BY <2>1, ComfortDemandRises
  <2> HIDE DEF upper, D, c
  <2>5. 2 * p + c.twice \in Int /\ 2 * q + c.twice \in Int /\ 2 * p + c.twice <= 2 * q + c.twice
    BY <2>1
  <2>6. D(upper) \in 0 .. 100 /\ D(2 * p + c.twice) \in 0 .. 100 /\ D(2 * q + c.twice) \in 0 .. 100
        /\ D(2 * p + c.twice) <= D(2 * q + c.twice)
    BY <2>2, <2>4, <2>5
  <2>7. ASSUME ~(p > c.sensorMax \/ 2 * p + c.twice > 2 * c.surfaceMax)
        PROVE  D(2 * p + c.twice) <= D(upper)
    <3>1. 2 * p + c.twice <= upper BY <2>1, <2>2, <2>7
    <3> QED BY <2>2, <2>4, <2>5, <3>1
  <2>8. ComfortAt(p) \in 0 .. 100 /\ ComfortAt(q) \in 0 .. 100 BY <2>3, <2>6
  <2>9. p # None => ComfortAt(p) <= ComfortAt(q)
    BY <2>1, <2>3, <2>6, <2>7 DEF None
  <2> QED BY <2>8, <2>9
<1> QED BY <1>1, <1>2

(* A preference gives a percentage; a cooler one never takes demand, and a *)
(* quieter one takes none at 90 degrees or more (tuned_adaptive_demand).   *)
LEMMA TunedBounds ==
  ASSUME NEW d \in 0 .. 100, NEW b \in -10 .. 10, NEW hot \in Nat
  PROVE  /\ Tuned(d, b, hot) \in 0 .. 100
         /\ b >= 0 \/ hot >= 90 => Tuned(d, b, hot) >= d
<1>1. CASE b >= 0 BY <1>1, SMT DEF Tuned, Saturated
<1>2. CASE b < 0
  <2> DEFINE gate == 100 - Smooth(hot, 80, 90)
             product == 32 * (-b) * d * (100 - d) * gate
  <2>1. Tuned(d, b, hot) = d - product \div 10000000 BY <1>2, SMT DEF Tuned
  <2>2. gate \in 0 .. 100
    <3> DEFINE lo == 80  hi == 90
    <3>1. lo \in Int /\ hi \in Int /\ lo < hi /\ hot \in Int OBVIOUS
    <3> HIDE DEF lo, hi
    <3>2. Smooth(hot, lo, hi) \in 0 .. 100 BY <3>1, SmoothType
    <3> QED BY <3>2 DEF lo, hi
  <2>3. hot >= 90 => gate = 0
    <3> SUFFICES ASSUME hot >= 90 PROVE Smooth(hot, 80, 90) = 100 OBVIOUS
    <3>1. Smooth(90, 80, 90) <= Smooth(hot, 80, 90) /\ Smooth(hot, 80, 90) \in 0 .. 100
      <4> DEFINE lo == 80  hi == 90
      <4>1. /\ lo \in Int /\ hi \in Int /\ lo < hi /\ hot \in Int
            /\ hi <= hot
        OBVIOUS
      <4> HIDE DEF lo, hi
      <4>2. Smooth(hi, lo, hi) <= Smooth(hot, lo, hi) BY <4>1, SmoothRises
      <4>3. Smooth(hot, lo, hi) \in 0 .. 100 BY <4>1, SmoothType
      <4> QED BY <4>2, <4>3 DEF lo, hi
    <3>2. Smooth(90, 80, 90) = 100
      <4>1. Clamp(((90 - 80) * 100) \div (90 - 80), 0, 100) = 100 BY DEF Clamp
      <4> QED BY <4>1 DEF Smooth
    <3> QED BY <3>1, <3>2
  <2> HIDE DEF gate
  <2>4. product \in Nat /\ product <= 3200000 * d /\ (gate = 0 => product = 0)
    <3> DEFINE e == (-b) * d  f == (100 - d) * gate
    <3>1. e \in Nat /\ e <= 10 * d BY <1>2, SMT
    <3>2. f \in Nat /\ f <= 10000 /\ (gate = 0 => f = 0) BY <2>2, SMT
    <3>3. product = 32 * (e * f) BY <1>2, <2>2, SMT
    <3> HIDE DEF e, f, product
    <3>4. e * f \in Nat /\ e * f <= (10 * d) * 10000 /\ (f = 0 => e * f = 0)
      <4>1. e * f <= e * 10000 BY <3>1, <3>2, SMT
      <4> QED BY <3>1, <3>2, <4>1, SMT
    <3> QED BY <3>2, <3>3, <3>4, SMT
  <2> HIDE DEF product
  <2>5. product \div 10000000 \in 0 .. d /\ (product = 0 => product \div 10000000 = 0)
    BY <2>4, SMT
  <2>6. Tuned(d, b, hot) \in 0 .. 100 /\ (product \div 10000000 = 0 => Tuned(d, b, hot) >= d)
    <3> DEFINE r == product \div 10000000
    <3>1. r \in 0 .. d /\ Tuned(d, b, hot) = d - r BY <2>1, <2>5, SMT
    <3> HIDE DEF r
    <3>2. Tuned(d, b, hot) \in 0 .. 100 /\ (r = 0 => Tuned(d, b, hot) >= d) BY <3>1, SMT
    <3> QED BY <3>2, SMT DEF r
  <2> QED BY <1>2, <2>3, <2>4, <2>5, <2>6, SMT
<1> QED BY <1>1, <1>2

(* A preference never takes demand from hot silicon.                       *)
LEMMA AdjustedBounds ==
  ASSUME NEW daily \in 0 .. 100, NEW comfort \in 0 .. 100, NEW b \in -10 .. 10, NEW hot \in Nat
  PROVE  /\ Max({daily, comfort}) \in 0 .. 100
         /\ Adjusted(daily, comfort, b, hot) \in 0 .. 100
         /\ hot >= 90 => Adjusted(daily, comfort, b, hot) >= Max({daily, comfort})
<1> DEFINE both == Max({daily, comfort})  base == IF b > 0 THEN both ELSE daily
           tuned == Tuned(base, b, hot)
<1>1. both = (IF daily >= comfort THEN daily ELSE comfort) /\ both \in 0 .. 100
  BY MaxOfTwo
<1>2. Adjusted(daily, comfort, b, hot) = IF b = 0 THEN both ELSE Max({tuned, comfort})
  BY DEF Adjusted
<1> HIDE DEF both
<1>3. base \in 0 .. 100 BY <1>1
<1>4. tuned \in 0 .. 100 /\ (hot >= 90 => tuned >= base)
  <2> HIDE DEF base
  <2> QED BY <1>3, TunedBounds
<1> HIDE DEF tuned
<1>5. Max({tuned, comfort}) = IF tuned >= comfort THEN tuned ELSE comfort
  BY <1>4, MaxOfTwo
<1> QED BY <1>1, <1>2, <1>4, <1>5 DEF both

-----------------------------------------------------------------------------
(* The invariant.                                                          *)

Readings == [available : BOOLEAN, live : BOOLEAN, sustained : BOOLEAN,
             demand : 0 .. 100, adjusted : 0 .. 100, comfort : 0 .. 100]
Trends   == [previous : Nat, rising : 0 .. Confirmation]

DataOK ==
  /\ policy \in Policies /\ bias \in Biases /\ effectiveBias \in -10 .. 10
  /\ lag \in -1 .. Horizon
  /\ held \in [Inputs -> Nat] /\ warmest \in [Inputs -> Nat]
  /\ missing \in Missing /\ absent \in Missing
  /\ trend \in [Chips -> Trends]
  /\ loadElapsed \in 0 .. Confirmation /\ proof \in 0 .. Confirmation
  /\ thermalLoad \in Levels /\ heatSoak \in Levels
  /\ reading \in Readings
  /\ last \in [proxy : Nat, hottest : Nat, age : {0, MaxAge + 1}]

(* The present spell of each estimate, whether the last sample counted or  *)
(* not: the time its sensor has been away is no more than the time the     *)
(* estimator has counted plus the time since it last ran.                  *)
SpellOf(i) ==
  held[i] # None =>
    missing[i] < Hold /\ absent[i] <= missing[i] + lag /\ held[i] <= warmest[i]

SpellInv ==
  /\ Fresh => lag = 0 /\ loadElapsed <= proof
  /\ lag # -1 => \A i \in Inputs : SpellOf(i)
  /\ ConfirmationIsObserved

ReadingInv ==
  /\ ReadingIsCurrent
  /\ HotKeepsDemand
  /\ Fresh => reading.comfort = ComfortAt(last.proxy)

TInv == DataOK /\ SpellInv /\ ReadingInv

(* The times of the estimators in their order.                             *)
LEMMA Times ==
  /\ MaxAge \in Nat \ {0} /\ Hold \in Nat \ {0} /\ DtCap \in Nat \ {0}
  /\ Confirmation \in Nat \ {0}
  /\ Confirmation <= DtCap /\ DtCap < MaxAge /\ MaxAge < Hold
  /\ Horizon = Hold + MaxAge + 1 /\ Steps \subseteq Nat \ {0}
BY TimesAssumption DEF Horizon

(* The type invariant of the runs follows from the one of the proof, which *)
(* also types the filters, the reading and the history.                    *)
LEMMA TypeOfInv == DataOK => TypeOK
<1> SUFFICES ASSUME DataOK PROVE TypeOK OBVIOUS
<1>1. /\ policy \in Policies /\ bias \in Biases /\ effectiveBias \in -10 .. 10
      /\ lag \in -1 .. Horizon
      /\ missing \in [Inputs -> 0 .. Hold] /\ absent \in [Inputs -> 0 .. Hold]
      /\ thermalLoad \in Levels /\ heatSoak \in Levels
  BY DEF DataOK, Missing
<1>2. \A c \in Chips : trend[c].rising \in 0 .. Confirmation BY DEF DataOK, Trends
<1>3. {loadElapsed, proof} \subseteq 0 .. Confirmation BY DEF DataOK
<1>4. {reading.demand, reading.adjusted, reading.comfort} \subseteq 0 .. 100
  BY DEF DataOK, Readings
<1> QED BY <1>1, <1>2, <1>3, <1>4 DEF TypeOK

(* A controller that is created or resumed satisfies the invariant.        *)
LEMMA BlankKeeps ==
  ASSUME Blank, policy' \in Policies, bias' \in Biases, effectiveBias' \in -10 .. 10
  PROVE  TInv'
<1>1. /\ lag' = -1 /\ held' = [i \in Inputs |-> None] /\ missing' = [i \in Inputs |-> 0]
      /\ trend' = [c \in Chips |-> NoTrend]
      /\ loadElapsed' = 0 /\ thermalLoad' = 0 /\ heatSoak' = 0
      /\ reading' = NoReading
      /\ warmest' = [i \in Inputs |-> None] /\ absent' = [i \in Inputs |-> 0] /\ proof' = 0
      /\ last' = NoSample
  BY Zenon DEF Blank
<1>2. /\ NoReading \in Readings /\ ~NoReading.live /\ ~NoReading.sustained
      /\ NoReading.comfort = 0
  BY DEF NoReading, Readings
<1>3. NoSample \in [proxy : Nat, hottest : Nat, age : {0, MaxAge + 1}] /\ ~(NoSample.age <= MaxAge)
  BY Times DEF NoSample, None
<1>4. ~Fresh' BY <1>1, <1>3 DEF Fresh
<1>5. NoTrend \in Trends BY Times DEF NoTrend, Trends, None
<1>6. DataOK'
  <2>1. /\ held' \in [Inputs -> Nat] /\ warmest' \in [Inputs -> Nat]
        /\ missing' \in Missing /\ absent' \in Missing
    BY <1>1, Times DEF None, Missing
  <2>2. trend' \in [Chips -> Trends] BY <1>1, <1>5
  <2>3. lag' \in -1 .. Horizon BY <1>1, Times
  <2>4. loadElapsed' \in 0 .. Confirmation /\ proof' \in 0 .. Confirmation BY <1>1, Times
  <2>5. thermalLoad' \in Levels /\ heatSoak' \in Levels BY <1>1, LevelsAssumption
  <2> QED BY <1>1, <1>2, <1>3, <2>1, <2>2, <2>3, <2>4, <2>5 DEF DataOK, Missing
<1>7. SpellInv'
  <2>1. ConfirmationIsObserved' BY <1>1, <1>2, Zenon DEF ConfirmationIsObserved
  <2> QED BY <1>1, <1>4, <2>1 DEF SpellInv
<1>8. ReadingInv'
  <2>1. ~reading'.live /\ reading'.comfort = 0 BY <1>1, <1>2, Zenon
  <2>2. ReadingIsCurrent' BY <2>1 DEF ReadingIsCurrent
  <2>3. HotKeepsDemand' BY <2>1 DEF HotKeepsDemand
  <2> QED BY <1>4, <2>2, <2>3 DEF ReadingInv
<1> QED BY <1>6, <1>7, <1>8 DEF TInv

(* What the estimators take for the time since they last ran; after a      *)
(* sample that did not count, it is longer than the oldest usable sample.  *)
LEMMA ElapsedIs ==
  ASSUME DataOK, NEW step \in Steps, lag # -1 => step >= last.age
  PROVE  /\ Elapsed(step) \in Nat
         /\ Reseeds(Elapsed(step)) <=> lag = -1
         /\ lag # -1 => Elapsed(step) = lag + step
         /\ lag # -1 /\ ~Fresh => Elapsed(step) > MaxAge
<1>1. lag \in -1 .. Horizon /\ last.age \in {0, MaxAge + 1} BY DEF DataOK
<1>2. step \in Nat \ {0} BY Times
<1> QED BY <1>1, <1>2, Times DEF Elapsed, Reseeds, Fresh

(* A trend has risen for no longer than the confirmation.                  *)
LEMMA TrendAfterType ==
  ASSUME DataOK, NEW s \in Snapshots, NEW e \in Nat, NEW c \in Chips
  PROVE  TrendAfter(c, s, e) \in Trends
<1> DEFINE before == IF Forgets(e) THEN NoTrend ELSE trend[c]
           now == Average[s][c]
           climbs == Observed(e) > 0 /\ before.previous # None /\ now > before.previous
           r == Saturated(before.rising + Observed(e), Confirmation)
<1>1. now \in Nat BY AverageType
<1>2. NoTrend \in Trends BY Times DEF NoTrend, Trends, None
<1>3. before \in Trends BY <1>2 DEF DataOK
<1>4. Observed(e) \in Nat BY Times DEF Observed, Step, Saturated
<1>5. TrendAfter(c, s, e) =
        IF now = None THEN NoTrend
        ELSE [previous |-> now, rising |-> IF climbs THEN r ELSE 0]
  BY DEF TrendAfter
<1> HIDE DEF before, now, climbs
<1>6. r \in 0 .. Confirmation BY <1>3, <1>4, Times DEF Trends, Saturated
<1> HIDE DEF r
<1> QED BY <1>1, <1>2, <1>5, <1>6, Times DEF Trends

(* A load is watched for no longer than it was observed.                   *)
LEMMA LoadElapsedIsObserved ==
  ASSUME TInv, NEW s \in Snapshots, NEW load \in Int, NEW step \in Steps,
         lag # -1 => step >= last.age,
         proof' = IF Reseeds(Elapsed(step)) \/ Elapsed(step) > MaxAge \/ load < 65 THEN 0
                  ELSE Saturated(proof + Elapsed(step), Confirmation)
  PROVE  /\ LoadElapsedAfter(s, load, Elapsed(step)) \in 0 .. Confirmation
         /\ proof' \in 0 .. Confirmation
         /\ LoadElapsedAfter(s, load, Elapsed(step)) <= proof'
<1> DEFINE e == Elapsed(step)
           base == IF Forgets(e) THEN 0 ELSE loadElapsed
<1>1. /\ e \in Nat /\ (Reseeds(e) <=> lag = -1) /\ (Reseeds(e) <=> e = 0)
      /\ lag # -1 /\ ~Fresh => e > MaxAge
  BY ElapsedIs DEF TInv, Reseeds
<1>2. /\ loadElapsed \in 0 .. Confirmation /\ proof \in 0 .. Confirmation
      /\ Fresh => loadElapsed <= proof
  BY DEF TInv, DataOK, SpellInv
<1>3. LoadElapsedAfter(s, load, e) =
        IF load >= 65 /\ Silicon(s) # None THEN Saturated(base + Observed(e), Confirmation) ELSE 0
  BY DEF LoadElapsedAfter
<1>4. proof' = IF e = 0 \/ e > MaxAge \/ load < 65 THEN 0 ELSE Saturated(proof + e, Confirmation)
  BY <1>1
<1>5. Forgets(e) <=> e = 0 \/ e > MaxAge BY <1>1, Times DEF Forgets, ObservationGap, Reseeds
<1>6. Observed(e) \in Nat /\ Observed(e) <= e /\ (e > MaxAge => Observed(e) = 0)
  BY <1>1, Times DEF Observed, Step, Saturated, ObservationGap, Reseeds
<1>7. base = IF e = 0 \/ e > MaxAge THEN 0 ELSE loadElapsed BY <1>5
<1> HIDE DEF e, base
<1>8. CASE e = 0 \/ e > MaxAge
  <2>1. base + Observed(e) = 0 BY <1>1, <1>6, <1>7, <1>8
  <2> QED BY <1>3, <1>4, <1>8, <2>1, Times DEF Saturated, e
<1>9. CASE ~(e = 0 \/ e > MaxAge)
  <2>1. base = loadElapsed /\ loadElapsed <= proof BY <1>1, <1>2, <1>7, <1>9
  <2>2. base + Observed(e) \in Nat /\ base + Observed(e) <= proof + e BY <1>1, <1>2, <1>6, <2>1
  <2>3. /\ Saturated(base + Observed(e), Confirmation) \in 0 .. Confirmation
        /\ Saturated(proof + e, Confirmation) \in 0 .. Confirmation
        /\ Saturated(base + Observed(e), Confirmation) <= Saturated(proof + e, Confirmation)
    BY <1>1, <1>2, <2>2, Times DEF Saturated
  <2> QED BY <1>3, <1>4, <1>9, <2>3, Times DEF e
<1> QED BY <1>8, <1>9

(* A sample that counts keeps each estimate within its spell: an estimate  *)
(* that is held over it was missing for less than Hold of the time its     *)
(* sensor was away.                                                        *)
LEMMA SpellGoesOn ==
  ASSUME TInv, NEW in \in [Inputs -> Nat], NEW step \in Steps,
         lag # -1 => step >= last.age,
         lag' = 0,
         missing' = MissingAfter(in, Elapsed(step)),
         held' \in HeldAfter(in, Elapsed(step)),
         absent' = [i \in Inputs |-> IF in[i] # None THEN 0 ELSE Saturated(absent[i] + step, Hold)],
         warmest' = [i \in Inputs |->
           IF in[i] # None
             THEN Max({(IF Reseeds(Elapsed(step)) THEN [j \in Inputs |-> None] ELSE warmest)[i], in[i]})
           ELSE IF Saturated(absent[i] + step, Hold) >= Hold THEN None
           ELSE (IF Reseeds(Elapsed(step)) THEN [j \in Inputs |-> None] ELSE warmest)[i]]
  PROVE  /\ held' \in [Inputs -> Nat] /\ warmest' \in [Inputs -> Nat]
         /\ missing' \in Missing /\ absent' \in Missing
         /\ \A i \in Inputs : SpellOf(i)'
<1> DEFINE e == Elapsed(step)
           H == HeldBefore(e)
           M == MissingBefore(e)
           W == IF Reseeds(e) THEN [j \in Inputs |-> None] ELSE warmest
           away == [i \in Inputs |-> Saturated(absent[i] + step, Hold)]
           top  == [i \in Inputs |-> Max({W[i], in[i]})]
<1>1. e \in Nat /\ (Reseeds(e) <=> lag = -1) /\ (lag # -1 => e = lag + step)
  BY ElapsedIs DEF TInv
<1>2. /\ held \in [Inputs -> Nat] /\ warmest \in [Inputs -> Nat]
      /\ missing \in Missing /\ absent \in Missing /\ lag \in -1 .. Horizon
      /\ step \in Nat
  BY Times DEF TInv, DataOK
<1>3. lag # -1 => \A i \in Inputs : SpellOf(i) BY DEF TInv, SpellInv
<1>4. H \in [Inputs -> Nat] /\ W \in [Inputs -> Nat] BY <1>2 DEF HeldBefore, None
<1>5. \A i \in Inputs : /\ H[i] = IF lag = -1 THEN 0 ELSE held[i]
                        /\ W[i] = IF lag = -1 THEN 0 ELSE warmest[i]
                        /\ M[i] = IF lag = -1 THEN 0 ELSE missing[i]
  BY <1>1 DEF HeldBefore, MissingBefore, None
<1>6. /\ missing' \in Missing
      /\ \A i \in Inputs : missing'[i] =
           IF in[i] # None THEN 0 ELSE IF M[i] + e > Hold THEN Hold ELSE M[i] + e
  <2> HIDE DEF e
  <2> QED BY <1>1, <1>2, MissingAfterType DEF e
<1>7. /\ held' \in [Inputs -> Nat]
      /\ \A i \in Inputs :
           IF in[i] # None THEN held'[i] <= H[i] \/ held'[i] <= in[i]
           ELSE held'[i] = IF missing'[i] >= Hold THEN None ELSE H[i]
  <2> HIDE DEF e
  <2> QED BY <1>1, <1>2, HeldAfterType DEF e
<1>8. absent' = [i \in Inputs |-> IF in[i] # None THEN 0 ELSE away[i]] OBVIOUS
<1>9. warmest' = [i \in Inputs |-> IF in[i] # None THEN top[i]
                                   ELSE IF away[i] >= Hold THEN None ELSE W[i]]
  OBVIOUS
<1>10. \A i \in Inputs : /\ away[i] = IF absent[i] + step > Hold THEN Hold ELSE absent[i] + step
                         /\ away[i] \in 0 .. Hold
  BY <1>2, Times DEF Saturated, Missing
<1> HIDE DEF H, W, M
<1>11. \A i \in Inputs : top[i] = (IF W[i] >= in[i] THEN W[i] ELSE in[i]) /\ top[i] \in Nat
  <2> SUFFICES ASSUME NEW i \in Inputs
               PROVE  top[i] = (IF W[i] >= in[i] THEN W[i] ELSE in[i]) /\ top[i] \in Nat
    OBVIOUS
  <2>1. W[i] \in Nat /\ in[i] \in Nat BY <1>4
  <2>2. Max({W[i], in[i]}) = IF W[i] >= in[i] THEN W[i] ELSE in[i] BY <2>1, MaxOfTwo
  <2> QED BY <2>1, <2>2
<1> HIDE DEF away, top, e
<1>12. absent' \in Missing BY <1>8, <1>10, Times DEF Missing
<1>13. warmest' \in [Inputs -> Nat] BY <1>4, <1>9, <1>11 DEF None
<1>14. ASSUME NEW i \in Inputs, held'[i] # None
       PROVE  missing'[i] < Hold /\ absent'[i] <= missing'[i] /\ held'[i] <= warmest'[i]
  <2>1. H[i] <= W[i] BY <1>2, <1>3, <1>5 DEF SpellOf, None
  <2>2. CASE in[i] # None
    <3>1. missing'[i] = 0 /\ absent'[i] = 0 /\ warmest'[i] = top[i] BY <1>6, <1>8, <1>9, <2>2
    <3>2. held'[i] <= top[i] BY <1>4, <1>7, <1>11, <2>1, <2>2
    <3> QED BY <3>1, <3>2, Times
  <2>3. CASE in[i] = None
    <3>1. missing'[i] < Hold /\ held'[i] = H[i]
      BY <1>7, <1>6, <1>14, <2>3, Times DEF Missing
    <3>2. lag # -1 /\ held[i] = H[i] /\ held[i] # None BY <1>5, <1>14, <3>1 DEF None
    <3>3. absent[i] <= missing[i] + lag /\ held[i] <= warmest[i] BY <1>3, <3>2 DEF SpellOf
    <3>4. missing'[i] = missing[i] + e /\ e = lag + step
      BY <1>1, <1>2, <1>5, <1>6, <2>3, <3>1, <3>2, Times DEF Missing
    <3>5. absent[i] + step <= missing'[i] BY <1>1, <1>2, <3>3, <3>4 DEF Missing
    <3>6. away[i] <= missing'[i] /\ away[i] < Hold
      BY <1>2, <1>10, <3>1, <3>4, <3>5, Times DEF Missing
    <3>7. absent'[i] = away[i] BY <1>8, <2>3, Zenon
    <3>8. ~(away[i] >= Hold) BY <1>10, <3>6, Times
    <3>9. warmest'[i] = W[i] BY <1>9, <2>3, <3>8, Zenon
    <3> QED BY <1>5, <3>1, <3>2, <3>3, <3>6, <3>7, <3>9
  <2> QED BY <2>2, <2>3
<1>15. ASSUME NEW i \in Inputs PROVE SpellOf(i)'
  <2>1. missing'[i] \in Nat /\ lag' = 0 BY <1>6, Times DEF Missing
  <2>2. missing'[i] + lag' = missing'[i] BY <2>1
  <2> QED BY <1>14, <2>2 DEF SpellOf
<1> QED BY <1>6, <1>7, <1>12, <1>13, <1>15

(* The reading that a sample ends with is of that sample.                  *)
LEMMA ReadingIsOfTheSample ==
  ASSUME TInv, NEW s \in Snapshots, NEW any \in BOOLEAN, NEW sustained \in BOOLEAN,
         NEW daily \in 0 .. 100, effectiveBias' \in -10 .. 10, held'["hotspot"] \in Nat,
         policy' = policy,
         reading' = ReadingOf(s, any, sustained, daily, effectiveBias', held'["hotspot"]),
         last' = [proxy |-> ProxyOf(s), hottest |-> HottestSilicon(s), age |-> 0]
  PROVE  /\ reading' \in Readings
         /\ last' \in [proxy : Nat, hottest : Nat, age : {0, MaxAge + 1}]
         /\ reading'.sustained = sustained
         /\ Fresh' /\ ReadingInv'
<1> DEFINE b  == effectiveBias'
           hotspot == held'["hotspot"]
           hs == HottestSilicon(s)
           p  == ProxyOf(s)
           comfort == Comfort(s)
           hot == Max({(IF hs = None THEN 90 ELSE hs), hotspot})
           demand == Max({daily, comfort})
           adjusted == Adjusted(daily, comfort, b, hot)
           live == hs # None
<1>1. hs \in Nat BY InputType
<1>2. p \in Nat BY SnapshotType DEF ProxyOf, None
<1>3. comfort = ComfortAt(p) BY ComfortIsOfProxy
<1>4. comfort \in 0 .. 100 /\ (p = None => comfort = 0)
  <2> HIDE DEF p, comfort
  <2>1. p <= p BY <1>2
  <2>2. policy \in Policies BY DEF TInv, DataOK
  <2>3. ComfortAt(p) \in 0 .. 100 BY <1>2, <2>1, <2>2, ComfortRises
  <2> QED BY <1>3, <2>3, Zenon DEF ComfortAt
<1>5. hot \in Nat /\ (hs # None => hot >= hs)
  <2> DEFINE h == IF hs = None THEN 90 ELSE hs
  <2>1. h \in Nat /\ (hs # None => h = hs) BY <1>1
  <2>2. hot = Max({h, hotspot}) OBVIOUS
  <2> HIDE DEF h, hot
  <2>3. hot = IF h >= hotspot THEN h ELSE hotspot BY <2>1, <2>2, MaxOfTwo
  <2> QED BY <1>1, <2>1, <2>3
<1> HIDE DEF hot, comfort
<1>6. demand \in 0 .. 100 /\ adjusted \in 0 .. 100 /\ (hot >= 90 => adjusted >= demand)
  BY <1>4, <1>5, AdjustedBounds
<1>7. reading' = [available |-> any, live |-> live, sustained |-> sustained,
                  demand |-> demand, adjusted |-> adjusted, comfort |-> comfort]
  BY Zenon DEF ReadingOf, hot, comfort
<1> HIDE DEF demand, adjusted, live
<1>8. live \in BOOLEAN BY Zenon DEF live
<1>9. reading' \in Readings BY <1>4, <1>6, <1>7, <1>8 DEF Readings
<1>10. /\ reading'.live = live /\ reading'.sustained = sustained
       /\ reading'.demand = demand /\ reading'.adjusted = adjusted /\ reading'.comfort = comfort
  BY <1>7
<1> HIDE DEF hs, p
<1>11. last' = [proxy |-> p, hottest |-> hs, age |-> 0] BY DEF p, hs
<1>12. last' \in [proxy : Nat, hottest : Nat, age : {0, MaxAge + 1}]
  BY <1>1, <1>2, <1>11
<1>13. last'.proxy = p /\ last'.hottest = hs /\ last'.age = 0 BY <1>11
<1>14. Fresh' BY <1>13, Times DEF Fresh
<1>15. ReadingIsCurrent'
  <2>1. reading'.live => last'.hottest # None BY <1>10, <1>13, Zenon DEF live
  <2>2. reading'.comfort > 0 => last'.proxy # None BY <1>4, <1>10, <1>13
  <2> QED BY <1>14, <2>1, <2>2 DEF ReadingIsCurrent
<1>16. HotKeepsDemand'
  <2>1. reading'.live /\ last'.hottest >= 90 => hs # None /\ hs >= 90
    BY <1>10, <1>13, Zenon DEF live
  <2>2. hs # None /\ hs >= 90 => adjusted >= demand BY <1>1, <1>5, <1>6
  <2> QED BY <1>10, <2>1, <2>2, Zenon DEF HotKeepsDemand
<1>17. (Fresh => reading.comfort = ComfortAt(last.proxy))'
  <2>1. ComfortAt(last.proxy)' = ComfortAt(last'.proxy) BY DEF ComfortAt
  <2> QED BY <1>3, <1>10, <1>13, <2>1
<1> QED BY <1>9, <1>10, <1>12, <1>14, <1>15, <1>16, <1>17 DEF ReadingInv

-----------------------------------------------------------------------------
(* The steps.                                                              *)

(* The filters of a sample stand at levels, and the preference stays in its*)
(* range.                                                                  *)
LEMMA LevelsOfASample ==
  ASSUME DataOK, NEW e, NEW x, NEW s, NEW h,
         thermalLoad' \in ThermalLoadAfter(x, e),
         heatSoak' \in HeatSoakAfter(s, h, e),
         effectiveBias' \in BiasAfter(e)
  PROVE  thermalLoad' \in Levels /\ heatSoak' \in Levels /\ effectiveBias' \in -10 .. 10
<1>1. thermalLoad' \in Levels
  BY ApproachedInLevels, LevelsAssumption DEF ThermalLoadAfter
<1>2. heatSoak' \in Levels BY ApproachedInLevels DEF HeatSoakAfter
<1>3. effectiveBias' \in -10 .. 10 BY LevelsAssumption DEF BiasAfter, DataOK
<1> QED BY <1>1, <1>2, <1>3

(* A turn whose sample counts keeps the invariant.                         *)
LEMMA SampleKeeps ==
  ASSUME TInv, NEW step \in Steps, lag # -1 => step >= last.age,
         NEW s \in Snapshots, NEW load \in ReadLoad(step), NEW pressure \in Pressures,
         Evaluate(s, load, pressure, Elapsed(step)),
         Observe(s, load, step, Elapsed(step), 0),
         UNCHANGED config
  PROVE  TInv'
<1> DEFINE e == Elapsed(step)
           in == Input[s]
           any == \E i \in Inputs : in[i] # None
           sustained == LoadElapsedAfter(s, load, e) >= Confirmation
           daily == Max({thermalLoad', heatSoak'})
           rising == { c \in Chips : TrendAfter(c, s, e).rising >= Confirmation }
           feed == FeedForward(load, sustained)
           demand == IF any THEN ThermalDemand(held', in, pressure, e) ELSE 0
<1>1. /\ lag' = 0
      /\ missing' = MissingAfter(in, e)
      /\ held' \in HeldAfter(in, e)
      /\ trend' = [c \in Chips |-> TrendAfter(c, s, e)]
      /\ loadElapsed' = LoadElapsedAfter(s, load, e)
      /\ thermalLoad' \in UNION { ThermalLoadAfter(Max({demand, feed, t}), e) :
                                   t \in TrendDemands(s, rising) }
      /\ heatSoak' \in HeatSoakAfter(s, held', e)
      /\ effectiveBias' \in BiasAfter(e)
      /\ reading' = ReadingOf(s, any, sustained, daily, effectiveBias', held'["hotspot"])
  BY Zenon DEF Evaluate
<1>2. /\ absent' = [i \in Inputs |-> IF in[i] # None THEN 0 ELSE Saturated(absent[i] + step, Hold)]
      /\ proof' = IF Reseeds(e) \/ e > MaxAge \/ load < 65 THEN 0
                  ELSE Saturated(proof + e, Confirmation)
      /\ last' = [proxy |-> ProxyOf(s), hottest |-> HottestSilicon(s), age |-> 0]
  BY DEF Observe
<1>3. policy' = policy /\ bias' = bias BY DEF config
<1>4. e \in Nat BY ElapsedIs DEF TInv
<1>5. in \in [Inputs -> Nat] BY InputType
<1>6. load \in Int BY LevelsAssumption DEF ReadLoad, NoLoad
<1>7. any \in BOOLEAN /\ sustained \in BOOLEAN
  <2>1. any \in BOOLEAN BY Zenon
  <2>2. sustained \in BOOLEAN BY SMT
  <2> QED BY <2>1, <2>2
<1>8. /\ loadElapsed' \in 0 .. Confirmation /\ proof' \in 0 .. Confirmation
      /\ loadElapsed' <= proof'
  BY <1>1, <1>2, <1>6, LoadElapsedIsObserved
<1>9. /\ held' \in [Inputs -> Nat] /\ warmest' \in [Inputs -> Nat]
      /\ missing' \in Missing /\ absent' \in Missing
      /\ \A i \in Inputs : SpellOf(i)'
  <2>1. warmest' = [i \in Inputs |->
          IF in[i] # None
            THEN Max({(IF Reseeds(e) THEN [j \in Inputs |-> None] ELSE warmest)[i], in[i]})
          ELSE IF Saturated(absent[i] + step, Hold) >= Hold THEN None
          ELSE (IF Reseeds(e) THEN [j \in Inputs |-> None] ELSE warmest)[i]]
    BY DEF Observe
  <2> HIDE DEF in
  <2> QED BY <1>1, <1>2, <1>5, <2>1, SpellGoesOn
<1>10. thermalLoad' \in Levels /\ heatSoak' \in Levels /\ effectiveBias' \in -10 .. 10
  <2>1. PICK t \in TrendDemands(s, rising) :
          thermalLoad' \in ThermalLoadAfter(Max({demand, feed, t}), e)
    BY <1>1, Zenon
  <2> DEFINE x == Max({demand, feed, t})
  <2>2. thermalLoad' \in ThermalLoadAfter(x, e) BY <2>1
  <2>3. DataOK BY DEF TInv
  <2> HIDE DEF x, e
  <2> QED BY <1>1, <2>2, <2>3, LevelsOfASample
<1>11. trend' \in [Chips -> Trends]
  <2>1. DataOK BY DEF TInv
  <2>2. \A c \in Chips : TrendAfter(c, s, e) \in Trends BY <1>4, <2>1, TrendAfterType
  <2> QED BY <1>1, <2>2
<1>12. daily \in 0 .. 100
  <2>1. thermalLoad' \in 0 .. 100 /\ heatSoak' \in 0 .. 100 BY <1>10, LevelsAssumption
  <2> QED BY <2>1, MaxOfPercentages, Zenon
<1>13. held'["hotspot"] \in Nat BY <1>9 DEF Inputs
<1>14. /\ reading' \in Readings
       /\ last' \in [proxy : Nat, hottest : Nat, age : {0, MaxAge + 1}]
       /\ reading'.sustained = sustained
       /\ Fresh' /\ ReadingInv'
  <2>1. reading' = ReadingOf(s, any, sustained, daily, effectiveBias', held'["hotspot"])
    BY <1>1, Zenon
  <2>2. held'["hotspot"] \in Nat /\ effectiveBias' \in -10 .. 10 BY <1>10, <1>13, Zenon
  <2> HIDE DEF any, sustained, daily
  <2>3. policy' = policy /\ last' = [proxy |-> ProxyOf(s), hottest |-> HottestSilicon(s), age |-> 0]
    BY <1>2, <1>3, Zenon
  <2> QED BY <1>7, <1>12, <2>1, <2>2, <2>3, ReadingIsOfTheSample
<1>15. DataOK'
  <2>1. policy' \in Policies /\ bias' \in Biases BY <1>3 DEF TInv, DataOK
  <2>2. lag' \in -1 .. Horizon BY <1>1, Times
  <2> QED BY <1>8, <1>9, <1>10, <1>11, <1>14, <2>1, <2>2 DEF DataOK
<1>16. SpellInv'
  <2>1. sustained => proof' >= Confirmation BY <1>1, <1>8, Times
  <2>2. ConfirmationIsObserved' BY <1>14, <2>1, Zenon DEF ConfirmationIsObserved
  <2> QED BY <1>1, <1>8, <1>9, <2>2, Zenon DEF SpellInv
<1> QED BY <1>14, <1>15, <1>16 DEF TInv

(* A turn whose sample took too long keeps the invariant: the estimates are*)
(* left behind, and so is the time that they have not counted.             *)
LEMMA OverlookedSampleKeeps ==
  ASSUME TInv, NEW step \in Steps, Withdraw(step), Overlook(step), UNCHANGED config
  PROVE  TInv'
<1>1. /\ lag' = IF lag = -1 THEN -1 ELSE Saturated(lag + step, Horizon)
      /\ reading' = [reading EXCEPT !.available = FALSE, !.live = FALSE, !.sustained = FALSE,
                                    !.comfort = 0]
      /\ held' = held /\ missing' = missing /\ trend' = trend /\ loadElapsed' = loadElapsed
      /\ thermalLoad' = thermalLoad /\ heatSoak' = heatSoak /\ effectiveBias' = effectiveBias
  BY DEF Withdraw
<1>2. /\ absent' = [i \in Inputs |-> Saturated(absent[i] + step, Hold)]
      /\ proof' = 0 /\ last' = NoSample /\ warmest' = warmest
      /\ policy' = policy /\ bias' = bias
  BY DEF Overlook, config
<1>3. NoSample \in [proxy : Nat, hottest : Nat, age : {0, MaxAge + 1}] /\ ~(NoSample.age <= MaxAge)
  BY Times DEF NoSample, None
<1>4. ~Fresh' BY <1>2, <1>3 DEF Fresh
<1>5. /\ lag \in -1 .. Horizon /\ step \in Nat
      /\ held \in [Inputs -> Nat] /\ missing \in Missing /\ absent \in Missing
  BY Times DEF TInv, DataOK
<1>6. /\ reading' \in Readings
      /\ reading'.live = FALSE /\ reading'.sustained = FALSE /\ reading'.comfort = 0
  <2> DEFINE d == reading.demand  a == reading.adjusted
  <2>1. reading \in Readings /\ d \in 0 .. 100 /\ a \in 0 .. 100 BY DEF TInv, DataOK, Readings
  <2>2. reading' = [available |-> FALSE, live |-> FALSE, sustained |-> FALSE,
                    demand |-> d, adjusted |-> a, comfort |-> 0]
    BY <1>1, <2>1 DEF Readings
  <2> HIDE DEF d, a
  <2>3. reading' \in Readings BY <2>1, <2>2 DEF Readings
  <2> QED BY <2>2, <2>3
<1>7. lag' \in -1 .. Horizon /\ (lag = -1 <=> lag' = -1)
      /\ (lag # -1 => lag' = IF lag + step > Horizon THEN Horizon ELSE lag + step)
  BY <1>1, <1>5, Times DEF Saturated
<1>8. /\ absent' \in Missing
      /\ \A i \in Inputs : absent'[i] = IF absent[i] + step > Hold THEN Hold ELSE absent[i] + step
  BY <1>2, <1>5, Times DEF Missing, Saturated
<1>9. DataOK'
  BY <1>1, <1>2, <1>3, <1>6, <1>7, <1>8, Times DEF TInv, DataOK
<1>10. SpellInv'
  <2>1. ASSUME lag' # -1, NEW i \in Inputs PROVE SpellOf(i)'
    <3>1. SpellOf(i) BY <1>7, <2>1 DEF TInv, SpellInv
    <3>2. held[i] # None => absent'[i] <= missing[i] + lag'
      BY <1>5, <1>7, <1>8, <2>1, <3>1, Times DEF SpellOf, Missing
    <3> QED BY <1>1, <1>2, <3>1, <3>2 DEF SpellOf
  <2>2. ConfirmationIsObserved' BY <1>6, Zenon DEF ConfirmationIsObserved
  <2> QED BY <1>4, <2>1, <2>2, Zenon DEF SpellInv
<1>11. ReadingInv'
  <2>1. ~reading'.live BY <1>6, Zenon
  <2>2. ReadingIsCurrent' BY <1>6, <2>1 DEF ReadingIsCurrent
  <2>3. HotKeepsDemand' BY <2>1, Zenon DEF HotKeepsDemand
  <2> QED BY <1>4, <2>2, <2>3, Zenon DEF ReadingInv
<1> QED BY <1>9, <1>10, <1>11 DEF TInv

(* A change of the policy keeps the invariant: the filtered temperatures   *)
(* stay, and nothing is read from them before the next sample.             *)
LEMMA PolicyKeeps ==
  ASSUME TInv, SetPolicy
  PROVE  TInv'
<1>1. /\ policy' \in Policies
      /\ trend' = [c \in Chips |-> NoTrend] /\ loadElapsed' = 0 /\ thermalLoad' = 0
      /\ heatSoak' = 0 /\ lag' = -1
      /\ reading' = [NoReading EXCEPT !.available = reading.available]
      /\ last' = NoSample
      /\ bias' = bias /\ held' = held /\ missing' = missing /\ effectiveBias' = effectiveBias
      /\ warmest' = warmest /\ absent' = absent /\ proof' = proof
  BY Zenon DEF SetPolicy
<1>2. NoSample \in [proxy : Nat, hottest : Nat, age : {0, MaxAge + 1}] /\ ~(NoSample.age <= MaxAge)
  BY Times DEF NoSample, None
<1>3. ~Fresh' BY <1>1, <1>2 DEF Fresh
<1>4. /\ reading' \in Readings
      /\ reading'.live = FALSE /\ reading'.sustained = FALSE /\ reading'.comfort = 0
  <2> DEFINE v == reading.available
  <2>1. v \in BOOLEAN BY DEF TInv, DataOK, Readings
  <2>2. reading' = [NoReading EXCEPT !.available = v] BY <1>1
  <2> HIDE DEF v
  <2>3. reading' = [available |-> v, live |-> FALSE, sustained |-> FALSE,
                    demand |-> 0, adjusted |-> 0, comfort |-> 0]
    BY <2>2 DEF NoReading
  <2>4. reading' \in Readings BY <2>1, <2>3 DEF Readings
  <2> QED BY <2>3, <2>4
<1>5. NoTrend \in Trends BY Times DEF NoTrend, Trends, None
<1>6. DataOK'
  <2>1. trend' \in [Chips -> Trends] BY <1>1, <1>5
  <2> QED BY <1>1, <1>2, <1>4, <2>1, Times, LevelsAssumption DEF TInv, DataOK
<1>7. SpellInv'
  <2>1. ConfirmationIsObserved' BY <1>4, Zenon DEF ConfirmationIsObserved
  <2> QED BY <1>1, <1>3, <2>1 DEF SpellInv
<1>8. ReadingInv'
  <2>1. ~reading'.live BY <1>4, Zenon
  <2>2. ReadingIsCurrent' BY <1>4, <2>1 DEF ReadingIsCurrent
  <2>3. HotKeepsDemand' BY <2>1, Zenon DEF HotKeepsDemand
  <2> QED BY <1>3, <2>2, <2>3, Zenon DEF ReadingInv
<1> QED BY <1>6, <1>7, <1>8 DEF TInv

(* The invariant holds of a controller that has just been created.         *)
LEMMA InitKeeps == Init => TInv
<1> SUFFICES ASSUME Init PROVE TInv OBVIOUS
<1>1. /\ policy \in Policies /\ bias \in Biases /\ effectiveBias = bias
      /\ lag = -1 /\ held = [i \in Inputs |-> None] /\ missing = [i \in Inputs |-> 0]
      /\ trend = [c \in Chips |-> NoTrend]
      /\ loadElapsed = 0 /\ thermalLoad = 0 /\ heatSoak = 0
      /\ reading = NoReading
      /\ warmest = [i \in Inputs |-> None] /\ absent = [i \in Inputs |-> 0] /\ proof = 0
      /\ last = NoSample
  BY Zenon DEF Init
<1>2. /\ NoReading \in Readings /\ ~NoReading.live /\ ~NoReading.sustained
      /\ NoReading.comfort = 0
  BY DEF NoReading, Readings
<1>3. NoSample \in [proxy : Nat, hottest : Nat, age : {0, MaxAge + 1}] /\ ~(NoSample.age <= MaxAge)
  BY Times DEF NoSample, None
<1>4. ~Fresh BY <1>1, <1>3 DEF Fresh
<1>5. NoTrend \in Trends BY Times DEF NoTrend, Trends, None
<1>6. DataOK
  <2>1. /\ held \in [Inputs -> Nat] /\ warmest \in [Inputs -> Nat]
        /\ missing \in Missing /\ absent \in Missing
    BY <1>1, Times DEF None, Missing
  <2>2. trend \in [Chips -> Trends] BY <1>1, <1>5
  <2>3. lag \in -1 .. Horizon BY <1>1, Times
  <2>4. loadElapsed \in 0 .. Confirmation /\ proof \in 0 .. Confirmation BY <1>1, Times
  <2>5. thermalLoad \in Levels /\ heatSoak \in Levels /\ effectiveBias \in -10 .. 10
    BY <1>1, LevelsAssumption
  <2> QED BY <1>1, <1>2, <1>3, <2>1, <2>2, <2>3, <2>4, <2>5 DEF DataOK, Missing
<1>7. SpellInv
  <2>1. ConfirmationIsObserved BY <1>1, <1>2, Zenon DEF ConfirmationIsObserved
  <2> QED BY <1>1, <1>4, <2>1 DEF SpellInv
<1>8. ReadingInv
  <2>1. ~reading.live /\ reading.comfort = 0 BY <1>1, <1>2, Zenon
  <2>2. ReadingIsCurrent BY <2>1 DEF ReadingIsCurrent
  <2>3. HotKeepsDemand BY <2>1 DEF HotKeepsDemand
  <2> QED BY <1>4, <2>2, <2>3 DEF ReadingInv
<1> QED BY <1>6, <1>7, <1>8 DEF TInv

(* Every step keeps the invariant.                                         *)
LEMMA StepKeeps == TInv /\ [Next]_vars => TInv'
<1> SUFFICES ASSUME TInv, [Next]_vars PROVE TInv' OBVIOUS
<1>1. CASE Turn
  <2>1. UNCHANGED config BY <1>1, Zenon DEF Turn
  <2>2. PICK step \in Steps :
          /\ lag # -1 => step >= last.age
          /\ \E spent \in {0, MaxAge + 1} :
               IF Stamped(spent) <= MaxAge
               THEN \E s \in Snapshots, load \in ReadLoad(step), pressure \in Pressures :
                      /\ Evaluate(s, load, pressure, Elapsed(step))
                      /\ Observe(s, load, step, Elapsed(step), spent)
               ELSE Withdraw(step) /\ Overlook(step)
    BY <1>1, Zenon DEF Turn
  <2>3. PICK spent \in {0, MaxAge + 1} :
          IF Stamped(spent) <= MaxAge
          THEN \E s \in Snapshots, load \in ReadLoad(step), pressure \in Pressures :
                 /\ Evaluate(s, load, pressure, Elapsed(step))
                 /\ Observe(s, load, step, Elapsed(step), spent)
          ELSE Withdraw(step) /\ Overlook(step)
    BY <2>2, Zenon
  <2>4. CASE Stamped(spent) <= MaxAge
    <3>1. spent = 0 BY <2>4, Times DEF Stamped
    <3>2. PICK s \in Snapshots, load \in ReadLoad(step), pressure \in Pressures :
            /\ Evaluate(s, load, pressure, Elapsed(step))
            /\ Observe(s, load, step, Elapsed(step), spent)
      BY <2>3, <2>4, Zenon
    <3>3. Observe(s, load, step, Elapsed(step), 0) BY <3>1, <3>2
    <3> QED BY <2>1, <2>2, <3>2, <3>3, SampleKeeps
  <2>5. CASE ~(Stamped(spent) <= MaxAge)
    <3>1. Withdraw(step) /\ Overlook(step) BY <2>3, <2>5, Zenon
    <3> QED BY <2>1, <3>1, OverlookedSampleKeeps
  <2> QED BY <2>4, <2>5
<1>2. CASE SetPolicy BY <1>2, PolicyKeeps
<1>3. CASE SetTuning
  <2>1. bias' \in Biases /\ UNCHANGED <<policy, estimates, reading, history>>
    BY <1>3, Zenon DEF SetTuning
  <2>2. /\ policy' = policy /\ effectiveBias' = effectiveBias /\ lag' = lag /\ held' = held
        /\ missing' = missing /\ trend' = trend /\ loadElapsed' = loadElapsed
        /\ thermalLoad' = thermalLoad /\ heatSoak' = heatSoak /\ reading' = reading
        /\ warmest' = warmest /\ absent' = absent /\ proof' = proof /\ last' = last
    BY <2>1 DEF estimates, history
  <2>3. DataOK' BY <2>1, <2>2 DEF TInv, DataOK
  <2>4. SpellInv' BY <2>2 DEF TInv, SpellInv, SpellOf, Fresh, ConfirmationIsObserved
  <2>5. ReadingInv'
    BY <2>2 DEF TInv, ReadingInv, ReadingIsCurrent, HotKeepsDemand, Fresh, ComfortAt
  <2> QED BY <2>3, <2>4, <2>5 DEF TInv
<1>4. CASE Resume
  <2>1. Blank /\ policy' = policy /\ bias' = bias /\ effectiveBias' = effectiveBias
    BY <1>4 DEF Resume, config
  <2>2. policy' \in Policies /\ bias' \in Biases /\ effectiveBias' \in -10 .. 10
    BY <2>1 DEF TInv, DataOK
  <2> QED BY <2>1, <2>2, BlankKeeps
<1>5. CASE Wake
  <2>1. Blank /\ policy' = policy /\ bias' = bias /\ effectiveBias' = bias
    BY <1>5 DEF Wake, config
  <2>2. policy' \in Policies /\ bias' \in Biases /\ effectiveBias' \in -10 .. 10
    BY <2>1, LevelsAssumption DEF TInv, DataOK
  <2> QED BY <2>1, <2>2, BlankKeeps
<1>6. CASE UNCHANGED vars
  <2>2. /\ policy' = policy /\ bias' = bias
        /\ effectiveBias' = effectiveBias /\ lag' = lag /\ held' = held
        /\ missing' = missing /\ trend' = trend /\ loadElapsed' = loadElapsed
        /\ thermalLoad' = thermalLoad /\ heatSoak' = heatSoak /\ reading' = reading
        /\ warmest' = warmest /\ absent' = absent /\ proof' = proof /\ last' = last
    BY <1>6 DEF vars, config, estimates, history
  <2>3. DataOK' BY <2>2 DEF TInv, DataOK
  <2>4. SpellInv' BY <2>2 DEF TInv, SpellInv, SpellOf, Fresh, ConfirmationIsObserved
  <2>5. ReadingInv'
    BY <2>2 DEF TInv, ReadingInv, ReadingIsCurrent, HotKeepsDemand, Fresh, ComfortAt
  <2> QED BY <2>3, <2>4, <2>5 DEF TInv
<1> QED BY <1>1, <1>2, <1>3, <1>4, <1>5, <1>6 DEF Next

(* The invariant holds throughout.                                         *)
LEMMA InvAlways == Spec => []TInv
<1> QED BY InitKeeps, StepKeeps, PTL DEF Spec

-----------------------------------------------------------------------------
(* The results.                                                            *)

(* The estimators keep their type, for any machine, samples, calibrations  *)
(* and times.                                                              *)
THEOREM TypeCorrect == Spec => []TypeOK
<1>1. TInv => TypeOK BY TypeOfInv DEF TInv
<1> QED BY <1>1, InvAlways, PTL

(* No temperature and no proof of a load outlives the samples that support *)
(* it: whatever sensors come and go, however the turns are spaced, slow    *)
(* ones included (thermal.rs:84-166, adaptive.rs:246-267).                 *)
THEOREM EvidenceIsAlwaysOfThisSpell == Spec => []EvidenceIsOfThisSpell
<1>1. TInv => EvidenceIsOfThisSpell
  <2> SUFFICES ASSUME TInv PROVE EvidenceIsOfThisSpell OBVIOUS
  <2>1. ASSUME Fresh, NEW i \in Inputs, held[i] # None
        PROVE  absent[i] < Hold /\ held[i] <= warmest[i]
    <3>1. lag = 0 BY <2>1 DEF TInv, SpellInv
    <3>2. missing[i] < Hold /\ absent[i] <= missing[i] + lag /\ held[i] <= warmest[i]
      BY <2>1, <3>1 DEF TInv, SpellInv, SpellOf
    <3>3. missing[i] \in Nat /\ absent[i] \in Nat BY Times DEF TInv, DataOK, Missing
    <3> QED BY <3>1, <3>2, <3>3, Times
  <2>2. EstimateIsOfThisSpell BY <2>1 DEF EstimateIsOfThisSpell
  <2> QED BY <2>2 DEF EvidenceIsOfThisSpell, TInv, SpellInv
<1> QED BY <1>1, InvAlways, PTL

(* Custom control is authorised by silicon that was read in the last sample*)
(* and is not too old, and comfort is asked for by its own sensor only     *)
(* (controller.rs:281-336, 197-204).                                       *)
THEOREM ReadingIsAlwaysCurrent == Spec => []ReadingIsCurrent
<1>1. TInv => ReadingIsCurrent BY Zenon DEF TInv, ReadingInv
<1> QED BY <1>1, InvAlways, PTL

(* On hot silicon no preference takes from the demand, and a calibrated    *)
(* sensor that does not fall does not lower the demand for comfort, for    *)
(* every calibration that is valid (tuning.rs:38-56, controller.rs:297-317,*)
(* adaptive.rs:397-414).                                                   *)
THEOREM HeatIsAlwaysHeard == Spec => HeatIsHeard
<1>1. TInv => HotKeepsDemand BY Zenon DEF TInv, ReadingInv
<1>2. TInv /\ TInv' =>
        [ policy' = policy /\ Fresh /\ Fresh'
          /\ last.proxy # None /\ last'.proxy >= last.proxy
            => reading'.comfort >= reading.comfort ]_vars
  <2> SUFFICES ASSUME TInv, TInv', policy' = policy, Fresh, Fresh',
                      last.proxy # None, last'.proxy >= last.proxy
               PROVE  reading'.comfort >= reading.comfort
    OBVIOUS
  <2> DEFINE p == last.proxy  q == last'.proxy
  <2>1. policy \in Policies /\ p \in Nat /\ q \in Nat /\ p <= q /\ p # None
    BY DEF TInv, DataOK
  <2>2. reading.comfort = ComfortAt(p) BY DEF TInv, ReadingInv
  <2>3. reading'.comfort = ComfortAt(q)
    <3>1. reading'.comfort = ComfortAt(last.proxy)' BY DEF TInv, ReadingInv
    <3> QED BY <3>1 DEF ComfortAt
  <2>4. ComfortAt(q) \in 0 .. 100
    <3>1. q <= q BY <2>1
    <3> HIDE DEF q
    <3> QED BY <2>1, <3>1, ComfortRises
  <2> HIDE DEF p, q
  <2>5. ComfortAt(p) \in 0 .. 100 /\ ComfortAt(p) <= ComfortAt(q) BY <2>1, ComfortRises
  <2> QED BY <2>2, <2>3, <2>4, <2>5
<1> QED BY <1>1, <1>2, InvAlways, PTL DEF HeatIsHeard, ComfortDoesNotDrop
=============================================================================
