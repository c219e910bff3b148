--------------------------- MODULE FanSpeed_proofs ---------------------------
(***************************************************************************)
(* The speed of a fan under its curve, for every monotone curve, every     *)
(* range of the fan, all floors, rates and elapsed times.  First the       *)
(* arithmetic: interpolation, rounding to revolutions and the ramp do not  *)
(* reverse an order and stay in their bounds.  Then the policy: an         *)
(* invariant that every sample keeps, and what follows from it.            *)
(***************************************************************************)
EXTENDS FanSpeed, FiniteSetTheorems, TLAPS

(* A finite set of integers that is not empty has a least element: the     *)
(* elements below each member form a finite set, and of these sets one is  *)
(* smallest. This takes the place of an induction over the set.            *)
LEMMA HasMin ==
  ASSUME NEW S, S \subseteq Int, IsFiniteSet(S), S # {}
  PROVE  \E m \in S : \A y \in S : m <= y
<1> DEFINE Lower(x) == { y \in S : y < x }
           Lowers == { Lower(x) : x \in S }
<1>1. Lowers \subseteq FiniteSubsetsOf(S) /\ Lowers # {}
  <2>1. \A x \in S : Lower(x) \in SUBSET S /\ IsFiniteSet(Lower(x))
    BY FS_Subset
  <2> QED BY <2>1 DEF FiniteSubsetsOf
<1>2. \E L \in Lowers : \A K \in Lowers : <<K, L>> \notin StrictSubsetOrdering(S)
  <2> HIDE DEF Lowers
  <2> QED BY <1>1, FS_StrictSubsetOrderingWellFounded, WFMin, Zenon
<1>3. PICK x \in S : \A y \in S : <<Lower(y), Lower(x)>> \notin StrictSubsetOrdering(S)
  BY <1>2
<1>4. \A y \in S : x <= y
  <2> SUFFICES ASSUME NEW y \in S, y < x PROVE FALSE OBVIOUS
  <2>1. x \in Int /\ y \in Int /\ \A z \in S : z \in Int OBVIOUS
  <2>2. \A z \in S : z < y => z < x BY <2>1
  <2>3. Lower(y) \subseteq Lower(x) BY <2>2, Zenon
  <2>4. y \in Lower(x) /\ ~(y < y) BY <2>1
  <2>5. y \notin Lower(y) BY <2>4, Zenon
  <2>6. Lower(x) \in SUBSET S /\ Lower(y) \in SUBSET S OBVIOUS
  <2> HIDE DEF Lower
  <2>7. <<Lower(y), Lower(x)>> \in StrictSubsetOrdering(S)
    BY <2>3, <2>4, <2>5, <2>6 DEF StrictSubsetOrdering
  <2> QED BY <2>7, <1>3
<1> QED BY <1>4

(* In the same way it has a greatest element.                              *)
LEMMA HasMax ==
  ASSUME NEW S, S \subseteq Int, IsFiniteSet(S), S # {}
  PROVE  \E m \in S : \A y \in S : m >= y
<1> DEFINE Upper(x) == { y \in S : y > x }
           Uppers == { Upper(x) : x \in S }
<1>1. Uppers \subseteq FiniteSubsetsOf(S) /\ Uppers # {}
  <2>1. \A x \in S : Upper(x) \in SUBSET S /\ IsFiniteSet(Upper(x))
    BY FS_Subset
  <2> QED BY <2>1 DEF FiniteSubsetsOf
<1>2. \E L \in Uppers : \A K \in Uppers : <<K, L>> \notin StrictSubsetOrdering(S)
  <2> HIDE DEF Uppers
  <2> QED BY <1>1, FS_StrictSubsetOrderingWellFounded, WFMin, Zenon
<1>3. PICK x \in S : \A y \in S : <<Upper(y), Upper(x)>> \notin StrictSubsetOrdering(S)
  BY <1>2
<1>4. \A y \in S : x >= y
  <2> SUFFICES ASSUME NEW y \in S, y > x PROVE FALSE OBVIOUS
  <2>1. x \in Int /\ y \in Int /\ \A z \in S : z \in Int OBVIOUS
  <2>2. \A z \in S : z > y => z > x BY <2>1
  <2>3. Upper(y) \subseteq Upper(x) BY <2>2, Zenon
  <2>4. y \in Upper(x) /\ ~(y > y) BY <2>1
  <2>5. y \notin Upper(y) BY <2>4, Zenon
  <2>6. Upper(x) \in SUBSET S /\ Upper(y) \in SUBSET S OBVIOUS
  <2> HIDE DEF Upper
  <2>7. <<Upper(y), Upper(x)>> \in StrictSubsetOrdering(S)
    BY <2>3, <2>4, <2>5, <2>6 DEF StrictSubsetOrdering
  <2> QED BY <2>7, <1>3
<1> QED BY <1>4

(* Min of the community modules is then the least element.                 *)
LEMMA MinIsLeast ==
  ASSUME NEW S, S \subseteq Int, IsFiniteSet(S), S # {}
  PROVE  Min(S) \in S /\ \A y \in S : Min(S) <= y
BY HasMin DEF Min

(* And Max the greatest.                                                   *)
LEMMA MaxIsGreatest ==
  ASSUME NEW S, S \subseteq Int, IsFiniteSet(S), S # {}
  PROVE  Max(S) \in S /\ \A y \in S : Max(S) >= y
BY HasMax DEF Max

(* Division by a positive number does not reverse an order.                *)
LEMMA DivMonotone ==
  ASSUME NEW a \in Int, NEW b \in Int, NEW w \in Nat \ {0}, a <= b
  PROVE  a \div w \in Int /\ a \div w <= b \div w
<1>1. a \div w \in Int /\ b \div w \in Int OBVIOUS
<1>2. w * (a \div w) <= a /\ b < w * (b \div w) + w OBVIOUS
<1>3. SUFFICES ASSUME a \div w >= b \div w + 1 PROVE FALSE BY <1>1
<1>4. w * (a \div w) >= w * (b \div w + 1) BY <1>1, <1>3
<1> QED BY <1>1, <1>2, <1>4

(* A rounded part of a span stays within the span.                         *)
LEMMA DivBetween ==
  ASSUME NEW x \in Int, NEW w \in Nat \ {0}, NEW d \in Nat, 0 <= x, x <= w
  PROVE  (x * d) \div w \in 0 .. d
<1>1. x * d \in Int /\ w * d \in Int /\ 0 <= x * d /\ x * d <= w * d OBVIOUS
<1>2. 0 \div w = 0 /\ (w * d) \div w = d OBVIOUS
<1>3. 0 \div w <= (x * d) \div w /\ (x * d) \div w <= (w * d) \div w
  BY <1>1, DivMonotone
<1> QED BY <1>1, <1>2, <1>3

Temperatures == UNION { {i - Hysteresis, i, i + Hysteresis} : i \in Inputs }
Below(t) == { s \in DOMAIN Curve : s <= t }
Above(t) == { s \in DOMAIN Curve : s > t }
Between(low, high, t) == Curve[low] + ((t - low) * (Curve[high] - Curve[low])) \div (high - low)

(* The points of the curve to one side of a temperature have a nearest.    *)
LEMMA PointsAreFinite ==
  ASSUME NEW t
  PROVE  /\ Below(t) \subseteq Int /\ IsFiniteSet(Below(t))
         /\ Above(t) \subseteq Int /\ IsFiniteSet(Above(t))
         /\ DOMAIN Curve # {}
<1>1. Below(t) \in SUBSET DOMAIN Curve /\ Above(t) \in SUBSET DOMAIN Curve
  BY DEF Below, Above
<1>2. DOMAIN Curve # {}
  BY CurveAssumption, FS_EmptySet
<1> QED BY <1>1, <1>2, CurveAssumption, FS_Subset

(* The segment of the curve a temperature lies on.                         *)
LEMMA Interpolated ==
  ASSUME NEW t \in Temperatures
  PROVE  Interpolate[t] = IF Below(t) = {} THEN Curve[Min(Above(t))]
                          ELSE IF Above(t) = {} THEN Curve[Max(Below(t))]
                          ELSE Between(Max(Below(t)), Min(Above(t)), t)
BY DEF Interpolate, Temperatures, Below, Above, Between

(* Temperatures are integers.                                              *)
LEMMA TemperatureType == Temperatures \subseteq Int
<1> SUFFICES ASSUME NEW i \in Inputs, NEW t \in {i - Hysteresis, i, i + Hysteresis}
             PROVE  t \in Int
  BY DEF Temperatures
<1> QED BY CurveAssumption

(* Interpolation gives a percentage no lower than that of any point at or  *)
(* below the temperature, and no higher than that of any point above it    *)
(* (Curve::interpolate).                                                   *)
LEMMA InterpolationIsBounded ==
  ASSUME NEW t \in Temperatures
  PROVE  /\ Interpolate[t] \in -Full .. Full
         /\ \A s \in DOMAIN Curve : IF s <= t THEN Curve[s] <= Interpolate[t]
                                    ELSE Interpolate[t] <= Curve[s]
<1> DEFINE low == Max(Below(t))  high == Min(Above(t))
<1>1. t \in Int /\ \A s \in DOMAIN Curve : s \in Int BY TemperatureType, CurveAssumption
<1>2. \A s \in DOMAIN Curve : s \in IF s <= t THEN Below(t) ELSE Above(t)
  BY <1>1 DEF Below, Above
<1>3. ASSUME Below(t) # {}
      PROVE  low \in DOMAIN Curve /\ low <= t /\ \A s \in Below(t) : s <= low
  <2>1. low \in Below(t) /\ \A s \in Below(t) : low >= s
    BY <1>3, PointsAreFinite, MaxIsGreatest
  <2> HIDE DEF low
  <2> QED BY <1>1, <2>1 DEF Below
<1>4. ASSUME Above(t) # {}
      PROVE  high \in DOMAIN Curve /\ high > t /\ \A s \in Above(t) : high <= s
  BY <1>4, PointsAreFinite, MinIsLeast, <1>1 DEF Above
<1>5. \A s \in DOMAIN Curve : Curve[s] \in -Full .. Full
  BY CurveAssumption
<1>6. \A r, s \in DOMAIN Curve : r <= s => Curve[r] <= Curve[s]
  BY CurveAssumption
<1> HIDE DEF low, high
<1>7. CASE Below(t) = {}
  <2>1. Above(t) # {} BY <1>2, <1>7, PointsAreFinite
  <2>2. Interpolate[t] = Curve[high] BY <1>7, Interpolated DEF high
  <2> QED BY <1>1, <1>2, <1>4, <1>5, <1>6, <1>7, <2>1, <2>2
<1>8. CASE Below(t) # {} /\ Above(t) = {}
  <2>1. Interpolate[t] = Curve[low] BY <1>8, Interpolated DEF low
  <2> QED BY <1>1, <1>2, <1>3, <1>5, <1>6, <1>8, <2>1
<1>9. CASE Below(t) # {} /\ Above(t) # {}
  <2> DEFINE d == Curve[high] - Curve[low]
  <2>1. Interpolate[t] = Curve[low] + ((t - low) * d) \div (high - low)
    BY <1>9, Interpolated DEF Between, low, high
  <2>2. /\ low \in Int /\ high \in Int /\ Curve[low] \in Int /\ Curve[high] \in Int
        /\ low <= t /\ t < high /\ Curve[low] <= Curve[high]
    BY <1>1, <1>3, <1>4, <1>5, <1>6, <1>9
  <2>3. d \in Nat /\ high - low \in Nat \ {0} /\ 0 <= t - low /\ t - low <= high - low
        /\ t - low \in Int
    BY <1>1, <2>2
  <2>4. ((t - low) * d) \div (high - low) \in 0 .. d
    <3> HIDE DEF d
    <3> QED BY <2>3, DivBetween
  <2>5. Curve[low] <= Interpolate[t] /\ Interpolate[t] <= Curve[high] /\ Interpolate[t] \in Int
    BY <2>1, <2>2, <2>4
  <2>6. Interpolate[t] \in -Full .. Full
    BY <1>3, <1>4, <1>5, <1>9, <2>5, FloorAssumption
  <2>7. ASSUME NEW s \in DOMAIN Curve
        PROVE  IF s <= t THEN Curve[s] <= Interpolate[t] ELSE Interpolate[t] <= Curve[s]
    <3>1. CASE s <= t
      <4>1. Curve[s] <= Curve[low] BY <3>1, <1>2, <1>3, <1>6, <1>9
      <4> QED BY <3>1, <4>1, <2>5, <2>2, <1>5
    <3>2. CASE ~(s <= t)
      <4>1. Curve[high] <= Curve[s] BY <3>2, <1>2, <1>4, <1>6, <1>9
      <4> QED BY <3>2, <4>1, <2>5, <2>2, <1>5
    <3> QED BY <3>1, <3>2
  <2> QED BY <2>6, <2>7
<1> QED BY <1>7, <1>8, <1>9, Zenon

(* A hotter input is never given a lower speed, for a monotone curve of any*)
(* number of points: within a segment, and from one to another.            *)
LEMMA InterpolationRises ==
  ASSUME NEW t \in Temperatures, NEW u \in Temperatures, t <= u
  PROVE  Interpolate[t] <= Interpolate[u]
<1>1. t \in Int /\ u \in Int /\ \A s \in DOMAIN Curve : s \in Int
  BY TemperatureType, CurveAssumption
<1>2. \A v \in Temperatures : Interpolate[v] \in Int
  BY InterpolationIsBounded
<1>3. CASE \E s \in DOMAIN Curve : t < s /\ s <= u
  <2> PICK s \in DOMAIN Curve : t < s /\ s <= u BY <1>3
  <2>1. Interpolate[t] <= Curve[s] /\ Curve[s] <= Interpolate[u]
    BY <1>1, InterpolationIsBounded
  <2> QED BY <2>1, <1>2, CurveAssumption
<1>4. CASE ~ \E s \in DOMAIN Curve : t < s /\ s <= u
  <2>1. Below(t) = Below(u) /\ Above(t) = Above(u)
    BY <1>1, <1>4 DEF Below, Above
  <2>2. CASE Below(t) = {} \/ Above(t) = {}
    BY <2>1, <2>2, <1>2, Interpolated
  <2>3. CASE Below(t) # {} /\ Above(t) # {}
    <3> DEFINE low == Max(Below(t))  high == Min(Above(t))
               d == Curve[high] - Curve[low]
    <3>1. low \in DOMAIN Curve /\ low <= t
      <4>1. low \in Below(t) BY <2>3, PointsAreFinite, MaxIsGreatest
      <4> HIDE DEF low
      <4> QED BY <4>1 DEF Below
    <3>2. high \in DOMAIN Curve /\ high > t
      BY <2>3, PointsAreFinite, MinIsLeast DEF Above
    <3>3. /\ Interpolate[t] = Curve[low] + ((t - low) * d) \div (high - low)
          /\ Interpolate[u] = Curve[low] + ((u - low) * d) \div (high - low)
      BY <2>1, <2>3, Interpolated DEF Between
    <3> HIDE DEF low, high
    <3>4. low \in Int /\ high \in Int /\ Curve[low] \in Int /\ d \in Nat /\ high - low \in Nat \ {0}
      BY <1>1, <3>1, <3>2, CurveAssumption
    <3> HIDE DEF d
    <3>5. (t - low) * d \in Int /\ (u - low) * d \in Int /\ (t - low) * d <= (u - low) * d
      BY <1>1, <3>4
    <3>6. ((t - low) * d) \div (high - low) <= ((u - low) * d) \div (high - low)
      BY <3>4, <3>5, DivMonotone
    <3> QED BY <3>3, <3>4, <3>5, <3>6
  <2> QED BY <2>2, <2>3
<1> QED BY <1>1, <1>3, <1>4

-----------------------------------------------------------------------------
(* From the goal to the write.                                             *)

Protects(goal, reading, override) == goal < reading /\ (override \/ releasing)
Seconds(protected, elapsed) ==
  IF protected THEN elapsed ELSE IF age = None THEN 1 ELSE age + elapsed
Bypasses(reading, urgent) == urgent \/ 20 * reading >= 19 * MaxRpm

(* A higher percentage is never a lower target, and a percentage is a      *)
(* target within the range of the fan (percent_rpm).                       *)
LEMMA PercentRpmRises ==
  ASSUME NEW p \in {None} \cup -Full .. Full, NEW q \in {None} \cup -Full .. Full, p <= q
  PROVE  /\ PercentRpm[p] \in MinRpm .. MaxRpm
         /\ PercentRpm[p] <= PercentRpm[q]
<1> DEFINE range == MaxRpm - MinRpm  a == Larger(0, p) * range  b == Larger(0, q) * range
<1>1. /\ range \in Nat /\ MinRpm \in Nat /\ Full \in Nat \ {0} /\ MaxRpm = MinRpm + range
      /\ Larger(0, p) \in 0 .. Full /\ Larger(0, q) \in 0 .. Full /\ Larger(0, p) <= Larger(0, q)
  BY RangeAssumption, FloorAssumption DEF Larger, None
<1>2. PercentRpm[p] = MinRpm - ((-a) \div Full) /\ PercentRpm[q] = MinRpm - ((-b) \div Full)
  BY DEF PercentRpm
<1>3. a \in Nat /\ b \in Nat /\ a <= b /\ b <= Full * range
  <2> HIDE DEF range
  <2> QED BY <1>1
<1> HIDE DEF a, b
<1>4. (-b) \div Full \in Int /\ (-b) \div Full <= (-a) \div Full /\ (-a) \div Full \in Int
  <2> DEFINE c == -b  d == -a
  <2>1. c \in Int /\ d \in Int /\ c <= d BY <1>3
  <2> HIDE DEF c, d
  <2>2. c \div Full \in Int /\ c \div Full <= d \div Full BY <1>1, <2>1, DivMonotone
  <2>3. d \div Full \in Int BY <1>1, <2>1
  <2> QED BY <2>2, <2>3 DEF c, d
<1>5. (-a) \div Full <= 0
  <2> DEFINE d == (-a) \div Full
  <2>1. d \in Int /\ Full * d <= -a BY <1>1, <1>3
  <2> HIDE DEF d
  <2>2. d <= 0 BY <1>1, <1>3, <2>1
  <2> QED BY <2>2 DEF d
<1>6. -range <= (-a) \div Full
  <2> HIDE DEF range
  <2>1. Full * (-range) \in Int /\ Full * (-range) = -(Full * range)
    BY <1>1
  <2>2. Full * (-range) <= -a /\ -a \in Int BY <1>1, <1>3, <2>1
  <2>3. (Full * (-range)) \div Full = -range BY <1>1
  <2>4. (Full * (-range)) \div Full <= (-a) \div Full
    <3> DEFINE c == Full * (-range)
    <3>1. c \in Int /\ c <= -a BY <2>1, <2>2
    <3> HIDE DEF c
    <3>2. c \div Full <= (-a) \div Full BY <1>1, <2>2, <3>1, DivMonotone
    <3> QED BY <3>2 DEF c
  <2> QED BY <2>3, <2>4
<1> QED BY <1>1, <1>2, <1>4, <1>5, <1>6

(* ramp_target: a target is never passed, a bypass reaches it at once, and *)
(* a protected fall is no faster than the release rate.                    *)
LEMMA RampBounds ==
  ASSUME NEW goal \in Nat, NEW reading \in Nat, NEW seconds \in Nat,
         NEW protected \in BOOLEAN, NEW bypass \in BOOLEAN
  PROVE  LET ramped == Ramp(goal, reading, seconds, protected, bypass)
         IN /\ ramped \in Int
            /\ bypass \/ goal <= reading => ramped >= goal
            /\ goal >= reading => ramped >= reading
            /\ goal < reading /\ protected => ramped >= reading - ReleaseRate * seconds
<1>1. RiseRate * seconds \in Nat /\ FallRate * seconds \in Nat /\ ReleaseRate * seconds \in Nat
  BY RateAssumption
<1>2. DownRate(protected) * seconds = IF protected THEN ReleaseRate * seconds ELSE FallRate * seconds
  BY DEF DownRate
<1> DEFINE rise == RiseRate * seconds  fall == FallRate * seconds  release == ReleaseRate * seconds
           down == DownRate(protected) * seconds
<1>3. Ramp(goal, reading, seconds, protected, bypass) =
        IF (bypass /\ goal > reading) \/ reading = 0 \/ reading = goal THEN goal
        ELSE IF goal > reading THEN Smaller(goal, reading + rise)
        ELSE Larger(goal, reading - down)
  BY DEF Ramp
<1> HIDE DEF rise, fall, release, down
<1> QED BY <1>1, <1>2, <1>3 DEF rise, fall, release, down, Smaller, Larger

(* What a pass over the fan may write, from the goal it pursues.           *)
LEMMA PursueStep ==
  ASSUME TypeOK, NEW goal \in MinRpm .. MaxRpm, NEW override \in BOOLEAN,
         NEW urgent \in BOOLEAN, NEW elapsed \in Elapsed,
         raised => releasing /\ applied # None,
         Pursue(goal, override, urgent, elapsed)
  PROVE  /\ releasing' \in BOOLEAN /\ raised' \in BOOLEAN /\ dirty' \in BOOLEAN
         /\ applied' \in MinRpm .. MaxRpm /\ age' \in 0 .. WriteInterval /\ desired' = goal
         /\ urgent => applied' > goal - WriteStep
         /\ applied # None /\ raised => applied - applied' <= ReleaseRate * elapsed
         /\ raised' => releasing'
<1>1. PICK reading \in IF applied = None THEN Readings ELSE {applied} :
        LET protected == goal < reading /\ (override \/ releasing)
            seconds   == IF protected THEN elapsed
                         ELSE IF age = None THEN 1 ELSE age + elapsed
            ramped    == Ramp(goal, reading, seconds, protected,
                              urgent \/ 20 * reading >= 19 * MaxRpm)
            target    == Validated(ramped)
        IN /\ desired' = goal
           /\ releasing' = (override \/ (releasing /\ ramped # goal))
           /\ IF ShouldWrite(target, IF protected THEN FineStep ELSE WriteStep, elapsed)
                THEN applied' = target /\ age' = 0 /\ dirty' = FALSE
                ELSE age' = Older(elapsed) /\ UNCHANGED <<applied, dirty>>
           /\ raised' = (override \/ (raised /\ applied' - goal >= FineStep))
  BY Zenon DEF Pursue
<1> DEFINE protected == goal < reading /\ (override \/ releasing)
           seconds   == IF protected THEN elapsed ELSE IF age = None THEN 1 ELSE age + elapsed
           bypass    == urgent \/ 20 * reading >= 19 * MaxRpm
           ramped    == Ramp(goal, reading, seconds, protected, bypass)
           target    == Validated(ramped)
           step      == IF protected THEN FineStep ELSE WriteStep
<1>2. /\ MinRpm \in Nat \ {0} /\ MaxRpm \in Nat /\ MinRpm < MaxRpm /\ elapsed \in Nat
      /\ WriteStep \in Nat \ {0} /\ FineStep \in Nat \ {0} /\ FineStep <= WriteStep
      /\ WriteInterval \in Nat /\ ReleaseRate * elapsed \in Nat
  BY RangeAssumption, RateAssumption
<1>3. /\ applied \in MinRpm .. MaxRpm \cup {None} /\ age \in 0 .. WriteInterval \cup {None}
      /\ age = None <=> applied = None
  BY DEF TypeOK
<1>4. reading \in Nat /\ (applied # None => reading = applied) /\ goal \in Nat
  BY <1>2, <1>3, RangeAssumption
<1>5. seconds \in Nat /\ (protected => seconds = elapsed)
  BY <1>2, <1>3 DEF None
<1>6. protected \in BOOLEAN /\ bypass \in BOOLEAN /\ releasing \in BOOLEAN /\ raised \in BOOLEAN
  BY Zenon DEF TypeOK
<1>7. /\ desired' = goal
      /\ releasing' = (override \/ (releasing /\ ramped # goal))
      /\ IF ShouldWrite(target, step, elapsed)
           THEN applied' = target /\ age' = 0 /\ dirty' = FALSE
           ELSE age' = Older(elapsed) /\ UNCHANGED <<applied, dirty>>
      /\ raised' = (override \/ (raised /\ applied' - goal >= FineStep))
  BY <1>1, Zenon
<1>8. /\ ramped \in Int
      /\ bypass \/ goal <= reading => ramped >= goal
      /\ goal >= reading => ramped >= reading
      /\ goal < reading /\ protected => ramped >= reading - ReleaseRate * seconds
  <2> HIDE DEF seconds, protected, bypass
  <2> QED BY <1>4, <1>5, <1>6, RampBounds
<1>9. protected <=> goal < reading /\ (override \/ releasing)
  OBVIOUS
<1>10. urgent => bypass
  OBVIOUS
<1>11. step = IF protected THEN FineStep ELSE WriteStep
  OBVIOUS
<1>12. target = Smaller(MaxRpm, Larger(MinRpm, ramped))
  BY Zenon DEF Validated
<1> HIDE DEF ramped, seconds, protected, bypass, target, step
<1>13. target \in MinRpm .. MaxRpm /\ (ramped \in MinRpm .. MaxRpm => target = ramped)
       /\ (ramped >= target \/ target = MinRpm) /\ (ramped <= target \/ target = MaxRpm)
  BY <1>2, <1>8, <1>12 DEF Smaller, Larger
<1>14. CASE ShouldWrite(target, step, elapsed)
  <2>1. applied' = target /\ age' = 0 /\ dirty' = FALSE BY <1>7, <1>14, Zenon
  <2>2. releasing' \in BOOLEAN /\ raised' \in BOOLEAN /\ dirty' \in BOOLEAN
    BY <1>7, <2>1, <1>6, Zenon
  <2>3. applied' \in MinRpm .. MaxRpm /\ age' \in 0 .. WriteInterval /\ desired' = goal
    BY <1>2, <1>7, <1>13, <2>1
  <2>4. urgent => applied' > goal - WriteStep
    BY <1>2, <1>4, <1>8, <1>10, <1>13, <2>1
  <2>5. ASSUME applied # None, raised PROVE applied - applied' <= ReleaseRate * elapsed
    <3>1. CASE goal < reading
      <4>1. protected /\ seconds = elapsed BY <1>5, <1>9, <2>5, <3>1, Zenon
      <4> QED BY <1>2, <1>3, <1>4, <1>8, <1>13, <2>1, <2>5, <3>1, <4>1
    <3>2. CASE goal >= reading
      BY <1>2, <1>3, <1>4, <1>8, <1>13, <2>1, <2>5, <3>2
    <3> QED BY <1>4, <3>1, <3>2
  <2>6. ASSUME raised', ~override PROVE releasing'
    <3>1. raised /\ applied' - goal >= FineStep BY <1>7, <2>6, Zenon
    <3>2. ramped # goal BY <1>2, <1>13, <2>1, <3>1
    <3> QED BY <1>7, <3>1, <3>2, Zenon
  <2>7. raised' => releasing' BY <1>7, <2>6, Zenon
  <2> QED BY <2>2, <2>3, <2>4, <2>5, <2>7
<1>15. CASE ~ShouldWrite(target, step, elapsed)
  <2>1. applied' = applied /\ age' = Older(elapsed) /\ dirty' = dirty BY <1>7, <1>15, Zenon
  <2>2. releasing' \in BOOLEAN /\ raised' \in BOOLEAN /\ dirty' \in BOOLEAN
    BY <1>7, <2>1, <1>6, Zenon DEF TypeOK
  <2>3. applied # None /\ (applied = target \/ Deviation(applied, target) < step)
    <3>1. /\ ~dirty /\ applied # None
          /\ applied = target \/ (~(Deviation(applied, target) >= step) /\ ~(age + elapsed >= WriteInterval))
      BY <1>15, Zenon DEF ShouldWrite
    <3>2. step \in Int /\ (applied # None => Deviation(applied, target) \in Int)
      BY <1>2, <1>3, <1>11, <1>13 DEF Deviation
    <3> QED BY <3>1, <3>2
  <2>4. applied' \in MinRpm .. MaxRpm /\ age' \in 0 .. WriteInterval /\ desired' = goal
    BY <1>2, <1>3, <1>7, <2>1, <2>3 DEF Older, Smaller, None
  <2>5. urgent => applied' > goal - WriteStep
    BY <1>2, <1>3, <1>4, <1>8, <1>10, <1>11, <1>13, <2>1, <2>3 DEF Deviation
  <2>6. applied - applied' <= ReleaseRate * elapsed
    BY <1>2, <2>1, <2>4
  <2>7. ASSUME raised', ~override PROVE releasing'
    <3>1. raised /\ applied' - goal >= FineStep BY <1>7, <2>7, Zenon
    <3>2. goal < applied BY <1>2, <2>1, <2>4, <3>1
    <3>3. protected BY <1>4, <1>9, <2>3, <3>1, <3>2
    <3>4. ramped # goal BY <1>2, <1>3, <1>11, <1>13, <2>1, <2>3, <3>1, <3>3 DEF Deviation
    <3> QED BY <1>7, <3>1, <3>4, Zenon
  <2>8. raised' => releasing' BY <1>7, <2>7, Zenon
  <2> QED BY <2>2, <2>4, <2>5, <2>6, <2>8
<1> QED BY <1>14, <1>15

-----------------------------------------------------------------------------
(* The floors.                                                             *)

(* The floor of an emergency is a percentage above zero, or there is none. *)
LEMMA EmergencyType ==
  ASSUME NEW p \in Pressures, NEW hot \in BOOLEAN
  PROVE  Emergency(p, hot) \in 1 .. Full \cup {None}
<1>1. PressureFloor[p] \in 0 .. Full /\ HotFloor \in 0 .. Full /\ Full \in 1 .. 100
  BY FloorAssumption DEF Pressures
<1> DEFINE floor == Larger(PressureFloor[p], IF hot THEN HotFloor ELSE 0)
<1>2. floor \in 0 .. Full BY <1>1 DEF Larger
<1>3. Emergency(p, hot) = IF floor = 0 THEN None ELSE floor
  BY DEF Emergency
<1> HIDE DEF floor
<1> QED BY <1>1, <1>2, <1>3

(* The same of the alerts of a sensor.                                     *)
LEMMA AlertType ==
  ASSUME NEW t \in Inputs
  PROVE  Alert[t] \in 0 .. Full \cup {None}
<1> DEFINE heeded == { a \in DOMAIN Alerts : t >= a }
           floors == { Alerts[s] : s \in heeded }
<1>1. Alert[t] = Max({None} \cup floors)
  BY DEF Alert
<1>2. floors \subseteq 0 .. Full BY FloorAssumption
<1>3. IsFiniteSet(floors)
  <2>1. Full \in Int BY FloorAssumption
  <2>2. IsFiniteSet(0 .. Full) BY <2>1, FS_Interval
  <2> HIDE DEF floors
  <2> QED BY <1>2, <2>2, FS_Subset
<1> HIDE DEF floors
<1>4. IsFiniteSet({None} \cup floors)
  <2>1. IsFiniteSet({None}) BY FS_Singleton
  <2> QED BY <1>3, <2>1, FS_Union
<1>5. {None} \cup floors \subseteq Int /\ {None} \cup floors # {}
  BY <1>2, FloorAssumption DEF None
<1>6. Max({None} \cup floors) \in {None} \cup floors BY <1>4, <1>5, MaxIsGreatest
<1> QED BY <1>1, <1>2, <1>6

-----------------------------------------------------------------------------
(* The invariant.                                                          *)

(* Without an input there is no direction to have fallen in; a fan that an *)
(* emergency has raised is driven and still being released; and the input  *)
(* that stays is there.                                                    *)
FloorIsMet == alarm > 0 => applied > PercentRpm[alarm] - WriteStep

SInv ==
  /\ TypeOK /\ lastSpeed \in -Full .. Full
  /\ lastInput = None => rising
  /\ raised => releasing /\ applied # None
  /\ steady => lastInput # None
  /\ SpeedCoversSteadyInput
  /\ FloorIsMet

(* What a sensor shows, with the hysteresis on top, is a temperature.      *)
LEMMA InputsAreTemperatures ==
  ASSUME NEW t \in Inputs
  PROVE  t \in Temperatures /\ t + Hysteresis \in Temperatures /\ t \in Int /\ t # None
         /\ t <= t + Hysteresis
BY CurveAssumption DEF Temperatures

(* The direction and the speed of a sample that shows the input.           *)
LEMMA DirectionStep ==
  ASSUME SInv, NEW t \in Inputs, NEW p \in Pressures, NEW hot \in BOOLEAN,
         NEW elapsed \in Elapsed, Follow(t, p, hot, elapsed)
  PROVE  /\ lastInput' = t /\ rising' \in BOOLEAN /\ crept' \in BOOLEAN
         /\ lastSpeed' \in -Full .. Full /\ alarm' = Larger(0, Emergency(p, hot))
         /\ lastSpeed' >= Emergency(p, hot)
         /\ ~crept' => lastSpeed' >= Interpolate[t]
<1> DEFINE requested == WithHysteresis(t, lastSpeed, Rises(t))
<1>1. /\ lastInput' = t /\ rising' = Rises(t)
      /\ lastSpeed' = Adjusted(requested, t, Emergency(p, hot))
      /\ alarm' = Larger(0, Emergency(p, hot))
      /\ crept' = (~rising' /\ (crept \/ (lastInput # None /\ t > lastInput)))
  BY Zenon DEF Follow
<1>2. rising \in BOOLEAN /\ crept \in BOOLEAN BY Zenon DEF SInv, TypeOK
<1>3. rising' \in BOOLEAN /\ crept' \in BOOLEAN /\ Rises(t) \in BOOLEAN
  BY <1>1, <1>2, Zenon DEF Rises
<1>4. /\ Interpolate[t] \in -Full .. Full /\ Interpolate[t + Hysteresis] \in -Full .. Full
      /\ Interpolate[t] <= Interpolate[t + Hysteresis] /\ lastSpeed \in -Full .. Full
  BY InputsAreTemperatures, InterpolationIsBounded, InterpolationRises DEF SInv
<1>5. requested = IF Rises(t) THEN Interpolate[t]
                  ELSE Smaller(Interpolate[t + Hysteresis], lastSpeed)
  BY Zenon DEF WithHysteresis
<1>6. lastSpeed' = Larger(requested, Larger(Alert[t], Emergency(p, hot)))
  BY <1>1, Zenon DEF Adjusted
<1> HIDE DEF requested
<1>7. Full \in 1 .. 100 BY FloorAssumption
<1>8. requested \in -Full .. Full
  BY <1>4, <1>5, <1>7 DEF Smaller
<1>9. lastSpeed' \in -Full .. Full /\ lastSpeed' >= Emergency(p, hot) /\ lastSpeed' >= requested
  BY <1>6, <1>7, <1>8, AlertType, EmergencyType DEF Larger, None
<1>10. ASSUME ~crept' PROVE requested >= Interpolate[t]
  <2>1. CASE Rises(t) BY <1>4, <1>5, <2>1
  <2>2. CASE ~Rises(t)
    <3>1. ~rising' /\ ~crept /\ ~(lastInput # None /\ t > lastInput)
      BY <1>1, <1>10, <2>2, Zenon
    <3>2. lastInput # None
      <4> SUFFICES ASSUME lastInput = None PROVE FALSE OBVIOUS
      <4>1. rising BY Zenon DEF SInv
      <4>2. Rises(t) BY <4>1, Zenon DEF Rises
      <4> QED BY <2>2, <4>2, Zenon
    <3>3. lastInput \in Inputs BY <3>2 DEF SInv, TypeOK
    <3>4. lastSpeed >= Interpolate[lastInput]
      BY <3>1, <3>2, Zenon DEF SInv, SpeedCoversSteadyInput, SpeedCoversInput
    <3>5. t <= lastInput BY <3>1, <3>2, <3>3, InputsAreTemperatures
    <3>6. Interpolate[lastInput] \in -Full .. Full /\ Interpolate[t] <= Interpolate[lastInput]
      BY <3>3, <3>5, InputsAreTemperatures, InterpolationIsBounded, InterpolationRises
    <3> QED BY <1>4, <1>5, <2>2, <3>4, <3>6 DEF Smaller
  <2> QED BY <2>1, <2>2
<1>11. ~crept' => lastSpeed' >= Interpolate[t]
  BY <1>4, <1>8, <1>9, <1>10
<1> QED BY <1>1, <1>3, <1>9, <1>11

(* What one of these passes does to the writes.                            *)
DrivenBy(elapsed) ==
  /\ releasing' \in BOOLEAN /\ raised' \in BOOLEAN /\ dirty' \in BOOLEAN
  /\ applied' \in MinRpm .. MaxRpm /\ age' \in 0 .. WriteInterval
  /\ desired' \in MinRpm .. MaxRpm
  /\ alarm' \in 0 .. Full
  /\ alarm' > 0 => applied' > PercentRpm[alarm'] - WriteStep
  /\ applied # None /\ raised => applied - applied' <= ReleaseRate * elapsed
  /\ raised' => releasing'

(* A sample that shows an input either drives the fan towards the target of*)
(* that input, or hands it back from the lowest speed.                     *)
LEMMA FollowStep ==
  ASSUME SInv, NEW t \in Inputs, NEW p \in Pressures, NEW hot \in BOOLEAN,
         NEW elapsed \in Elapsed, Follow(t, p, hot, elapsed)
  PROVE  DrivenBy(elapsed)
         \/ (HandBack /\ alarm' = 0 /\ (raised /\ applied # None => applied <= MinRpm))
<1> DEFINE emergency == Emergency(p, hot)
           requested == WithHysteresis(t, lastSpeed, Rises(t))
           override  == emergency # None \/ lastSpeed' > requested
           urgent    == emergency # None \/ t >= UrgentInput \/ lastSpeed' >= UrgentSpeed
<1>1. /\ lastSpeed' = Adjusted(requested, t, emergency)
      /\ alarm' = Larger(0, emergency)
      /\ IF Leaves(lastSpeed') THEN HandBack
         ELSE Pursue(PercentRpm[lastSpeed'], override, urgent, elapsed)
  BY Zenon DEF Follow
<1>2. emergency \in 1 .. Full \cup {None} /\ Full \in 1 .. 100
  BY EmergencyType, FloorAssumption
<1>3. lastSpeed' \in -Full .. Full /\ lastSpeed' >= emergency
  BY DirectionStep
<1>4. override \in BOOLEAN /\ urgent \in BOOLEAN /\ (emergency # None => urgent)
  OBVIOUS
<1> HIDE DEF emergency, requested, override, urgent
<1>5. alarm' = (IF emergency = None THEN 0 ELSE emergency) /\ alarm' \in 0 .. Full
  BY <1>1, <1>2 DEF Larger, None
<1>6. CASE Leaves(lastSpeed')
  <2>1. HandBack BY <1>1, <1>6, Zenon
  <2>2. lastSpeed' < 0 /\ ~(releasing /\ applied # None /\ applied > MinRpm)
    BY <1>6, Zenon DEF Leaves
  <2>3. emergency = None BY <1>2, <1>3, <2>2
  <2>4. raised /\ applied # None => ~(applied > MinRpm) BY <2>2, Zenon DEF SInv
  <2>5. applied # None => applied \in MinRpm .. MaxRpm BY DEF SInv, TypeOK
  <2> QED BY <1>5, <2>1, <2>3, <2>4, <2>5, RangeAssumption
<1>7. CASE ~Leaves(lastSpeed')
  <2> DEFINE goal == PercentRpm[lastSpeed']
  <2>1. Pursue(goal, override, urgent, elapsed) BY <1>1, <1>7, Zenon
  <2>2. goal \in MinRpm .. MaxRpm BY <1>3, PercentRpmRises
  <2>3. emergency # None => PercentRpm[emergency] <= goal /\ PercentRpm[emergency] \in MinRpm .. MaxRpm
    BY <1>2, <1>3, PercentRpmRises
  <2> HIDE DEF goal
  <2>4. TypeOK /\ (raised => releasing /\ applied # None) BY Zenon DEF SInv
  <2>5. /\ releasing' \in BOOLEAN /\ raised' \in BOOLEAN /\ dirty' \in BOOLEAN
        /\ applied' \in MinRpm .. MaxRpm /\ age' \in 0 .. WriteInterval /\ desired' = goal
        /\ urgent => applied' > goal - WriteStep
        /\ applied # None /\ raised => applied - applied' <= ReleaseRate * elapsed
        /\ raised' => releasing'
    BY <1>4, <2>1, <2>2, <2>4, PursueStep
  <2>6. alarm' > 0 => applied' > PercentRpm[alarm'] - WriteStep
    BY <1>2, <1>4, <1>5, <2>2, <2>3, <2>5, RangeAssumption, RateAssumption
  <2> QED BY <1>5, <2>2, <2>5, <2>6, Zenon DEF DrivenBy
<1> QED BY <1>6, <1>7

(* In an emergency without an input the fan is driven to the floor.        *)
LEMMA FollowBlindStep ==
  ASSUME SInv, NEW p \in Pressures, NEW hot \in BOOLEAN,
         NEW elapsed \in Elapsed, FollowBlind(p, hot, elapsed)
  PROVE  DrivenBy(elapsed) /\ UNCHANGED <<direction, crept>>
<1> DEFINE emergency == Emergency(p, hot)  goal == Larger(PercentRpm[emergency], applied)
<1>1. /\ emergency # None /\ Pursue(goal, TRUE, TRUE, elapsed)
      /\ alarm' = emergency /\ UNCHANGED <<direction, crept>>
  BY Zenon DEF FollowBlind
<1>2. emergency \in 1 .. Full BY <1>1, EmergencyType
<1>3. PercentRpm[emergency] \in MinRpm .. MaxRpm BY <1>2, PercentRpmRises, FloorAssumption
<1>4. applied \in MinRpm .. MaxRpm \cup {None} BY DEF SInv, TypeOK
<1>5. goal \in MinRpm .. MaxRpm /\ PercentRpm[emergency] <= goal
  BY <1>3, <1>4, RangeAssumption DEF Larger, None
<1> HIDE DEF emergency, goal
<1>6. TypeOK /\ (raised => releasing /\ applied # None) BY Zenon DEF SInv
<1>7. /\ releasing' \in BOOLEAN /\ raised' \in BOOLEAN /\ dirty' \in BOOLEAN
      /\ applied' \in MinRpm .. MaxRpm /\ age' \in 0 .. WriteInterval /\ desired' = goal
      /\ applied' > goal - WriteStep
      /\ applied # None /\ raised => applied - applied' <= ReleaseRate * elapsed
      /\ raised' => releasing'
  BY <1>1, <1>5, <1>6, PursueStep
<1>8. alarm' \in 0 .. Full /\ applied' > PercentRpm[alarm'] - WriteStep
  BY <1>1, <1>2, <1>3, <1>5, <1>7, RangeAssumption, RateAssumption
<1> QED BY <1>1, <1>5, <1>7, <1>8, Zenon DEF DrivenBy

(* A hand-back leaves no target behind.                                    *)
LEMMA HandBackStep ==
  ASSUME TypeOK, HandBack
  PROVE  /\ applied' = None /\ age' = None /\ desired' = None
         /\ dirty' \in BOOLEAN /\ ~raised' /\ releasing' \in BOOLEAN
BY Zenon DEF HandBack, TypeOK

(* The invariant holds of a policy that has just been created.             *)
LEMMA SInvInit == Init => SInv
<1> SUFFICES ASSUME Init PROVE SInv OBVIOUS
<1>1. TypeOK
  <2>1. /\ rising \in BOOLEAN /\ releasing \in BOOLEAN /\ dirty \in BOOLEAN
        /\ crept \in BOOLEAN /\ raised \in BOOLEAN /\ steady \in BOOLEAN
        /\ (age = None <=> applied = None)
    BY Zenon DEF Init
  <2>2. lastSpeed \in Int BY DEF Init
  <2> QED BY <2>1, <2>2, Zenon DEF Init, TypeOK
<1>2. lastSpeed \in -Full .. Full BY FloorAssumption DEF Init
<1>3. FloorIsMet BY DEF Init, None, FloorIsMet
<1> QED BY <1>1, <1>2, <1>3, Zenon DEF Init, SInv, SpeedCoversSteadyInput, SpeedCoversInput

(* The state after a pass that drives the fan, or gives it back.           *)
LEMMA TypeAfter ==
  ASSUME TypeOK, lastInput' \in Inputs \cup {None}, rising' \in BOOLEAN, lastSpeed' \in Int,
         crept' \in BOOLEAN, steady' \in BOOLEAN, alarm' \in 0 .. Full \cup {None},
         releasing' \in BOOLEAN, dirty' \in BOOLEAN, raised' \in BOOLEAN,
         \/ /\ applied' \in MinRpm .. MaxRpm /\ age' \in 0 .. WriteInterval
            /\ desired' \in MinRpm .. MaxRpm
         \/ applied' = None /\ age' = None /\ desired' = None
  PROVE  TypeOK'
<1>1. /\ applied' \in MinRpm .. MaxRpm \cup {None} /\ age' \in 0 .. WriteInterval \cup {None}
      /\ desired' \in MinRpm .. MaxRpm \cup {None} /\ (age' = None <=> applied' = None)
  BY RangeAssumption, RateAssumption DEF None
<1> QED BY <1>1, Zenon DEF TypeOK

(* A sample that shows an input keeps the invariant.                       *)
LEMMA FollowKeeps ==
  ASSUME SInv, NEW t \in Inputs, NEW p \in Pressures, NEW hot \in BOOLEAN,
         NEW elapsed \in Elapsed, Follow(t, p, hot, elapsed), UNCHANGED steady
  PROVE  SInv'
<1>1. /\ lastInput' = t /\ rising' \in BOOLEAN /\ crept' \in BOOLEAN
      /\ lastSpeed' \in -Full .. Full
      /\ ~crept' => lastSpeed' >= Interpolate[t]
  BY DirectionStep
<1>2. t # None BY CurveAssumption
<1>3. lastSpeed' \in Int BY <1>1, FloorAssumption
<1>4. TypeOK /\ steady' \in BOOLEAN BY Zenon DEF SInv, TypeOK
<1>5. (lastInput' = None => rising') /\ (steady' => lastInput' # None) /\ SpeedCoversSteadyInput'
  BY <1>1, <1>2, Zenon DEF SpeedCoversSteadyInput, SpeedCoversInput
<1>6. CASE DrivenBy(elapsed)
  <2>1. applied' # None BY <1>6, RangeAssumption DEF DrivenBy, None
  <2>2. raised' => releasing' BY <1>6, Zenon DEF DrivenBy
  <2>3. TypeOK' BY <1>1, <1>3, <1>4, <1>6, TypeAfter, Zenon DEF DrivenBy
  <2>4. FloorIsMet' BY <1>6, Zenon DEF DrivenBy, FloorIsMet
  <2> QED BY <1>1, <1>5, <2>1, <2>2, <2>3, <2>4, Zenon DEF SInv
<1>7. CASE HandBack /\ alarm' = 0
  <2>1. alarm' \in 0 .. Full \cup {None} BY <1>7, FloorAssumption
  <2>2. /\ applied' = None /\ age' = None /\ desired' = None
        /\ dirty' \in BOOLEAN /\ ~raised' /\ releasing' \in BOOLEAN
    BY <1>4, <1>7, HandBackStep
  <2>3. raised' \in BOOLEAN BY <1>7, Zenon DEF HandBack
  <2>4. TypeOK' BY <1>1, <1>2, <1>3, <1>4, <2>1, <2>2, <2>3, TypeAfter, Zenon
  <2>5. FloorIsMet' BY <1>7 DEF FloorIsMet
  <2> QED BY <1>1, <1>5, <2>2, <2>4, <2>5, Zenon DEF SInv
<1> QED BY <1>6, <1>7, FollowStep

(* Every step keeps the invariant.                                         *)
LEMMA SInvStep == SInv /\ [Next]_vars => SInv'
<1> SUFFICES ASSUME SInv, [Next]_vars PROVE SInv' OBVIOUS
<1>1. TypeOK BY DEF SInv
<1>2. ASSUME NEW p \in Pressures, NEW hot \in BOOLEAN, NEW elapsed \in Elapsed,
             FollowBlind(p, hot, elapsed), UNCHANGED steady
      PROVE  SInv'
  <2>1. DrivenBy(elapsed) /\ UNCHANGED <<direction, crept>>
    BY <1>2, FollowBlindStep
  <2>2. UNCHANGED <<lastInput, rising, lastSpeed, crept, steady>>
    BY <1>2, <2>1, Zenon DEF direction
  <2>3. applied' # None BY <2>1, RangeAssumption DEF DrivenBy, None
  <2>4. TypeOK' BY <1>1, <2>1, <2>2, TypeAfter, Zenon DEF DrivenBy, TypeOK
  <2>5. SpeedCoversSteadyInput'
    BY <2>2, Zenon DEF SInv, SpeedCoversSteadyInput, SpeedCoversInput
  <2>6. lastSpeed' \in -Full .. Full /\ (lastInput' = None => rising') /\ (steady' => lastInput' # None)
    BY <2>2, Zenon DEF SInv
  <2>7. FloorIsMet' BY <2>1, Zenon DEF DrivenBy, FloorIsMet
  <2> QED BY <2>1, <2>3, <2>4, <2>5, <2>6, <2>7, Zenon DEF SInv, DrivenBy
<1>3. ASSUME NEW elapsed \in Elapsed, Hold(elapsed), UNCHANGED steady PROVE SInv'
  <2>1. /\ applied # None /\ age' = Older(elapsed) /\ alarm' = None
        /\ UNCHANGED <<direction, crept, raised, applied, releasing, dirty, desired, steady>>
    BY <1>3, Zenon DEF Hold
  <2>2. age' \in 0 .. WriteInterval
    BY <1>1, <2>1, RangeAssumption, RateAssumption DEF TypeOK, Older, Smaller, None
  <2>3. age' # None BY <2>2, RateAssumption DEF None
  <2>4. TypeOK' BY <1>1, <2>1, <2>2, <2>3, Zenon DEF TypeOK, direction
  <2>5. SpeedCoversSteadyInput'
    BY <2>1, Zenon DEF SInv, SpeedCoversSteadyInput, SpeedCoversInput, direction
  <2>6. FloorIsMet' BY <2>1 DEF FloorIsMet, None
  <2> QED BY <2>1, <2>4, <2>5, <2>6, Zenon DEF SInv, direction
<1>4. ASSUME GiveUp, UNCHANGED steady PROVE SInv'
  <2>1. HandBack /\ alarm' = None /\ UNCHANGED <<direction, crept>> BY <1>4, Zenon DEF GiveUp
  <2>2. /\ applied' = None /\ age' = None /\ desired' = None
        /\ dirty' \in BOOLEAN /\ ~raised' /\ releasing' \in BOOLEAN
    BY <1>1, <2>1, HandBackStep
  <2>3. raised' \in BOOLEAN BY <2>1, Zenon DEF HandBack
  <2>4. TypeOK' BY <1>1, <1>4, <2>1, <2>2, <2>3, Zenon DEF TypeOK, direction
  <2>5. SpeedCoversSteadyInput'
    BY <2>1, Zenon DEF SInv, SpeedCoversSteadyInput, SpeedCoversInput, direction
  <2>6. FloorIsMet' BY <2>1 DEF FloorIsMet, None
  <2> QED BY <1>4, <2>1, <2>2, <2>4, <2>5, <2>6, Zenon DEF SInv, direction
<1>5. ASSUME Sample PROVE SInv'
  <2>1. PICK p \in Pressures, hot \in BOOLEAN, elapsed \in Elapsed :
          \/ \E t \in Inputs : Follow(t, p, hot, elapsed)
          \/ FollowBlind(p, hot, elapsed)
          \/ Hold(elapsed) \/ GiveUp
    BY <1>5, Zenon DEF Sample
  <2>2. UNCHANGED steady BY <1>5, Zenon DEF Sample
  <2> QED BY <1>2, <1>3, <1>4, <2>1, <2>2, FollowKeeps
<1>6. ASSUME SampleAgain PROVE SInv'
  <2>1. steady /\ UNCHANGED steady
        /\ \E p \in Pressures, elapsed \in Elapsed : Follow(lastInput, p, FALSE, elapsed)
    BY <1>6, Zenon DEF SampleAgain
  <2>2. lastInput \in Inputs BY <2>1, <1>1, Zenon DEF SInv, TypeOK
  <2> QED BY <2>1, <2>2, FollowKeeps
<1>7. ASSUME Reconfigure \/ Resume PROVE SInv'
  <2>1. /\ lastInput' = None /\ rising' = TRUE /\ lastSpeed' = 0 /\ dirty' = TRUE
        /\ desired' = None /\ crept' = FALSE /\ alarm' = None /\ ~steady /\ UNCHANGED steady
        /\ \/ UNCHANGED <<applied, releasing, age, raised>>
           \/ applied' = None /\ releasing' = FALSE /\ age' = None /\ raised' = FALSE
    BY <1>7, Zenon DEF Reconfigure, Resume
  <2>2. lastSpeed' \in Int /\ lastSpeed' \in -Full .. Full BY <2>1, FloorAssumption
  <2>3. TypeOK' BY <1>1, <2>1, <2>2, Zenon DEF TypeOK
  <2>4. raised' => releasing' /\ applied' # None
    <3>1. CASE UNCHANGED <<applied, releasing, age, raised>>
      <4>1. raised' = raised /\ releasing' = releasing /\ applied' = applied
        BY <3>1, Zenon
      <4>2. raised => releasing /\ applied # None BY Zenon DEF SInv
      <4> QED BY <4>1, <4>2, Zenon
    <3>2. CASE raised' = FALSE BY <3>2, Zenon
    <3> QED BY <2>1, <3>1, <3>2, Zenon
  <2>5. SpeedCoversSteadyInput' BY <2>1, Zenon DEF SpeedCoversSteadyInput, SpeedCoversInput
  <2>6. alarm' = None BY <2>1, Zenon
  <2>7. FloorIsMet' BY <2>6 DEF FloorIsMet, None
  <2> QED BY <2>1, <2>2, <2>3, <2>4, <2>5, <2>7, Zenon DEF SInv
<1>8. ASSUME Settle PROVE SInv'
  <2>1. lastInput # None /\ steady' = TRUE /\ UNCHANGED <<direction, writing, crept, raised, alarm>>
    BY <1>8, Zenon DEF Settle
  <2>2. TypeOK' BY <1>1, <2>1, Zenon DEF TypeOK, direction, writing
  <2>3. SpeedCoversSteadyInput'
    BY <2>1, Zenon DEF SInv, SpeedCoversSteadyInput, SpeedCoversInput, direction
  <2>4. FloorIsMet' BY <2>1, Zenon DEF SInv, FloorIsMet, writing
  <2> QED BY <2>1, <2>2, <2>3, <2>4, Zenon DEF SInv, direction, writing
<1>9. CASE UNCHANGED vars
  <2>1. UNCHANGED <<lastInput, rising, lastSpeed, applied, releasing, dirty, age, desired,
                    crept, raised, alarm, steady>>
    BY <1>9, Zenon DEF vars, direction, writing
  <2>2. TypeOK' BY <1>1, <2>1, Zenon DEF TypeOK
  <2>3. SpeedCoversSteadyInput'
    BY <2>1, Zenon DEF SInv, SpeedCoversSteadyInput, SpeedCoversInput
  <2>4. FloorIsMet' BY <2>1, Zenon DEF SInv, FloorIsMet
  <2> QED BY <2>1, <2>2, <2>3, <2>4, Zenon DEF SInv
<1> QED BY <1>5, <1>6, <1>7, <1>8, <1>9, Zenon DEF Next

(* The invariant holds throughout.                                         *)
LEMMA SInvAlways == Safety => []SInv
BY SInvInit, SInvStep, PTL DEF Safety

-----------------------------------------------------------------------------
(* The theorems.                                                           *)

(* The state of the policy keeps its type on every sample, for any curve,  *)
(* floors, rates and range; the speed stays within -Full .. Full percent   *)
(* and every target within the range of the fan.                           *)
THEOREM TypeCorrect == Safety => []TypeOK
<1>1. SInv => TypeOK BY DEF SInv
<1> QED BY <1>1, SInvAlways, PTL

(* The hysteresis may keep a fan faster than its curve but never slower,   *)
(* unless the input crept up after a fall: for every monotone curve of any *)
(* number of points (config.rs:118-150, controller.rs:626).                *)
THEOREM SteadyInputIsCovered == Safety => []SpeedCoversSteadyInput
<1>1. SInv => SpeedCoversSteadyInput BY DEF SInv
<1> QED BY <1>1, SInvAlways, PTL

(* No step lets a fan that an emergency raised fall faster than the release*)
(* rate, whatever the elapsed time of the pass.                            *)
LEMMA ReleaseStep ==
  SInv /\ [Next]_vars =>
    (raised /\ applied # None /\ alarm' # None =>
       IF applied' = None THEN applied <= MinRpm
       ELSE applied - applied' <= ReleaseRate * Max(Elapsed))
<1> SUFFICES ASSUME SInv, [Next]_vars, raised, applied # None, alarm' # None
             PROVE  IF applied' = None THEN applied <= MinRpm
                    ELSE applied - applied' <= ReleaseRate * Max(Elapsed)
  OBVIOUS
<1>1. applied \in MinRpm .. MaxRpm BY DEF SInv, TypeOK
<1>2. ASSUME NEW elapsed \in Elapsed
      PROVE  /\ ReleaseRate * elapsed \in Nat /\ ReleaseRate * Max(Elapsed) \in Nat
             /\ ReleaseRate * elapsed <= ReleaseRate * Max(Elapsed)
  <2>1. Elapsed \subseteq Int /\ IsFiniteSet(Elapsed) /\ Elapsed # {} BY RangeAssumption
  <2>2. Max(Elapsed) \in Elapsed /\ Max(Elapsed) >= elapsed BY <2>1, MaxIsGreatest
  <2>3. Max(Elapsed) \in Nat /\ elapsed \in Nat BY <2>2, RangeAssumption
  <2> QED BY <2>2, <2>3, RateAssumption
<1>3. ASSUME NEW elapsed \in Elapsed, DrivenBy(elapsed)
      PROVE  applied' # None /\ applied - applied' <= ReleaseRate * Max(Elapsed)
  <2>1. applied' \in MinRpm .. MaxRpm /\ applied - applied' <= ReleaseRate * elapsed
    BY <1>3, Zenon DEF DrivenBy
  <2> QED BY <1>1, <1>2, <2>1, RangeAssumption DEF None
<1>4. ASSUME NEW t \in Inputs, NEW p \in Pressures, NEW hot \in BOOLEAN,
             NEW elapsed \in Elapsed, Follow(t, p, hot, elapsed)
      PROVE  IF applied' = None THEN applied <= MinRpm
             ELSE applied - applied' <= ReleaseRate * Max(Elapsed)
  <2>1. CASE DrivenBy(elapsed) BY <1>3, <2>1
  <2>2. CASE HandBack /\ applied <= MinRpm BY <2>2, Zenon DEF HandBack
  <2> QED BY <1>4, <2>1, <2>2, FollowStep
<1>5. CASE Sample
  <2>1. PICK p \in Pressures, hot \in BOOLEAN, elapsed \in Elapsed :
          \/ \E t \in Inputs : Follow(t, p, hot, elapsed)
          \/ FollowBlind(p, hot, elapsed)
          \/ Hold(elapsed) \/ GiveUp
    BY <1>5, Zenon DEF Sample
  <2>2. CASE FollowBlind(p, hot, elapsed) BY <1>3, <2>2, FollowBlindStep
  <2>3. CASE Hold(elapsed) \/ GiveUp BY <2>3, Zenon DEF Hold, GiveUp
  <2> QED BY <1>4, <2>1, <2>2, <2>3
<1>6. CASE SampleAgain
  <2>1. steady /\ \E p \in Pressures, elapsed \in Elapsed : Follow(lastInput, p, FALSE, elapsed)
    BY <1>6, Zenon DEF SampleAgain
  <2>2. lastInput \in Inputs BY <2>1, Zenon DEF SInv, TypeOK
  <2> QED BY <1>4, <2>1, <2>2
<1>7. CASE Reconfigure \/ Resume
  BY <1>7, Zenon DEF Reconfigure, Resume
<1>8. CASE Settle \/ UNCHANGED vars
  <2>1. applied' = applied BY <1>8, Zenon DEF Settle, vars, writing
  <2>2. ReleaseRate * Max(Elapsed) \in Nat
    <3>1. Elapsed # {} BY RangeAssumption
    <3> QED BY <1>2, <3>1
  <2> QED BY <1>1, <2>1, <2>2, RangeAssumption
<1> QED BY <1>5, <1>6, <1>7, <1>8, Zenon DEF Next

(* In an emergency the target is at the floor at once, within one write    *)
(* step, and what the emergency has raised comes down no faster than the   *)
(* release rate, and not by a hand-back from above the lowest speed, until *)
(* an ordinary target was reached (controller.rs:779-834, policy.rs:64).   *)
THEOREM EmergencyIsAlwaysObeyed == Safety => EmergencyIsObeyed
<1>1. SInv' => [alarm' > 0 => applied' > PercentRpm[alarm'] - WriteStep]_vars
  BY Zenon DEF SInv, FloorIsMet
<1>2. SInv /\ [Next]_vars =>
        [raised /\ applied # None /\ alarm' # None =>
           IF applied' = None THEN applied <= MinRpm
           ELSE applied - applied' <= ReleaseRate * Max(Elapsed)]_vars
  BY ReleaseStep
<1> QED BY <1>1, <1>2, SInvAlways, PTL
        DEF Safety, EmergencyIsObeyed, EmergencyFloorIsMet, ReleaseIsGradual
=============================================================================
