----------------------------- MODULE Smc_proofs -----------------------------
(***************************************************************************)
(* The SMC driver, for any number of fans.  First the values: what Smc     *)
(* relies on when it writes a target, for every request, bound and         *)
(* register, and what the app relies on when it sends one.  Then the       *)
(* operations: the driver implements its contract with the helper, what it *)
(* confirms is in force, and a sleep is acknowledged in order.             *)
(***************************************************************************)
EXTENDS PowerMonitor, FanBounds, TLAPS

(* A KeyValue as the transport returns it.                                 *)
KeyValues ==
  [kind : Kinds, shift : 0 .. 8, width : {1, 2, 4}, size : 0 .. 32, raw : Int]

(* A whole number lies between its own floor and ceiling of what is around *)
(* it.                                                                     *)
LEMMA Rounding ==
  ASSUME NEW x \in Int
  PROVE  /\ Floor(x) \in Int /\ Floor(x) * Unit <= x
         /\ Ceiling(x) \in Int /\ Ceiling(x) * Unit >= x
  BY DEF Floor, Ceiling, Unit

(* A whole speed between two others, and what it is in 256ths.             *)
LEMMA Between ==
  ASSUME NEW low \in Int, NEW x \in Int, NEW high \in Int, NEW limit \in Int,
         0 <= low, low <= x, x <= high, high <= limit
  PROVE  x \in 0 .. limit
  OBVIOUS

LEMMA Scaled ==
  ASSUME NEW x \in Int, NEW y \in Int, x <= y
  PROVE  x * Unit \in Int /\ y * Unit \in Int /\ x * Unit <= y * Unit
  BY DEF Unit

LEMMA Transitive ==
  ASSUME NEW x \in Int, NEW y \in Int, NEW z \in Int, x <= y, y <= z
  PROVE  x <= z
  OBVIOUS

LEMMA NoWrap ==
  ASSUME NEW x \in Int, 0 <= x, x < 65536
  PROVE  x % 65536 = x
  OBVIOUS

(* validated_rpm never returns a speed outside the live bounds of the fan, *)
(* nor one that the register could not hold (smc.rs:604).                  *)
THEOREM ValidatedIsInBounds ==
  ASSUME NEW request \in Int, NEW min \in Int, NEW max \in Int,
         ValidatedRpm(request, min, max).ok
  PROVE  LET rpm == ValidatedRpm(request, min, max).value
         IN /\ rpm \in 0 .. MaximumRpm
            /\ min <= rpm * Unit /\ rpm * Unit <= max
<1> DEFINE low == Ceiling(min) high == Floor(max)
<1>1. request >= 0 /\ ValidBounds(min, max)
  BY DEF ValidatedRpm, Fails
<1>2. /\ low \in Int /\ high \in Int /\ low <= high
      /\ min <= low * Unit /\ high * Unit <= max
  BY <1>1, Rounding DEF ValidBounds
<1>3. low >= 0 /\ high <= MaximumRpm
  BY <1>1 DEF ValidBounds, Ceiling, Floor, Unit, MaximumRpm
<1> DEFINE rpm == ValidatedRpm(request, min, max).value
<1>4. rpm = IF request < low THEN low ELSE IF request > high THEN high ELSE request
  BY <1>1 DEF ValidatedRpm, Is
<1> HIDE DEF low, high, rpm
<1>5. low \in Int /\ high \in Int /\ low <= high
  BY <1>2, Zenon
<1>6. rpm \in Int /\ low <= rpm /\ rpm <= high
  BY <1>4, <1>5
<1>7. min <= rpm * Unit
  <2>1. low * Unit \in Int /\ rpm * Unit \in Int /\ low * Unit <= rpm * Unit
    BY <1>5, <1>6, Scaled
  <2>2. min <= low * Unit
    BY <1>2, Zenon
  <2> QED BY <2>1, <2>2, Transitive, Zenon
<1>8. rpm * Unit <= max
  <2>1. high * Unit \in Int /\ rpm * Unit \in Int /\ rpm * Unit <= high * Unit
    BY <1>5, <1>6, Scaled
  <2>2. high * Unit <= max
    BY <1>2, Zenon
  <2> QED BY <2>1, <2>2, Transitive, Zenon
<1>9. rpm \in 0 .. MaximumRpm
  <2>1. 0 <= low /\ high <= MaximumRpm
    BY <1>3, <1>5
  <2>2. MaximumRpm \in Int
    BY DEF MaximumRpm
  <2> QED BY <1>5, <1>6, <2>1, <2>2, Between
<1> QED BY <1>7, <1>8, <1>9 DEF rpm

(* What set_rpm writes into a register is read back as the same speed: the *)
(* sixteen bits of fpe2 do not overflow (smc.rs:106).                      *)
THEOREM WrittenIsRead ==
  ASSUME NEW v \in KeyValues, NEW rpm \in 0 .. MaximumRpm, MaySetRpm(v, rpm), v.size >= v.width
  PROVE  Numeric(SetRpm(v, rpm)) = Is(rpm * Unit)
<1> DEFINE w == SetRpm(v, rpm)
           wrapped == (rpm * 4) % 65536
<1>1. /\ w.kind = v.kind /\ w.shift = v.shift /\ w.width = v.width /\ w.size = v.size
      /\ w.raw = IF v.kind = "flt" THEN rpm * Unit ELSE wrapped
  BY DEF SetRpm, KeyValues
<1>2. v.size \in 1 .. 32 /\ v.kind \in {"flt", "fp"}
  BY DEF MaySetRpm, KeyValues
<1>3. Numeric(SetRpm(v, rpm)) = Numeric(w)
  OBVIOUS
<1> HIDE DEF w, wrapped
<1>4. Numeric(w) = Is(w.raw * Factor(w))
  <2>1. w.size \in 1 .. 32 /\ ~(w.size < w.width)
    BY <1>1, <1>2 DEF KeyValues
  <2>2. w.kind # "unknown" /\ w.kind # "sp"
    BY <1>1, <1>2
  <2> QED BY <2>1, <2>2 DEF Numeric
<1>5. w.raw * Factor(w) = rpm * Unit
  <2>1. CASE v.kind = "flt"
    <3>1. w.raw = rpm * Unit /\ Factor(w) = 1
      BY <1>1, <2>1 DEF Factor
    <3>2. rpm * Unit \in Int
      BY DEF Unit
    <3>3. (rpm * Unit) * 1 = rpm * Unit
      BY <3>2
    <3> QED BY <3>1, <3>3, Zenon
  <2>2. CASE v.kind = "fp"
    <3>0. wrapped = rpm * 4
      <4>1. rpm \in Int /\ 0 <= rpm /\ rpm <= 16383
        BY DEF MaximumRpm
      <4>2. rpm * 4 \in Int /\ 0 <= rpm * 4 /\ rpm * 4 < 65536
        BY <4>1
      <4> QED BY <4>2, NoWrap DEF wrapped
    <3>1. w.raw = rpm * 4
      <4>1. v.kind # "flt"
        BY <2>2
      <4>2. w.raw = wrapped
        BY <1>1, <4>1
      <4> QED BY <3>0, <4>2, Zenon
    <3>2. v.shift = 2 /\ Scale[2] = 64
      BY <2>2 DEF MaySetRpm, Scale
    <3>3. Factor(w) = 64
      BY <1>1, <2>2, <3>2 DEF Factor
    <3> QED BY <3>1, <3>3 DEF Unit, MaximumRpm
  <2> QED BY <1>2, <2>1, <2>2
<1> QED BY <1>3, <1>4, <1>5

(* A target that was validated and written is read back within the live    *)
(* bounds: set_fan_mode(Forced) would accept it (smc.rs:328, 413).         *)
THEOREM WrittenTargetIsSafe ==
  ASSUME NEW v \in KeyValues, NEW request \in Int, NEW min \in Int, NEW max \in Int,
         ValidatedRpm(request, min, max).ok, v.size >= v.width,
         MaySetRpm(v, ValidatedRpm(request, min, max).value)
  PROVE  LET target == Numeric(SetRpm(v, ValidatedRpm(request, min, max).value))
         IN target.ok /\ min <= target.value /\ target.value <= max
<1> DEFINE rpm == ValidatedRpm(request, min, max).value
<1>1. rpm \in 0 .. MaximumRpm /\ min <= rpm * Unit /\ rpm * Unit <= max
  BY ValidatedIsInBounds
<1>2. MaySetRpm(v, rpm)
  OBVIOUS
<1> DEFINE target == Numeric(SetRpm(v, rpm))
<1> SUFFICES target.ok /\ min <= target.value /\ target.value <= max
  OBVIOUS
<1> HIDE DEF rpm
<1>3. target = Is(rpm * Unit)
  BY <1>1, <1>2, WrittenIsRead
<1> QED BY <1>1, <1>3 DEF Is

-----------------------------------------------------------------------------
(* A command of the app lies within the bounds the app sampled, and stops  *)
(* a fan only if it was asked to, and only a fan that may stand still      *)
(* (model.rs:183).                                                         *)
THEOREM PlanStaysInBounds ==
  ASSUME NEW request \in Int, NEW min \in Int, NEW max \in Int, NEW mayStop \in BOOLEAN,
         PlannedRpm(request, min, max, mayStop).ok
  PROVE  LET rpm == PlannedRpm(request, min, max, mayStop).value
         IN /\ rpm \in 0 .. MaximumRpm
            /\ min <= rpm * Unit /\ rpm * Unit <= max
            /\ rpm = 0 => mayStop /\ request = 0 /\ min = 0
<1> DEFINE rpm == PlannedRpm(request, min, max, mayStop).value
           low == Ceiling(min)
           high == Highest(max)
<1>1. request >= 0 /\ Controllable(min, max)
  BY DEF PlannedRpm, Fails
<1> SUFFICES /\ rpm \in 0 .. MaximumRpm
             /\ min <= rpm * Unit /\ rpm * Unit <= max
             /\ rpm = 0 => mayStop /\ request = 0 /\ min = 0
  OBVIOUS
<1>2. /\ low \in Int /\ min <= low * Unit /\ low >= 0 /\ (low = 0 => min = 0)
      /\ high \in Int /\ high * Unit <= max /\ high <= MaximumRpm
      /\ low < high
  <2>1. min >= 0 /\ low < high
    BY <1>1 DEF Controllable
  <2>2. low \in Int /\ min <= low * Unit /\ low >= 0 /\ (low = 0 => min = 0)
    BY <2>1, Rounding DEF Ceiling, Unit
  <2>3. high \in Int /\ high * Unit <= max /\ high <= MaximumRpm
    BY Rounding DEF Highest, MaximumRpm, Unit
  <2> QED BY <2>1, <2>2, <2>3
<1>3. CASE request = 0
  <2>1. mayStop /\ low = 0 /\ rpm = 0
    BY <1>1, <1>3 DEF PlannedRpm, Fails, Is
  <2> HIDE DEF rpm, low, high
  <2>2. min = 0 /\ 0 <= max
    BY <1>2, <2>1 DEF Unit
  <2> QED BY <1>3, <2>1, <2>2 DEF MaximumRpm, Unit
<1>4. CASE request > 0
  <2> DEFINE least == IF low = 0 THEN 1 ELSE low
  <2>1. rpm = IF request < least THEN least ELSE IF request > high THEN high ELSE request
    BY <1>1, <1>4 DEF PlannedRpm, Is
  <2> HIDE DEF rpm, low, high
  <2>2. low \in Int /\ low >= 0 /\ high \in Int /\ low < high
    BY <1>2, Zenon
  <2>3. least \in Int /\ least >= 1 /\ low <= least /\ least <= high
    BY <2>2
  <2> HIDE DEF least
  <2>4. rpm \in Int /\ least <= rpm /\ rpm <= high
    BY <1>4, <2>1, <2>2, <2>3
  <2>5. low <= rpm /\ 1 <= rpm
    BY <2>2, <2>3, <2>4
  <2>6. rpm \in 0 .. MaximumRpm /\ rpm # 0
    <3>1. high <= MaximumRpm
      BY <1>2, Zenon
    <3>2. 0 <= low
      BY <2>2
    <3>3. MaximumRpm \in Int
      BY DEF MaximumRpm
    <3>4. rpm \in 0 .. MaximumRpm
      BY <2>2, <2>4, <2>5, <3>1, <3>2, <3>3, Between
    <3> QED BY <2>4, <2>5, <3>4
  <2>7. min <= rpm * Unit
    <3>1. low * Unit \in Int /\ rpm * Unit \in Int /\ low * Unit <= rpm * Unit
      BY <2>2, <2>4, <2>5, Scaled
    <3>2. min <= low * Unit
      BY <1>2, Zenon
    <3> QED BY <3>1, <3>2, Transitive, Zenon
  <2>8. rpm * Unit <= max
    <3>1. high * Unit \in Int /\ rpm * Unit \in Int /\ rpm * Unit <= high * Unit
      BY <2>2, <2>4, Scaled
    <3>2. high * Unit <= max
      BY <1>2, Zenon
    <3> QED BY <3>1, <3>2, Transitive, Zenon
  <2> QED BY <2>6, <2>7, <2>8, Zenon
<1> QED BY <1>1, <1>3, <1>4

(* While the bounds stand still, and no faster than a register can hold,   *)
(* the helper limits no command of the app a second time: what is answered *)
(* is what was asked, and confirms it (smc.rs:413, worker.rs:1394).        *)
THEOREM PlanIsConfirmed ==
  ASSUME NEW request \in Int, NEW min \in Int, NEW max \in Int, NEW mayStop \in BOOLEAN,
         PlannedRpm(request, min, max, mayStop).ok, max <= MaximumRpm * Unit
  PROVE  LET rpm == PlannedRpm(request, min, max, mayStop).value
         IN Confirms(rpm, ValidatedRpm(rpm, min, max))
<1> DEFINE rpm == PlannedRpm(request, min, max, mayStop).value
<1>1. rpm \in Int /\ rpm >= 0 /\ min <= rpm * Unit /\ rpm * Unit <= max
  BY PlanStaysInBounds
<1>2. Controllable(min, max)
  BY DEF PlannedRpm, Fails
<1> HIDE DEF rpm
<1>3. ValidBounds(min, max)
  <2>1. Ceiling(min) \in Int /\ Floor(max) \in Int
    BY Rounding
  <2>2. Ceiling(min) <= Floor(max)
    BY <1>2, <2>1 DEF Controllable, Highest, MaximumRpm
  <2> QED BY <1>2, <2>2 DEF Controllable, ValidBounds
<1>4. Ceiling(min) <= rpm /\ rpm <= Floor(max)
  BY <1>1 DEF Ceiling, Floor, Unit
<1>5. ValidatedRpm(rpm, min, max) = Is(rpm)
  <2>1. Ceiling(min) \in Int /\ Floor(max) \in Int
    BY Rounding
  <2> QED BY <1>1, <1>3, <1>4, <2>1 DEF ValidatedRpm
<1> QED BY <1>5 DEF Confirms, rpm

(* And when the bounds have moved since they were sampled, a confirmation  *)
(* still says that the target lies within those of the write.              *)
THEOREM ConfirmedFitsTheWrite ==
  ASSUME NEW rpm \in Int, NEW min \in Int, NEW max \in Int,
         Confirms(rpm, ValidatedRpm(rpm, min, max))
  PROVE  min <= rpm * Unit /\ rpm * Unit <= max
<1>1. ValidatedRpm(rpm, min, max) = [ok |-> TRUE, value |-> rpm]
  BY DEF Confirms, Is
<1>2. ValidatedRpm(rpm, min, max).ok /\ ValidatedRpm(rpm, min, max).value = rpm
  BY <1>1
<1> QED BY <1>2, ValidatedIsInBounds

-----------------------------------------------------------------------------
(* The driver between its accesses.                                        *)

(* What a read may bring: a register is found only where there is one, and *)
(* one that exists is never taken for absent.                              *)
LEMMA OptionalReads ==
  ASSUME NEW exists \in BOOLEAN, NEW got \in ReadOptional(exists)
  PROVE  /\ got \in {"some", "none", "error"}
         /\ got = "some" => exists
         /\ got = "none" => ~exists
BY DEF ReadOptional, Transact, CallPacket, CheckedResponse, Possible, Replies

Taking == {"entry", "first", "test", "again", "target", "confirm", "done"}

(* Which operation is where, and what it knows of the fans.                *)
StagesFit ==
  /\ at = "idle" <=> op = "none"
  /\ op = "none" => fan = NoFan
  /\ op \notin {"none", "resetAll"} => known = Fans /\ fan \in Fans
  /\ at \in Taking => op \in Custom
  /\ at \in {"target", "confirm"} => op = "setRpm"
  /\ at = "done" => op = "setForced"
  /\ at \in {"resetTest", "attest"} => op = "resetAll"
  /\ op = "resetAll" /\ ~errors => known = Fans

(* The test register is set only where there is one, and a reset without   *)
(* an error has released it.                                               *)
TestFits ==
  /\ test \/ at = "test" => HasTest
  /\ at = "clear" => test
  /\ at = "attest" /\ ~errors => ~test

(* A fan that was handed back stays so until the answer, unless the        *)
(* firmware forces it; and a forced fan keeps the target it was given.     *)
GivenBack == at \in {"release", "clear"} /\ op # "resetAll" /\ "reforces" \notin quirks
               => fan \notin mode
Aimed     == at = "confirm" /\ fan \in mode => fan \notin unsafe

SInv == TypeOK /\ StagesFit /\ TestFits /\ GivenBack /\ Aimed

LEMMA SInvInit == Init => SInv
BY DEF Init, SInv, TypeOK, StagesFit, TestFits, GivenBack, Aimed, HasTest, Stages, Taking, Custom

(* What the step of an operation has to keep, whatever it does to the      *)
(* registers: automatic() that returns leaves nothing of itself behind.    *)
LEMMA HandedBackFits ==
  ASSUME SInv, NEW ok \in BOOLEAN, HandedBack(ok), at \in {"read", "write", "verify", "release", "clear"},
         UNCHANGED <<quirks, unsafe, forced, known, cooling>>,
         mode' \subseteq Fans, test' \in BOOLEAN, test' => test
  PROVE  SInv'
<1>1. \/ /\ op = "resetAll" /\ errors' = (errors \/ ~ok) /\ todo' = todo \ {Subject}
         /\ at' \in {"resetTest", "read"} /\ UNCHANGED <<op, fan, cancelled, result>>
      \/ /\ op # "resetAll" /\ op' = "none" /\ fan' = NoFan /\ at' = "idle" /\ todo' = {}
         /\ errors' = FALSE /\ cancelled' = FALSE /\ result' \in {"ok", "failed", "uncertain"}
  BY DEF HandedBack, Finish
<1> HIDE DEF HandedBack
<1>2. errors' \in BOOLEAN /\ (op' = "resetAll" => op = "resetAll" /\ (~errors' => ~errors))
  BY <1>1, Zenon DEF SInv, TypeOK
<1>3. TypeOK'
  BY <1>1, <1>2 DEF SInv, TypeOK, Stages
<1>4. StagesFit'
  BY <1>1, <1>2 DEF SInv, StagesFit, Taking
<1>5. TestFits'
  BY <1>1 DEF SInv, TestFits, HasTest
<1>6. GivenBack' /\ Aimed'
  BY <1>1 DEF GivenBack, Aimed
<1> QED BY <1>3, <1>4, <1>5, <1>6, Zenon DEF SInv

(* A step within automatic() that leaves the caches alone.                 *)
LEMMA SInvMoved ==
  ASSUME SInv, at \in {"read", "write", "release"}, at' \in {"write", "verify", "clear"},
         at' = "clear" => test /\ at = "release",
         mode' \subseteq mode, UNCHANGED <<quirks, test, unsafe, caches>>,
         UNCHANGED <<op, fan, todo, errors, cancelled, result>>
  PROVE  SInv'
<1>1. TypeOK'
  BY DEF SInv, TypeOK, Stages, caches
<1>2. StagesFit'
  BY DEF SInv, StagesFit, Taking, caches
<1>3. TestFits' /\ Aimed'
  BY DEF SInv, TestFits, Aimed, HasTest
<1>4. GivenBack'
  BY DEF SInv, GivenBack
<1> QED BY <1>1, <1>2, <1>3, <1>4, Zenon DEF SInv

(* What one write of 0 to the test register may do.                        *)
LEMMA ReleasedTest ==
  ASSUME NEW ok \in BOOLEAN, ReleaseTest(ok), mode \subseteq Fans, test \in BOOLEAN
  PROVE  mode' \subseteq Fans /\ test' \in BOOLEAN /\ (test' => test) /\ (ok => ~test')
<1>1. CASE test' = FALSE /\ mode' \in IF "reforces" \in quirks THEN { mode \cup S : S \in SUBSET Fans }
                                     ELSE {mode}
  <2>1. mode' \subseteq Fans
    BY <1>1
  <2> QED BY <1>1, <2>1, Zenon
<1>2. CASE ~ok /\ UNCHANGED <<test, mode>>
  BY <1>2
<1> QED BY <1>1, <1>2, Zenon DEF ReleaseTest

(* A step of the driver that takes a fan.                                  *)
LEMMA SInvTake == SInv /\ Take /\ UNCHANGED quirks => SInv'
<1> SUFFICES ASSUME SInv, Take, UNCHANGED quirks PROVE SInv'
  OBVIOUS
<1> USE DEF SInv, TypeOK, StagesFit, TestFits, GivenBack, Aimed, HasTest, Stages, Taking, Custom,
            Continue, Finish, FallBack, MayControl, registers, caches
<1>1. CASE Enter
  BY <1>1 DEF Enter
<1>2. CASE EnterForced
  BY <1>2 DEF EnterForced
<1>3. CASE UnlockFirst
  BY <1>3, OptionalReads DEF UnlockFirst, PutForced, Unlocked
<1>4. CASE UnlockTest
  BY <1>4 DEF UnlockTest
<1>5. CASE UnlockAgain
  BY <1>5 DEF UnlockAgain, PutForced, Unlocked
<1>6. CASE WriteTarget
  BY <1>6 DEF WriteTarget
<1>7. CASE Confirm
  BY <1>7 DEF Confirm
<1>8. CASE ForcedModeSet
  BY <1>8 DEF ForcedModeSet
<1> QED BY <1>1, <1>2, <1>3, <1>4, <1>5, <1>6, <1>7, <1>8, Zenon DEF Take

(* A step that hands a fan back.  Only the release of the test register    *)
(* needs a fact of its own: on faithful firmware it forces nothing.        *)
LEMMA SInvGive == SInv /\ Give /\ UNCHANGED quirks => SInv'
<1> SUFFICES ASSUME SInv, Give, UNCHANGED quirks PROVE SInv'
  OBVIOUS
<1> DEFINE Back == \E ok \in BOOLEAN : HandedBack(ok)
<1>1. /\ mode \subseteq Fans /\ test \in BOOLEAN
      /\ \A S \in SUBSET Fans : mode \cup S \subseteq Fans
  BY DEF SInv, TypeOK
<1>2. ASSUME Back, at \in {"read", "write", "verify", "release", "clear"},
             UNCHANGED <<unsafe, forced, known, cooling>>,
             mode' \subseteq Fans, test' \in BOOLEAN, test' => test
      PROVE  SInv'
  BY <1>2, HandedBackFits, Zenon
<1> HIDE DEF Back
<1>3. CASE ReadMode
  <2>1. CASE Back
    BY <1>1, <1>2, <1>3, <2>1 DEF ReadMode, registers, caches
  <2>2. CASE ~Back
    <3>1. /\ at = "read" /\ at' \in {"write", "verify"}
          /\ UNCHANGED <<registers, caches, op, fan, todo, errors, cancelled, result>>
      BY <1>3, <2>2 DEF ReadMode, Continue, Back
    <3>2. mode' \subseteq mode /\ UNCHANGED <<test, unsafe>>
      BY <3>1 DEF registers
    <3> QED BY <3>1, <3>2, SInvMoved
  <2> QED BY <2>1, <2>2, Zenon
<1>4. CASE WriteMode
  <2>1. mode' \subseteq mode /\ UNCHANGED <<test, unsafe, caches>> /\ at = "write"
    BY <1>4 DEF WriteMode, PutAutomatic
  <2>2. CASE Back
    BY <1>1, <1>2, <2>1, <2>2 DEF caches
  <2>3. CASE ~Back
    <3>1. at' \in {"write", "verify"} /\ UNCHANGED <<op, fan, todo, errors, cancelled, result>>
      BY <1>4, <2>3, Zenon DEF WriteMode, Continue, Back
    <3> QED BY <2>1, <3>1, SInvMoved
  <2> QED BY <2>2, <2>3, Zenon
<1>5. CASE VerifyMode
  <2>1. CASE Back /\ UNCHANGED forced
    BY <1>1, <1>2, <1>5, <2>1 DEF VerifyMode, registers
  <2>2. CASE ~(Back /\ UNCHANGED forced)
    <3>1. /\ at = "verify" /\ at' = "release" /\ Subject \notin mode
          /\ forced' = forced \ {Subject}
          /\ UNCHANGED <<registers, known, cooling, op, fan, todo, errors, cancelled, result>>
      BY <1>5, <2>2, Zenon DEF VerifyMode, Continue, Back
    <3>2. TypeOK'
      BY <3>1 DEF SInv, TypeOK, Stages, registers
    <3>3. StagesFit'
      BY <3>1 DEF SInv, StagesFit, Taking
    <3>4. TestFits' /\ Aimed'
      BY <3>1 DEF SInv, TestFits, Aimed, HasTest, registers
    <3>5. GivenBack'
      BY <3>1 DEF GivenBack, Subject, registers
    <3> QED BY <3>2, <3>3, <3>4, <3>5, Zenon DEF SInv
  <2> QED BY <2>1, <2>2, Zenon
<1>6. CASE Release
  <2>1. at = "release" /\ UNCHANGED <<registers, caches>>
    BY <1>6, Zenon DEF Release
  <2>2. CASE Back
    BY <1>1, <1>2, <2>1, <2>2 DEF registers, caches
  <2>3. CASE ~Back
    <3>1. /\ test /\ at' = "clear"
          /\ UNCHANGED <<op, fan, todo, errors, cancelled, result>>
      <4>1. PICK got \in ReadOptional(HasTest) : IF got = "some" /\ test THEN Continue("clear")
                                                  ELSE HandedBack(got # "error")
        BY <1>6, <2>3, Zenon DEF Release, Back
      <4>2. got = "some" /\ test
        BY <2>3, <4>1, Zenon DEF Back
      <4> QED BY <4>1, <4>2, Zenon DEF Continue
    <3>2. mode' \subseteq mode /\ UNCHANGED <<test, unsafe>>
      BY <2>1 DEF registers
    <3> QED BY <2>1, <3>1, <3>2, SInvMoved
  <2> QED BY <2>2, <2>3, Zenon
<1>7. CASE ClearTest
  <2>1. PICK ok \in BOOLEAN : ReleaseTest(ok) /\ HandedBack(ok)
    BY <1>7, Zenon DEF ClearTest
  <2>2. at = "clear" /\ UNCHANGED <<unsafe, caches>>
    BY <1>7, Zenon DEF ClearTest
  <2>3. mode' \subseteq Fans /\ test' \in BOOLEAN /\ (test' => test)
    BY <1>1, <2>1, ReleasedTest
  <2>4. Back
    BY <2>1, Zenon DEF Back
  <2> QED BY <1>2, <2>2, <2>3, <2>4 DEF caches
<1>8. CASE ResetTest
  <2>1. /\ at = "resetTest" /\ at' = "attest"
        /\ UNCHANGED <<unsafe, caches, op, fan, todo, cancelled, result>>
    BY <1>8, Zenon DEF ResetTest
  <2>2. /\ mode' \subseteq Fans /\ test' \in BOOLEAN /\ (test' => test)
        /\ errors' \in BOOLEAN /\ (~errors' => ~errors /\ ~test')
    <3>1. PICK got \in ReadOptional(HasTest) :
            IF got = "some" /\ test
              THEN \E ok \in BOOLEAN : ReleaseTest(ok) /\ errors' = (errors \/ ~ok)
              ELSE UNCHANGED <<test, mode>> /\ errors' = (errors \/ got = "error")
      BY <1>8, Zenon DEF ResetTest
    <3>2. CASE got = "some" /\ test
      <4>1. PICK ok \in BOOLEAN : ReleaseTest(ok) /\ errors' = (errors \/ ~ok)
        BY <3>1, <3>2, Zenon
      <4>2. mode' \subseteq Fans /\ test' \in BOOLEAN /\ (test' => test) /\ (ok => ~test')
        BY <1>1, <4>1, ReleasedTest
      <4> QED BY <4>1, <4>2, Zenon
    <3>3. CASE ~(got = "some" /\ test)
      <4>1. UNCHANGED <<test, mode>> /\ errors' = (errors \/ got = "error")
        BY <3>1, <3>3, Zenon
      <4>2. got # "error" => ~test
        BY <3>3, OptionalReads, Zenon DEF SInv, TestFits
      <4> QED BY <1>1, <4>1, <4>2, Zenon
    <3> QED BY <3>2, <3>3, Zenon
  <2>3. op = "resetAll"
    BY <2>1 DEF SInv, StagesFit
  <2>4. TypeOK'
    BY <2>1, <2>2 DEF SInv, TypeOK, Stages, caches
  <2>5. StagesFit'
    BY <2>1, <2>2, <2>3 DEF SInv, StagesFit, Taking, caches
  <2>6. TestFits'
    BY <2>1, <2>2 DEF SInv, TestFits, HasTest
  <2>7. GivenBack' /\ Aimed'
    BY <2>1 DEF GivenBack, Aimed
  <2> QED BY <2>4, <2>5, <2>6, <2>7, Zenon DEF SInv
<1>9. CASE Attest
  <2>1. /\ op' = "none" /\ fan' = NoFan /\ at' = "idle" /\ todo' = {}
        /\ errors' = FALSE /\ cancelled' = FALSE /\ result' \in {"ok", "failed"}
        /\ cooling' = {} /\ UNCHANGED <<registers, forced, known>>
    BY <1>9 DEF Attest, Finish
  <2>2. TypeOK'
    BY <2>1 DEF SInv, TypeOK, Stages, registers
  <2>3. StagesFit'
    BY <2>1 DEF StagesFit, Taking
  <2>4. TestFits' /\ GivenBack' /\ Aimed'
    BY <2>1 DEF SInv, TestFits, GivenBack, Aimed, HasTest, registers
  <2> QED BY <2>2, <2>3, <2>4, Zenon DEF SInv
<1> QED BY <1>3, <1>4, <1>5, <1>6, <1>7, <1>8, <1>9, Zenon DEF Give

LEMMA SInvCalls ==
  SInv /\ (CallReset \/ \E o \in Operations, f \in Fans : Call(o, f)) /\ UNCHANGED quirks => SInv'
<1> SUFFICES ASSUME SInv, CallReset \/ \E o \in Operations, f \in Fans : Call(o, f),
                    UNCHANGED quirks
             PROVE  SInv'
  OBVIOUS
<1> USE DEF SInv, TypeOK, StagesFit, TestFits, GivenBack, Aimed, HasTest, Stages, Taking, Custom,
            registers, caches
<1>1. CASE CallReset
  BY <1>1 DEF CallReset, Idle
<1>2. ASSUME NEW o \in Operations, NEW f \in Fans, Call(o, f) PROVE SInv'
  BY <1>2, OperationsAssumption DEF Call, Idle
<1> QED BY <1>1, <1>2

(* The firmware, time and the death of the daemon.                         *)
LEMMA SInvEnvironment == SInv /\ Environment /\ UNCHANGED quirks => SInv'
<1> SUFFICES ASSUME SInv, Environment, UNCHANGED quirks PROVE SInv'
  OBVIOUS
<1> USE DEF SInv, TypeOK, StagesFit, TestFits, GivenBack, Aimed, HasTest, Stages, Taking, Custom,
            registers, caches, process
<1>1. ASSUME NEW f \in Fans, FirmwareTakes(f) \/ FirmwareAims(f) \/ CoolDown(f) PROVE SInv'
  BY <1>1 DEF FirmwareTakes, FirmwareAims, CoolDown
<1>2. CASE Cancel
  BY <1>2 DEF Cancel
<1>3. CASE Restart
  BY <1>3 DEF Restart
<1> QED BY <1>1, <1>2, <1>3, Zenon DEF Environment

(* A callback that panics leaves the operation it was in.                  *)
Abandon == Finish("uncertain") /\ UNCHANGED <<quirks, registers, caches>>

LEMMA SInvStep == SInv /\ (Next \/ Abandon \/ UNCHANGED vars) => SInv'
<1>1. ASSUME SInv, Abandon PROVE SInv'
  BY <1>1 DEF Abandon, Finish, SInv, TypeOK, StagesFit, TestFits, GivenBack, Aimed, HasTest, Stages,
         Taking, Custom, registers, caches
<1>2. SInv /\ UNCHANGED vars => SInv'
  BY DEF vars, process, SInv, TypeOK, StagesFit, TestFits, GivenBack, Aimed, HasTest,
         registers, caches
<1>3. SInv /\ Next => SInv'
  BY SInvTake, SInvGive, SInvCalls, SInvEnvironment, Zenon DEF Next
<1> QED BY <1>1, <1>2, <1>3, Zenon

-----------------------------------------------------------------------------
(* The contract.                                                           *)

LEMMA ContractInit == Init => Contract!Init
BY DEF Init, Contract!Init

(* What the driver does to the modes, the operation and its answer is a    *)
(* step of the contract, or none.                                          *)
LEMMA ContractStep == SInv /\ (Next \/ Abandon \/ UNCHANGED vars) => [Contract!Next]_(Contract!vars)
<1> SUFFICES ASSUME SInv, Next \/ Abandon \/ UNCHANGED vars PROVE [Contract!Next]_(Contract!vars)
  OBVIOUS
<1> DEFINE Stutters == UNCHANGED <<mode, op, fan, result>>
<1>1. UNCHANGED quirks
  BY Zenon DEF Next, Abandon, vars
<1>2. Stutters => UNCHANGED Contract!vars
  BY <1>1 DEF Contract!vars
<1>3. ASSUME mode' \in SUBSET mode, UNCHANGED <<op, fan, result>> PROVE Contract!Next
  BY <1>1, <1>3 DEF Contract!Next, Contract!Return
<1>4. ASSUME op \in Custom, mode' \in {mode, mode \cup {fan}}, UNCHANGED <<op, fan, result>>
      PROVE  [Contract!Next]_(Contract!vars)
  BY <1>1, <1>4 DEF Contract!Next, Contract!Force, Contract!vars, Contract!Custom, Custom
<1>5. ASSUME op' = "none", fan' = NoFan, result' = "uncertain", UNCHANGED mode
      PROVE  Contract!Next
  BY <1>1, <1>5 DEF Contract!Next, Contract!GiveUp
<1> HIDE DEF Stutters
<1>6. CASE UNCHANGED vars
  <2>1. Stutters
    BY <1>6, Zenon DEF Stutters, vars, registers, process
  <2> QED BY <1>2, <2>1, Zenon
<1>7. CASE Abandon
  BY <1>5, <1>7, Zenon DEF Abandon, Finish, registers
<1>8. CASE Environment
  <2>1. CASE Restart
    BY <1>5, <2>1, Zenon DEF Restart, registers
  <2>2. CASE Cancel
    BY <1>2, <2>2, Zenon DEF Cancel, registers, Stutters
  <2>3. ASSUME NEW f \in Fans, FirmwareTakes(f) PROVE Contract!Next
    <3>1. mode' \in SUBSET mode /\ UNCHANGED <<op, fan, result>>
      BY <2>3 DEF FirmwareTakes, process
    <3> QED BY <1>3, <3>1, Zenon
  <2>4. ASSUME NEW f \in Fans, FirmwareAims(f) \/ CoolDown(f) PROVE Stutters
    BY <2>4, Zenon DEF FirmwareAims, CoolDown, process, registers, Stutters
  <2> QED BY <1>2, <1>8, <2>1, <2>2, <2>3, <2>4, Zenon DEF Environment
<1>9. CASE CallReset
  BY <1>1, <1>9 DEF CallReset, Idle, SInv, StagesFit, registers, Contract!Next, Contract!Begin,
                    Contract!Calls
<1>10. ASSUME NEW o \in Operations, NEW f \in Fans, Call(o, f) PROVE Contract!Next
  BY <1>1, <1>10, OperationsAssumption
     DEF Call, Idle, SInv, StagesFit, registers, Contract!Next, Contract!Begin,
         Contract!Calls, Contract!Custom, Contract!GiveUp
<1>11. CASE Take
  <2>1. CASE Enter \/ EnterForced \/ UnlockTest \/ WriteTarget
    <3>1. Stutters
      BY <2>1 DEF Enter, EnterForced, UnlockTest, WriteTarget, FallBack, Continue, registers, Stutters
    <3> QED BY <1>2, <3>1, Zenon
  <2>2. CASE UnlockFirst \/ UnlockAgain
    <3>1. op \in Custom /\ mode' \in {mode, mode \cup {fan}} /\ UNCHANGED <<op, fan, result>>
      BY <2>2 DEF UnlockFirst, UnlockAgain, PutForced, Unlocked, FallBack, Continue,
                  SInv, StagesFit, Taking
    <3> QED BY <1>4, <3>1, Zenon
  <2>3. CASE Confirm \/ ForcedModeSet
    <3>1. Stutters \/ (op \in Custom /\ Finish("ok") /\ UNCHANGED mode)
      BY <2>3 DEF Confirm, ForcedModeSet, FallBack, registers, SInv, StagesFit, Taking, Stutters
    <3>2. op \in Custom /\ Finish("ok") /\ UNCHANGED mode => Contract!Next
      BY <1>1 DEF Finish, SInv, TypeOK, Custom, Contract!Next, Contract!Answer, Contract!Attested,
                  Contract!Results, Contract!Custom
    <3> QED BY <1>2, <3>1, <3>2, Zenon
  <2> QED BY <1>11, <2>1, <2>2, <2>3, Zenon DEF Take
<1>12. CASE Give
  <2>1. ASSUME NEW ok \in BOOLEAN, HandedBack(ok), at \in {"read", "write", "release", "clear", "verify"},
               ok => "reforces" \in quirks \/ op = "resetAll" \/ fan \notin mode,
               mode' \in IF "reforces" \in quirks THEN SUBSET Fans ELSE SUBSET mode
        PROVE  Contract!Next
    <3>1. CASE op = "resetAll"
      BY <1>1, <2>1, <3>1 DEF HandedBack, Contract!Next, Contract!Return, Contract!Force
    <3>2. CASE op # "resetAll"
      <4>1. op \in {"setRpm", "setForced", "setAutomatic"}
        BY <2>1, <3>2, OperationsAssumption DEF SInv, TypeOK, StagesFit
      <4>2. op' = "none" /\ fan' = NoFan
            /\ result' = IF ok THEN IF op = "setAutomatic" THEN "ok" ELSE "failed" ELSE "uncertain"
        BY <2>1, <4>1 DEF HandedBack, Finish
      <4>3. Contract!Attested(result')
        BY <1>1, <2>1, <4>1, <4>2 DEF Contract!Attested, Contract!Custom
      <4>4. mode \subseteq Fans
        BY DEF SInv, TypeOK
      <4> QED BY <1>1, <2>1, <4>1, <4>2, <4>3, <4>4
              DEF Contract!Next, Contract!Answer, Contract!Results
    <3> QED BY <3>1, <3>2
  <2>2. mode \subseteq Fans
    BY DEF SInv, TypeOK
  <2>3. CASE ReadMode
    <3>1. Stutters \/ (HandedBack(FALSE) /\ at = "read" /\ UNCHANGED mode)
      BY <2>3 DEF ReadMode, Continue, registers, Stutters
    <3> QED BY <1>2, <2>1, <2>2, <3>1
  <2>4. CASE WriteMode
    <3>1. mode' \in SUBSET mode /\ at = "write"
          /\ (UNCHANGED <<op, fan, result>> \/ HandedBack(FALSE))
      BY <2>4 DEF WriteMode, PutAutomatic, Continue
    <3> QED BY <1>3, <2>1, <2>2, <3>1
  <2>5. CASE VerifyMode
    <3>1. Stutters \/ (HandedBack(FALSE) /\ at = "verify" /\ UNCHANGED mode)
      BY <2>5 DEF VerifyMode, Continue, registers, Stutters
    <3> QED BY <1>2, <2>1, <2>2, <3>1
  <2>6. CASE Release
    <3>1. Stutters \/ \E ok \in BOOLEAN :
            HandedBack(ok) /\ at = "release" /\ UNCHANGED mode /\ (ok => mode # {} \/ TRUE)
      BY <2>6, OptionalReads DEF Release, Continue, registers, Stutters
    <3>2. "reforces" \in quirks \/ op = "resetAll" \/ fan \notin mode
      BY <2>6 DEF Release, SInv, GivenBack
    <3> QED BY <1>2, <2>1, <2>2, <3>1, <3>2
  <2>7. CASE ClearTest
    <3>1. \E ok \in BOOLEAN : HandedBack(ok) /\ ReleaseTest(ok)
      BY <2>7, Zenon DEF ClearTest
    <3>2. "reforces" \in quirks \/ op = "resetAll" \/ fan \notin mode
      BY <2>7 DEF ClearTest, SInv, GivenBack
    <3>3. at = "clear"
      BY <2>7, Zenon DEF ClearTest
    <3>4. \A ok \in BOOLEAN : ReleaseTest(ok) =>
            mode' \in IF "reforces" \in quirks THEN SUBSET Fans ELSE SUBSET mode
      BY <2>2 DEF ReleaseTest
    <3> QED BY <2>1, <3>1, <3>2, <3>3, <3>4, Zenon
  <2>8. CASE ResetTest
    <3>1. UNCHANGED <<op, fan, result>>
          /\ mode' \in IF "reforces" \in quirks THEN SUBSET Fans ELSE {mode}
      BY <2>2, <2>8 DEF ResetTest, ReleaseTest
    <3> QED BY <1>1, <1>2, <3>1 DEF Contract!Next, Contract!Force, Stutters
  <2>9. CASE Attest
    <3>1. op = "resetAll" /\ UNCHANGED mode
          /\ (Finish("failed") \/ (Finish("ok") /\ mode = {}))
      <4>1. /\ at = "attest" /\ UNCHANGED mode
            /\ (~errors /\ mode \cap (known \cup forced) = {} /\ Finish("ok")) \/ Finish("failed")
        BY <2>9, Zenon DEF Attest, registers
      <4>2. op = "resetAll" /\ (~errors => known = Fans)
        BY <4>1 DEF SInv, StagesFit
      <4>3. ~errors /\ mode \cap (known \cup forced) = {} => mode = {}
        BY <2>2, <4>2
      <4> QED BY <4>1, <4>2, <4>3, Zenon
    <3>2. op' = "none" /\ fan' = NoFan /\ result' \in {"ok", "failed"}
          /\ (result' = "ok" => mode' = {})
      BY <3>1 DEF Finish
    <3>3. Contract!Attested(result')
      BY <3>1, <3>2 DEF Contract!Attested, Contract!Custom
    <3> QED BY <1>1, <2>2, <3>1, <3>2, <3>3 DEF Contract!Next, Contract!Answer, Contract!Results
  <2> QED BY <1>12, <2>3, <2>4, <2>5, <2>6, <2>7, <2>8, <2>9, Zenon DEF Give
<1> QED BY <1>6, <1>7, <1>8, <1>9, <1>10, <1>11, <1>12, Zenon DEF Next

-----------------------------------------------------------------------------
(* What the driver confirms.                                               *)

LEMMA TargetStep ==
  SInv /\ (Next \/ Abandon \/ UNCHANGED vars) =>
    (Answers("setRpm", "ok") => fan \in mode' /\ fan \notin unsafe')
<1> SUFFICES ASSUME SInv, Next \/ Abandon \/ UNCHANGED vars, Answers("setRpm", "ok")
             PROVE  fan \in mode' /\ fan \notin unsafe'
  OBVIOUS
<1>0. op = "setRpm" /\ op' # op /\ result' = "ok"
  BY DEF Answers
<1>1. ASSUME NEW ok \in BOOLEAN PROVE ~HandedBack(ok)
  BY <1>0 DEF HandedBack, Finish
<1>2. ~Give
  BY <1>0, <1>1 DEF Give, ReadMode, WriteMode, VerifyMode, Release, ClearTest, ResetTest, Attest,
                    Continue, SInv, StagesFit
<1>3. ~Environment /\ ~Abandon /\ ~UNCHANGED vars
  BY <1>0 DEF Environment, FirmwareTakes, FirmwareAims, CoolDown, Cancel, Restart, process,
              Abandon, Finish, vars
<1>4. ~CallReset /\ \A o \in Operations, f \in Fans : ~Call(o, f)
  BY <1>0 DEF CallReset, Call, Idle, SInv, StagesFit
<1>5. Confirm
  <2>1. Take
    BY <1>2, <1>3, <1>4, Zenon DEF Next
  <2>2. ~Enter /\ ~EnterForced /\ ~UnlockFirst /\ ~UnlockTest /\ ~UnlockAgain /\ ~WriteTarget
    BY <1>0 DEF Enter, EnterForced, UnlockFirst, UnlockTest, UnlockAgain, WriteTarget, FallBack,
                Continue, Unlocked
  <2>3. ~ForcedModeSet
    BY <1>0 DEF ForcedModeSet, SInv, StagesFit
  <2> QED BY <2>1, <2>2, <2>3, Zenon DEF Take
<1> QED BY <1>0, <1>5 DEF Confirm, FallBack, registers, SInv, Aimed

LEMMA ReleaseStep ==
  SInv /\ (Next \/ Abandon \/ UNCHANGED vars) =>
    /\ Answers("resetAll", "ok") => mode' = {} /\ ~test'
    /\ Answers("setAutomatic", "ok") => mode' # {} \/ ~test'
<1> SUFFICES ASSUME SInv, Next \/ Abandon \/ UNCHANGED vars,
                    NEW o \in {"resetAll", "setAutomatic"}, Answers(o, "ok")
             PROVE  IF o = "resetAll" THEN mode' = {} /\ ~test' ELSE mode' # {} \/ ~test'
  OBVIOUS
<1>0. op = o /\ op' # op /\ result' = "ok"
  BY DEF Answers
<1>1. ~Environment /\ ~Abandon /\ ~UNCHANGED vars
  BY <1>0 DEF Environment, FirmwareTakes, FirmwareAims, CoolDown, Cancel, Restart, process,
              Abandon, Finish, vars
<1>2. ~CallReset /\ \A c \in Operations, f \in Fans : ~Call(c, f)
  BY <1>0 DEF CallReset, Call, Idle, SInv, StagesFit
<1>3. ~Take
  BY <1>0 DEF Take, Enter, EnterForced, UnlockFirst, UnlockTest, UnlockAgain, WriteTarget, Confirm,
              ForcedModeSet, SInv, StagesFit, Taking, Custom
<1>4. Give
  BY <1>1, <1>2, <1>3, Zenon DEF Next
<1>5. ASSUME NEW ok \in BOOLEAN, HandedBack(ok) PROVE o = "setAutomatic" /\ ok
  BY <1>0, <1>5 DEF HandedBack, Finish
<1>6. ~ReadMode /\ ~WriteMode /\ ~VerifyMode /\ ~ResetTest
  BY <1>0, <1>5 DEF ReadMode, WriteMode, VerifyMode, ResetTest, Continue
<1>7. CASE Release
  <2>1. ~HandedBack(FALSE)
    BY <1>5, Zenon
  <2>2. ~Continue("clear")
    BY <1>0 DEF Continue
  <2>3. \/ mode # {} /\ HandedBack(TRUE)
        \/ \E got \in ReadOptional(HasTest) :
             IF got = "some" /\ test THEN Continue("clear") ELSE HandedBack(got # "error")
    BY <1>7, <2>1, Zenon DEF Release
  <2>4. CASE mode # {} /\ HandedBack(TRUE)
    BY <1>5, <1>7, <2>4 DEF Release, registers
  <2>5. ASSUME NEW got \in ReadOptional(HasTest), ~(got = "some" /\ test),
               HandedBack(got # "error")
        PROVE  o = "setAutomatic" /\ ~test'
    <3>1. o = "setAutomatic" /\ got # "error"
      BY <1>5, <2>5, Zenon
    <3>2. ~test
      BY <2>5, <3>1, OptionalReads DEF SInv, TestFits, HasTest
    <3> QED BY <1>7, <3>1, <3>2 DEF Release, registers
  <2> QED BY <2>2, <2>3, <2>4, <2>5, Zenon
<1>8. CASE ClearTest
  BY <1>5, <1>8 DEF ClearTest, ReleaseTest
<1>9. CASE Attest
  BY <1>0, <1>9 DEF Attest, registers, Finish, SInv, TypeOK, StagesFit, TestFits
<1> QED BY <1>4, <1>6, <1>7, <1>8, <1>9, Zenon DEF Give

-----------------------------------------------------------------------------
(* The helper and the kernel.                                              *)

(* Every step of the helper, its thread and the kernel is one of the       *)
(* driver, or none, or abandons the operation of the callback.             *)
LEMMA PowerSteps == [PowerNext]_allVars => Next \/ Abandon \/ UNCHANGED vars
<1> SUFFICES ASSUME [PowerNext]_allVars PROVE Next \/ Abandon \/ UNCHANGED vars
  OBVIOUS
<1>1. CASE Driver
  BY <1>1, Zenon DEF Driver, HelperCall, HelperReset, Next
<1>2. CASE Surroundings
  BY <1>2, Zenon DEF Surroundings, Environment, Next
<1>3. CASE RestartAll
  BY <1>3, Zenon DEF RestartAll, Environment, Next
<1>4. CASE WillSleep
  BY <1>4, Zenon DEF WillSleep, Next
<1>5. CASE CallbackPanics
  BY <1>5, Zenon DEF CallbackPanics, Abandon
<1>6. CASE \/ Register \/ WakeReceived \/ Acknowledge \/ FallAsleep \/ WaitedLongEnough \/ WakeUp
           \/ UNCHANGED allVars
  BY <1>6, Zenon DEF Register, WakeReceived, Acknowledge, FallAsleep, WaitedLongEnough, WakeUp, allVars
<1> QED BY <1>1, <1>2, <1>3, <1>4, <1>5, <1>6, Zenon DEF PowerNext

LEMMA SInvAlways == PowerSpec => []SInv
<1>1. PowerInit => SInv
  BY SInvInit DEF PowerInit
<1>2. SInv /\ [PowerNext]_allVars => SInv'
  BY SInvStep, PowerSteps, Zenon
<1> QED BY <1>1, <1>2, PTL DEF PowerSpec

(* The driver, under everything the helper and a sleeping machine do to    *)
(* it, keeps the contract that the helper relies on.                       *)
THEOREM DriverKeepsContract == PowerSpec => ContractKept
<1>1. PowerInit => Contract!Init
  BY ContractInit DEF PowerInit
<1>2. SInv /\ [PowerNext]_allVars => [Contract!Next]_(Contract!vars)
  BY ContractStep, PowerSteps, Zenon
<1> QED BY <1>1, <1>2, SInvAlways, PTL DEF PowerSpec, ContractKept, Contract!Spec

(* A confirmed target is in force, and a confirmed reset has left every    *)
(* fan automatic and the test register released.                           *)
THEOREM ConfirmationIsInForce == PowerSpec => ConfirmedIsInForce
<1>1. SInv /\ [PowerNext]_allVars =>
        [Answers("setRpm", "ok") => fan \in mode' /\ fan \notin unsafe']_vars
  BY TargetStep, PowerSteps, Zenon
<1>2. SInv /\ [PowerNext]_allVars =>
        [/\ Answers("resetAll", "ok") => mode' = {} /\ ~test'
         /\ Answers("setAutomatic", "ok") => mode' # {} \/ ~test']_vars
  BY ReleaseStep, PowerSteps, Zenon
<1> QED BY <1>1, <1>2, SInvAlways, PTL
        DEF PowerSpec, ConfirmedIsInForce, TargetIsSet, TestIsReleased

Notices == {"willSleep", "wake"}

(* The thread and what it has been told: a fan is taken by nobody from the *)
(* notice of a sleep to that of the wake, and a callback that has handed   *)
(* everything back leaves nothing that could force a fan.                  *)
CallbackFits ==
  /\ machine \in {"awake", "falling", "asleep"} /\ queue \in Seq(Notices)
  /\ monitor \in {"none", "idle", "resetting", "acknowledging"}
  /\ sleeping \in BOOLEAN /\ owed \in BOOLEAN
  /\ monitor = "none" => queue = <<>> /\ ~sleeping
  /\ monitor \in {"resetting", "acknowledging"} => sleeping
  /\ monitor = "resetting" => op = "resetAll" /\ owed
  /\ sleeping => op \in {"none", "resetAll"}
  /\ monitor = "acknowledging" /\ ~owed => mode = {} /\ ~test

(* The last notice a machine that is awake has sent is that of its wake.   *)
LastNotice ==
  machine = "awake" /\ monitor # "none" =>
    IF queue = <<>> THEN ~sleeping ELSE queue[Len(queue)] = "wake"

PowerInv == SInv /\ CallbackFits /\ LastNotice

LEMMA PowerInvInit == PowerInit => PowerInv
<1> SUFFICES ASSUME PowerInit PROVE PowerInv
  OBVIOUS
<1>1. /\ Init /\ machine = "awake" /\ queue = <<>> /\ monitor = "none"
      /\ sleeping = FALSE /\ owed = TRUE /\ op = "none"
  BY DEF PowerInit, Init
<1>2. sleeping \in BOOLEAN /\ owed \in BOOLEAN /\ ~sleeping
  BY <1>1, Zenon
<1>3. CallbackFits
  BY <1>1, <1>2 DEF CallbackFits
<1> QED BY <1>1, <1>2, <1>3, SInvInit DEF PowerInv, LastNotice

(* Notices are appended at the end and taken from the front.               *)
LEMMA NoticesMove ==
  ASSUME NEW q \in Seq(Notices)
  PROVE  /\ \A n \in Notices : /\ Append(q, n) \in Seq(Notices) /\ Append(q, n) # <<>>
                               /\ Append(q, n)[Len(Append(q, n))] = n
         /\ q # <<>> => /\ Tail(q) \in Seq(Notices)
                        /\ Tail(q) = <<>> => q[Len(q)] = Head(q)
                        /\ Tail(q) # <<>> => Tail(q)[Len(Tail(q))] = q[Len(q)]
BY DEF Notices

(* With nothing forced and the test register released, nothing that runs   *)
(* while the machine sleeps forces a fan.                                  *)
LEMMA QuietStays ==
  ASSUME SInv, op \in {"none", "resetAll"}, mode = {}, ~test,
         Take \/ Give \/ CallReset \/ Environment
  PROVE  mode' = {} /\ ~test'
<1> USE DEF registers, process
<1>1. ~Take
  BY DEF Take, Enter, EnterForced, UnlockFirst, UnlockTest, UnlockAgain, WriteTarget, Confirm,
         ForcedModeSet, SInv, StagesFit, Taking, Custom
<1>2. CASE Give
  <2>1. ~ClearTest
    BY DEF ClearTest, SInv, TestFits
  <2>2. CASE ResetTest
    BY <2>2 DEF ResetTest
  <2>3. CASE ReadMode \/ VerifyMode \/ Release \/ Attest
    <3>1. UNCHANGED <<mode, test>>
      BY <2>3, Zenon DEF ReadMode, VerifyMode, Release, Attest
    <3> QED BY <3>1
  <2>4. CASE WriteMode
    BY <2>4 DEF WriteMode, PutAutomatic
  <2> QED BY <1>2, <2>1, <2>2, <2>3, <2>4, Zenon DEF Give
<1>3. CASE CallReset
  BY <1>3 DEF CallReset
<1>4. CASE Environment
  BY <1>4 DEF Environment, FirmwareTakes, FirmwareAims, CoolDown, Cancel, Restart
<1> QED BY <1>1, <1>2, <1>3, <1>4

LEMMA PowerInvStep == PowerInv /\ [PowerNext]_allVars => PowerInv'
<1> SUFFICES ASSUME PowerInv, [PowerNext]_allVars PROVE PowerInv'
  OBVIOUS
<1>0. SInv /\ SInv' /\ CallbackFits /\ LastNotice
  BY SInvStep, PowerSteps, Zenon DEF PowerInv
<1> SUFFICES CallbackFits' /\ LastNotice'
  BY <1>0 DEF PowerInv
<1> USE DEF CallbackFits, LastNotice, kernel, engine
<1>1. CASE Driver
  <2>1. UNCHANGED <<machine, queue, sleeping>> /\ ResetEnds
        /\ (HelperCall \/ CallReset \/ Take \/ Give)
    BY <1>1, Zenon DEF Driver, kernel, HelperReset
  <2>2. op \in {"none", "resetAll"} /\ sleeping => op' \in {"none", "resetAll"} /\ ~HelperCall
    <3>1. ~sleeping \/ ~HelperCall
      BY Zenon DEF HelperCall
    <3>2. CallReset => op' = "resetAll"
      BY Zenon DEF CallReset
    <3>3. op \in {"none", "resetAll"} => ~Take
      BY <1>0 DEF Take, Enter, EnterForced, UnlockFirst, UnlockTest, UnlockAgain, WriteTarget, Confirm,
         ForcedModeSet, SInv, StagesFit, Taking, Custom
    <3>4. op \in {"none", "resetAll"} /\ Give => op' \in {"none", "resetAll"}
      BY <1>0 DEF Give, ReadMode, WriteMode, VerifyMode, Release, ClearTest, ResetTest, Attest,
                  HandedBack, Finish, Continue
    <3> QED BY <2>1, <3>1, <3>2, <3>3, <3>4
  <2>3. monitor = "resetting" => op' \in {"none", "resetAll"}
    BY <1>0, <2>2
  <2>4. op = "resetAll" /\ op' = "none" /\ result' = "ok" => mode' = {} /\ ~test'
    BY <1>0, <1>1, ReleaseStep, PowerSteps, Zenon DEF Answers
  <2>5. monitor = "acknowledging" /\ ~owed => mode' = {} /\ ~test'
    BY <1>0, <2>1, <2>2, QuietStays
  <2>6. CallbackFits'
    BY <1>0, <2>1, <2>2, <2>3, <2>4, <2>5 DEF ResetEnds
  <2>7. LastNotice'
    BY <1>0, <2>1 DEF ResetEnds
  <2> QED BY <2>6, <2>7
<1>2. CASE Register
  BY <1>0, <1>2 DEF Register, vars, registers, process
<1>3. CASE Surroundings
  <2>1. UNCHANGED <<machine, queue, monitor, sleeping, owed, op>> /\ Environment
    BY <1>3, Zenon DEF Surroundings, Environment, kernel, engine, FirmwareTakes, FirmwareAims,
                       CoolDown, Cancel, process
  <2>2. monitor = "acknowledging" /\ ~owed => mode' = {} /\ ~test'
    BY <1>0, <2>1, QuietStays
  <2> QED BY <1>0, <2>1, <2>2
<1>4. CASE RestartAll
  <2>1. /\ monitor' = "none" /\ queue' = <<>> /\ machine' = machine
        /\ sleeping' \in BOOLEAN /\ ~sleeping' /\ owed' \in BOOLEAN
    BY <1>4, Zenon DEF RestartAll
  <2> QED BY <1>0, <2>1
<1>5. CASE WillSleep
  BY <1>0, <1>5, NoticesMove DEF WillSleep, Receives, CallReset
<1>6. CASE WakeReceived
  BY <1>0, <1>6, NoticesMove DEF WakeReceived, Receives, vars, registers, process
<1>7. CASE CallbackPanics
  <2>1. /\ UNCHANGED <<machine, queue, sleeping, owed>>
        /\ monitor = "resetting" /\ monitor' = "acknowledging"
    BY <1>7, Zenon DEF CallbackPanics
  <2>2. op' = "none"
    BY <1>7, Zenon DEF CallbackPanics, Finish
  <2> QED BY <1>0, <2>1, <2>2
<1>8. CASE Acknowledge
  BY <1>0, <1>8 DEF Acknowledge, vars, registers, process
<1>9. CASE FallAsleep
  <2>1. "willSleep" \in Notices
    BY DEF Notices
  <2> QED BY <1>0, <1>9, <2>1, NoticesMove DEF FallAsleep, Send, vars, registers, process
<1>10. CASE WaitedLongEnough
  BY <1>0, <1>10 DEF WaitedLongEnough, vars, registers, process
<1>11. CASE WakeUp
  <2>1. "wake" \in Notices
    BY DEF Notices
  <2> QED BY <1>0, <1>11, <2>1, NoticesMove DEF WakeUp, Send, vars, registers, process
<1>12. CASE UNCHANGED allVars
  BY <1>0, <1>12 DEF allVars, vars, registers, process
<1> QED BY <1>1, <1>2, <1>3, <1>4, <1>5, <1>6, <1>7, <1>8, <1>9, <1>10, <1>11, <1>12, Zenon
        DEF PowerNext

LEMMA PowerInvAlways == PowerSpec => []PowerInv
BY PowerInvInit, PowerInvStep, PTL DEF PowerSpec

(* The state of the driver keeps its type.                                 *)
THEOREM DriverTypeCorrect == PowerSpec => []TypeOK
<1>1. SInv => TypeOK
  BY DEF SInv
<1> QED BY <1>1, SInvAlways, PTL

(* The machine sleeps on the helper's word only with the fans handed back  *)
(* or owed, and a machine that is awake is served once its notices are     *)
(* delivered: for any number of notices, late or overtaken by the sleep.   *)
THEOREM SleepIsAlwaysOrderly == PowerSpec => SleepIsOrderly
<1>1. PowerInv /\ [PowerNext]_allVars =>
        [monitor = "acknowledging" /\ machine = "falling" /\ machine' = "asleep"
           => mode = {} \/ owed]_allVars
  BY DEF PowerInv, CallbackFits
<1>2. PowerInv => AwakeIsServed
  BY DEF PowerInv, LastNotice, AwakeIsServed
<1> QED BY <1>1, <1>2, PowerInvAlways, PTL DEF PowerSpec, SleepIsOrderly, AcknowledgedIsHandedBack
=============================================================================
