-------------------------- MODULE Interface_proofs --------------------------
(***************************************************************************)
(* The interface beside its worker, and the installer both start, for      *)
(* every number of fans, gestures and steps back, all settings and every   *)
(* set of versions.                                                        *)
(*                                                                         *)
(* A step of the interface is first reduced to what the invariants tell    *)
(* apart: the commands it sends (UserStep), what becomes of the form, the  *)
(* editor and the sliders (FormStep, EditorStep, DeskStep, RefreshStep); a *)
(* step of the worker to the command it takes or the snapshot it publishes *)
(* (TakesSetting, TakesSmart, TakesOther, Publishes).  Each part of the    *)
(* invariant is then kept by each of these.                                *)
(***************************************************************************)
EXTENDS Interface, Installation, FiniteSetTheorems, SequenceTheorems, TLAPS

-----------------------------------------------------------------------------
(* Sequences, whatever they hold.                                          *)

IsSeq(s) == \E S : s \in Seq(S)

(* The empty sequence, and one of a single element.                        *)
LEMMA ShortSeq ==
  ASSUME NEW x
  PROVE  /\ IsSeq(<<>>) /\ Len(<<>>) = 0 /\ DOMAIN <<>> = {}
         /\ IsSeq(<<x>>) /\ Len(<<x>>) = 1 /\ <<x>>[1] = x /\ <<x>> # <<>> /\ DOMAIN <<x>> = {1}
<1>1. <<>> \in Seq({}) /\ <<x>> \in Seq({x})
  OBVIOUS
<1>2. IsSeq(<<>>) /\ IsSeq(<<x>>)
  BY <1>1, Zenon DEF IsSeq
<1> QED BY <1>1, <1>2

(* A sequence is a function on 1 .. Len(s), and empty where that is 0.     *)
LEMMA SeqIs ==
  ASSUME NEW s, IsSeq(s)
  PROVE  /\ Len(s) \in Nat /\ DOMAIN s = 1 .. Len(s)
         /\ s = <<>> <=> Len(s) = 0
         /\ s # <<>> => 1 \in DOMAIN s /\ Len(s) \in DOMAIN s /\ Head(s) = s[1]
<1>1. PICK S : s \in Seq(S)
  BY DEF IsSeq
<1> QED BY <1>1

(* What another sequence appends.                                          *)
LEMMA Joined ==
  ASSUME NEW s, NEW t, IsSeq(s), IsSeq(t)
  PROVE  /\ IsSeq(s \o t) /\ Len(s \o t) = Len(s) + Len(t)
         /\ \A i \in 1 .. Len(s) + Len(t) :
              (s \o t)[i] = IF i <= Len(s) THEN s[i] ELSE t[i - Len(s)]
<1>1. PICK S : s \in Seq(S)
  BY DEF IsSeq
<1>2. PICK T : t \in Seq(T)
  BY DEF IsSeq
<1> DEFINE U == S \cup T
<1>3. s \in Seq(U) /\ t \in Seq(U)
  BY <1>1, <1>2
<1> HIDE DEF U
<1>4. s \o t \in Seq(U) /\ Len(s \o t) = Len(s) + Len(t)
      /\ \A i \in 1 .. Len(s) + Len(t) :
              (s \o t)[i] = IF i <= Len(s) THEN s[i] ELSE t[i - Len(s)]
  BY <1>3
<1> QED BY <1>4, Zenon DEF IsSeq

(* What is left when the first element is taken.                           *)
LEMMA Taken ==
  ASSUME NEW s, IsSeq(s), s # <<>>
  PROVE  /\ IsSeq(Tail(s)) /\ Len(Tail(s)) = Len(s) - 1
         /\ \A i \in 1 .. Len(s) - 1 : Tail(s)[i] = s[i + 1]
<1>1. PICK S : s \in Seq(S)
  BY DEF IsSeq
<1>2. Tail(s) \in Seq(S) /\ Len(Tail(s)) = Len(s) - 1
      /\ \A i \in 1 .. Len(s) - 1 : Tail(s)[i] = s[i + 1]
  BY <1>1
<1> QED BY <1>2, Zenon DEF IsSeq

(* What is left when the last element is taken.                            *)
LEMMA Fronted ==
  ASSUME NEW s, IsSeq(s), s # <<>>
  PROVE  /\ IsSeq(Front(s)) /\ Len(Front(s)) = Len(s) - 1
         /\ \A i \in 1 .. Len(s) - 1 : Front(s)[i] = s[i]
<1>1. PICK S : s \in Seq(S)
  BY DEF IsSeq
<1> DEFINE n == Len(s) - 1
<1>2. n \in Nat /\ \A i \in 1 .. n : s[i] \in S
  BY <1>1
<1> HIDE DEF n
<1>3. SubSeq(s, 1, Len(s) - 1) \in Seq(S) /\ Len(SubSeq(s, 1, Len(s) - 1)) = Len(s) - 1
      /\ \A i \in 1 .. Len(s) - 1 : SubSeq(s, 1, Len(s) - 1)[i] = s[i]
  <2>1. /\ SubSeq(s, 1, n) \in Seq(S)
        /\ Len(SubSeq(s, 1, n)) = IF 1 <= n THEN n - 1 + 1 ELSE 0
        /\ \A i \in 1 .. n - 1 + 1 : SubSeq(s, 1, n)[i] = s[1 + i - 1]
    BY <1>2, SubSeqProperties, 1 \in Int, n \in Int
  <2>2. /\ Len(SubSeq(s, 1, n)) = n
        /\ \A i \in 1 .. n : SubSeq(s, 1, n)[i] = s[i]
    BY <1>2, <2>1
  <2> QED BY <2>1, <2>2, Zenon DEF n
<1>4. Front(s) \in Seq(S) /\ Len(Front(s)) = Len(s) - 1
      /\ \A i \in 1 .. Len(s) - 1 : Front(s)[i] = s[i]
  BY <1>3 DEF Front
<1> QED BY <1>4, Zenon DEF IsSeq

(* A function on 1 .. n is a sequence.                                     *)
LEMMA FunctionIsSeq ==
  ASSUME NEW S, NEW n \in Nat, NEW s \in [1 .. n -> S]
  PROVE  IsSeq(s) /\ Len(s) = n
<1>1. s \in Seq(S) /\ Len(s) = n
  BY DOMAIN s = 1 .. n
<1> QED BY <1>1, Zenon DEF IsSeq

(* A finite set of integers has a least element, unless it is empty: the   *)
(* strict order of the sets below each element is well founded.            *)
LEMMA Least ==
  ASSUME NEW T, T \subseteq Int, IsFiniteSet(T), T # {}
  PROVE  \E k \in T : \A j \in T : ~(j < k)
<1> DEFINE Below(x) == { y \in T : y < x }
           Belows == { Below(x) : x \in T }
<1>1. \A x \in T : Below(x) \in SUBSET T /\ IsFiniteSet(Below(x))
  BY FS_Subset
<1>2. Belows \subseteq FiniteSubsetsOf(T) /\ Belows # {}
  BY <1>1 DEF FiniteSubsetsOf
<1>3. \E B \in Belows : \A C \in Belows : <<C, B>> \notin StrictSubsetOrdering(T)
  <2> HIDE DEF Belows
  <2> QED BY <1>2, FS_StrictSubsetOrderingWellFounded, WFMin, Zenon
<1>4. PICK k \in T : \A j \in T : <<Below(j), Below(k)>> \notin StrictSubsetOrdering(T)
  BY <1>3
<1>5. ASSUME NEW j \in T, j < k PROVE FALSE
  <2>1. \A z \in T : z < j => z < k
    BY <1>5
  <2>2. Below(j) \subseteq Below(k)
    BY <2>1, Zenon
  <2>3. j \in Below(k) /\ ~(j < j)
    BY <1>5
  <2>4. j \notin Below(j)
    BY <2>3, Zenon
  <2> HIDE DEF Below
  <2>5. <<Below(j), Below(k)>> \in StrictSubsetOrdering(T)
    BY <1>1, <2>2, <2>3, <2>4 DEF StrictSubsetOrdering
  <2> QED BY <2>5, <1>4
<1> QED BY <1>5

Increasing(s) == \A i, j \in DOMAIN s : i < j => s[i] < s[j]

(* An increasing enumeration is one longer with a greater element.         *)
LEMMA OneLonger ==
  ASSUME NEW n \in Nat \ {0}, NEW R, NEW k \in Int, \A x \in R : x \in Int /\ x < k,
         NEW r \in [1 .. n - 1 -> R], Increasing(r)
  PROVE  \E s \in [1 .. n -> R \cup {k}] : Increasing(s)
<1> DEFINE s == [i \in 1 .. n |-> IF i = n THEN k ELSE r[i]]
<1>1. \A i \in 1 .. n : s[i] = IF i = n THEN k ELSE r[i]
  OBVIOUS
<1>2. s \in [1 .. n -> R \cup {k}] /\ DOMAIN s = 1 .. n
  OBVIOUS
<1> HIDE DEF s
<1>3. ASSUME NEW i \in 1 .. n, NEW j \in 1 .. n, i < j PROVE s[i] < s[j]
  <2>1. i \in 1 .. n - 1 /\ s[i] = r[i] /\ r[i] \in R
    BY <1>1, <1>3
  <2>2. CASE j = n
    BY <2>1, <2>2, <1>1
  <2>3. CASE j # n
    BY <2>1, <2>3, <1>1, <1>3 DEF Increasing
  <2> QED BY <2>2, <2>3
<1> QED BY <1>2, <1>3 DEF Increasing

(* The fans of a set can be listed in order: the largest is put last.      *)
LEMMA FansInOrder ==
  ASSUME NEW fans \in SUBSET Fans
  PROVE  Cardinality(fans) \in Nat /\ InOrder(fans) \in [1 .. Cardinality(fans) -> fans]
<1> DEFINE N == Cardinality(Fans)
           CanList(T) == \E s \in [1 .. Cardinality(T) -> T] : Increasing(s)
           Fails == { k \in 0 .. N : \E T \in SUBSET (1 .. k) : ~CanList(T) }
<1>1. N \in Nat /\ Fans = 1 .. N
  BY SettingsAssumption, FS_CardinalityType
<1>2. Fails = {}
  <2> SUFFICES ASSUME Fails # {} PROVE FALSE
    OBVIOUS
  <2>1. IsFiniteSet(0 .. N) /\ Fails \subseteq 0 .. N /\ Fails \subseteq Int
    BY <1>1, FS_Interval, 0 \in Int, N \in Int
  <2>2. IsFiniteSet(Fails)
    BY <2>1, FS_Subset
  <2>3. PICK k \in Fails : \A j \in Fails : ~(j < k)
    <3> HIDE DEF Fails
    <3> QED BY <2>1, <2>2, Least
  <2>4. PICK T \in SUBSET (1 .. k) : ~CanList(T)
    BY <2>3
  <2>5. k \in 0 .. N /\ k \in Int /\ 1 \in Int
    BY <1>1
  <2>6. IsFiniteSet(T) /\ Cardinality(T) \in Nat
    BY <2>5, FS_Interval, FS_Subset, FS_CardinalityType
  <2>7. CASE T = {}
    <3>1. Cardinality(T) = 0
      BY <2>7, FS_EmptySet
    <3>2. <<>> \in [1 .. 0 -> T] /\ Increasing(<<>>)
      BY <2>7 DEF Increasing
    <3> QED BY <3>1, <3>2, <2>4
  <2>8. CASE T # {} /\ k \notin T
    <3>0. \A x \in T : x \in 1 .. k /\ x # k
      BY <2>8, Zenon
    <3>1. PICK x \in T : x \in 1 .. k /\ x # k
      BY <2>8, <3>0, Zenon
    <3>2. k - 1 \in 0 .. N /\ k - 1 < k /\ \A y \in T : y \in 1 .. (k - 1)
      BY <2>5, <3>0, <3>1, <1>1
    <3>3. k - 1 \in 0 .. N /\ T \in SUBSET (1 .. (k - 1)) /\ k - 1 < k
      BY <3>2, Zenon
    <3>4. k - 1 \in Fails
      BY <3>3, <2>4
    <3> QED BY <3>3, <3>4, <2>3
  <2>9. CASE T # {} /\ k \in T
    <3> DEFINE R == T \ {k}  n == Cardinality(T)
    <3>1. k - 1 \in 0 .. N /\ R \in SUBSET (1 .. (k - 1)) /\ k - 1 < k
      BY <2>5, <2>9, <1>1
    <3>2. CanList(R)
      BY <3>1, <2>3
    <3>3. Cardinality(R) = n - 1 /\ IsFiniteSet(R) /\ Cardinality(R) \in Nat
      BY <2>6, <2>9, FS_RemoveElement, FS_CardinalityType
    <3>4. n \in Nat \ {0} /\ R \cup {k} = T /\ \A x \in R : x \in Int /\ x < k
      BY <2>6, <3>3, <3>1, <2>9, <2>5
    <3>5. PICK r \in [1 .. n - 1 -> R] : Increasing(r)
      BY <3>2, <3>3
    <3> HIDE DEF R, n
    <3>6. \E s \in [1 .. n -> R \cup {k}] : Increasing(s)
      BY <3>4, <3>5, <2>5, OneLonger
    <3> QED BY <3>4, <3>6, <2>4 DEF n
  <2> QED BY <2>7, <2>8, <2>9
<1>3. CanList(fans)
  <2>1. N \in 0 .. N /\ fans \in SUBSET (1 .. N)
    BY <1>1
  <2> QED BY <2>1, <1>2
<1>4. Cardinality(fans) \in Nat
  BY SettingsAssumption, FS_Subset, FS_CardinalityType
<1> QED BY <1>3, <1>4 DEF InOrder, Increasing

(* The commands for several fans are one for each.                         *)
LEMMA EachIs ==
  ASSUME NEW fans \in SUBSET Fans, NEW settings
  PROVE  /\ IsSeq(ConfigureEach(fans, settings))
         /\ \A i \in 1 .. Len(ConfigureEach(fans, settings)) :
              \E f \in fans : ConfigureEach(fans, settings)[i] = ConfigureCommand(f, settings[f])
<1> DEFINE n == Cardinality(fans)  s == InOrder(fans)
           cs == [i \in 1 .. n |-> ConfigureCommand(s[i], settings[s[i]])]
           C == { ConfigureCommand(f, settings[f]) : f \in fans }
<1>1. n \in Nat /\ s \in [1 .. n -> fans]
  BY FansInOrder
<1>2. ConfigureEach(fans, settings) = cs
  BY <1>1 DEF ConfigureEach
<1> HIDE DEF n, s
<1>3. cs \in [1 .. n -> C]
  BY <1>1
<1> HIDE DEF cs
<1>4. IsSeq(cs) /\ Len(cs) = n
  BY <1>1, <1>3, FunctionIsSeq
<1>5. \A i \in 1 .. n : \E f \in fans : cs[i] = ConfigureCommand(f, settings[f])
  BY <1>3
<1> QED BY <1>2, <1>4, <1>5

-----------------------------------------------------------------------------
(* What the state is made of.                                              *)

(* The editor does not change where a setting comes from.                  *)
Disk == <<"disk", 0>>

(* A draft of the editor has a curve, which need not be valid.             *)
IsDraft(d) == IsSetting(d) /\ d.curve # <<>> /\ d.by = Disk

AreDrafts(s) == IsSeq(s) /\ \A i \in 1 .. Len(s) : IsDraft(s[i])

IsEditor(e) ==
  /\ HasFields(e, {"fan", "draft", "rows", "hysteresis", "chart", "grabbed", "undo", "recorded",
                   "all"})
  /\ e.fan \in Fans /\ IsDraft(e.draft) /\ IsCurve(e.chart) /\ AreDrafts(e.undo)

EditorInv ==
  /\ editor # <<>> => editor = <<editor[1]>> /\ IsEditor(editor[1]) /\ session = "editor"
  /\ before # <<>> => editor # <<>>
  /\ UndoRestores

-----------------------------------------------------------------------------
(* The invariants.                                                         *)

AnswerKinds == {"installed", "uninstalled"}

SmartKinds == {"policy", "tuning"}

(* What reaches the worker is well formed: the curves of a command hold,   *)
(* and its calibration was measured.                                       *)
IsCommand(c) ==
  /\ c.kind = "configure" => c.fan \in Fans /\ IsSaved(c.setting)
  /\ c.kind = "policy" => Measured(c.calibration)

SettingsInv ==
  /\ IsConfig(config) /\ Measured(config.calibration)
  /\ IsConfig(published.config) /\ Measured(published.config.calibration)
  /\ HasFields(published, {"config", "installing", "ready", "owed", "found"})
  /\ IsSeq(queue) /\ \A i \in 1 .. Len(queue) : IsCommand(queue[i])

(* In the session of the editor no setting comes from elsewhere.           *)
DiskInv ==
  session = "editor" =>
    /\ \A f \in Fans : config.fans[f].by = Disk /\ Seen(f).by = Disk
    /\ \A i \in 1 .. Len(queue) : queue[i].kind = "configure" => queue[i].setting.by = Disk
    /\ panel.pending = <<>> /\ page.pending = <<>>

(* The administrator is asked, or has answered, or neither.                *)
AllSystem == \A f \in Fans : config.fans[f].mode = "system"

NoAnswer == \A i \in 1 .. Len(queue) : queue[i].kind \notin AnswerKinds

OneAnswer ==
  \E i \in 1 .. Len(queue) :
    /\ queue[i].kind \in AnswerKinds /\ (queue[i].kind = "uninstalled" => AllSystem)
    /\ \A j \in 1 .. Len(queue) : queue[j].kind \in AnswerKinds => j = i

Prompts(i, u) == prompts.install = i /\ prompts.uninstall = u

ServiceInv ==
  alive =>
    /\ HasFields(prompts, {"install", "uninstall"})
    /\ ~installing => Prompts(0, 0) /\ NoAnswer
    /\ installing => \/ Prompts(1, 0) /\ NoAnswer
                     \/ Prompts(0, 1) /\ NoAnswer /\ AllSystem
                     \/ Prompts(0, 0) /\ OneAnswer

(* A save waits in the channel, or has been answered, or there is none.    *)
NoSmart == \A i \in 1 .. Len(queue) : queue[i].kind \notin SmartKinds

OneSmart(c) ==
  \E i \in 1 .. Len(queue) :
    queue[i] = c /\ \A j \in 1 .. Len(queue) : queue[j].kind \in SmartKinds => j = i

Holds(c, asked) ==
  /\ c.bias = asked.bias
  /\ asked.kind = "policy" => c.calibration = asked.calibration

IsSave(s) ==
  /\ HasFields(s, {"by", "previous", "asked"})
  /\ (s.by = "form" /\ s.asked.kind = "policy") \/ (s.by = "panel" /\ s.asked.kind = "tuning")

SaveInv ==
  /\ save = <<>> => reply = "none" /\ NoSmart
  /\ save # <<>> =>
       /\ save = <<save[1]>> /\ IsSave(save[1])
       /\ \/ reply = "waiting" /\ alive /\ OneSmart(save[1].asked)
          \/ Answered /\ NoSmart
       /\ reply = "ok" => Holds(config, save[1].asked) /\ Holds(published.config, save[1].asked)

(* The form: what is recorded was measured on the sensor that is selected. *)
IsRecord(f, r) ==
  r # <<>> => r = <<r[1]>> /\ Selected(f) = <<r[1].on>>

IsForm(f) ==
  /\ HasFields(f, {"bias", "target", "base", "sources", "index", "records", "measured", "machine",
                   "locked"})
  /\ Measured(f.base) /\ IsSeq(f.sources)
  /\ f.records = <<f.records[1], f.records[2]>> /\ f.measured = <<f.measured[1], f.measured[2]>>
  /\ IsRecord(f, f.records[1]) /\ IsRecord(f, f.records[2])

FormInv == form # <<>> => form = <<form[1]>> /\ IsForm(form[1]) /\ session \in FormSessions

(* The two views of the preference.                                        *)
PreferInv ==
  /\ published.config.bias = config.bias
  /\ HasFields(found, {"discovered", "machine", "fans", "unranged"})
  /\ save # <<>> /\ reply # "ok" => save[1].previous = config.bias
  /\ session = "preference" =>
       /\ \A i \in 1 .. Len(queue) : queue[i].kind # "retry"
       /\ published.found.discovered => found.discovered
       /\ form # <<>> => published.found.discovered
       /\ form # <<>> /\ ~touched /\ reply # "ok" => form[1].bias = config.bias
       /\ form # <<>> /\ ~touched /\ reply = "ok" /\ save[1].by = "panel" =>
            form[1].bias \in {save[1].previous, config.bias}
  /\ session # "preference" =>
       /\ save # <<>> => save[1].asked.bias = config.bias
       /\ form # <<>> => form[1].bias = config.bias

(* The numbers of the gestures.                                            *)
Follows(a, b) == a[1] = b[1] => a[2] <= b[2]

PendingAt(by) ==
  /\ by[2] \in Nat /\ by[2] <= gestures
  /\ by[1] = "panel" /\ panel.pending # <<>> => by[2] <= panel.pending[1].at
  /\ by[1] = "page" /\ page.pending # <<>> => by[2] <= page.pending[1].at

OrderInv ==
  /\ gestures \in Nat
  /\ panel.pending # <<>> => panel.pending[1].at \in Nat /\ panel.pending[1].at <= gestures
  /\ page.pending # <<>> => page.pending[1].at \in Nat /\ page.pending[1].at <= gestures
  /\ \A f \in Fans : PendingAt(config.fans[f].by)
  /\ \A i \in 1 .. Len(queue) : queue[i].kind = "configure" =>
       /\ PendingAt(queue[i].setting.by)
       /\ \A f \in Fans : Follows(config.fans[f].by, queue[i].setting.by)
       /\ \A j \in 1 .. i : queue[j].kind = "configure" =>
            Follows(queue[j].setting.by, queue[i].setting.by)

-----------------------------------------------------------------------------
(* The edits of a curve.                                                  *)

(* Whatever happens to a curve, its points stay in the unit of its source. *)
LEMMA CurveEdits ==
  ASSUME NEW c, IsCurve(c), NEW key, NEW p, NEW h
  PROVE  /\ IsCurve([c EXCEPT !.points = p]) /\ IsCurve([c EXCEPT !.points = p, !.hysteresis = h])
         /\ IsCurve(BalancedCurve(key)) /\ IsCurve(SetSensorKey(c, key))
<1>1. IsCurve([c EXCEPT !.points = p]) /\ IsCurve([c EXCEPT !.points = p, !.hysteresis = h])
  BY DEF IsCurve, HasFields
<1>2. IsCurve(BalancedCurve(key))
  BY DEF IsCurve, HasFields, BalancedCurve
<1>3. IsCurve(SetSensorKey(c, key))
  BY <1>2 DEF IsCurve, HasFields, SetSensorKey
<1> QED BY <1>1, <1>2, <1>3

(* So do a preset's curve, a new point and a dragged one.                  *)
LEMMA MoreCurveEdits ==
  ASSUME NEW c, IsCurve(c), NEW key, NEW preset, NEW i, NEW to
  PROVE  /\ IsCurve(PresetCurve(preset, key)) /\ IsCurve(WithPoint(c))
         /\ IsCurve(MovePoint(c, i, to))
<1> DEFINE b == BalancedCurve(key)
<1>1. IsCurve(b)
  BY CurveEdits
<1> HIDE DEF b
<1>2. \A p : IsCurve([b EXCEPT !.points = p]) /\ IsCurve([c EXCEPT !.points = p])
  BY <1>1, CurveEdits
<1>3. \E p : PresetCurve(preset, key) = [b EXCEPT !.points = p]
  BY Zenon DEF PresetCurve, b
<1>4. IsCurve(WithPoint(c))
  <2> DEFINE more == InsertAt(c.points, Widest(c.points) + 1, Middle(c.points))
  <2>1. WithPoint(c) = IF Len(c.points) < MaxRows THEN [c EXCEPT !.points = more] ELSE c
    BY DEF WithPoint
  <2> HIDE DEF more
  <2> QED BY <2>1, <1>2
<1>5. \E p : MovePoint(c, i, to) = [c EXCEPT !.points = p]
  BY Zenon DEF MovePoint
<1> QED BY <1>2, <1>3, <1>4, <1>5

(* A draft with another curve, in whatever mode.                           *)
LEMMA WithCurve ==
  ASSUME NEW d, IsSetting(d), d.by = Disk, NEW c, IsCurve(c), NEW m
  PROVE  /\ IsDraft([d EXCEPT !.curve = <<c>>]) /\ [d EXCEPT !.curve = <<c>>].curve[1] = c
         /\ d.curve # <<>> => [d EXCEPT !.curve[1] = c] = [d EXCEPT !.curve = <<c>>]
         /\ IsDraft([d EXCEPT !.mode = m, !.curve = <<c>>])
<1>1. ASSUME d.curve # <<>> PROVE [d EXCEPT !.curve[1] = c] = [d EXCEPT !.curve = <<c>>]
  <2>1. [d.curve EXCEPT ![1] = c] = <<c>>
    BY <1>1 DEF IsSetting
  <2> QED BY <2>1 DEF IsSetting, HasFields
<1> QED BY <1>1 DEF IsDraft, IsSetting, HasFields

(* What the fields stand for is a draft: they are edited one by one.       *)
LEMMA ValuesAreDrafts ==
  ASSUME NEW e, IsEditor(e), NEW rows, Values(e, rows) # <<>>
  PROVE  /\ Values(e, rows) = <<Values(e, rows)[1]>> /\ IsDraft(Values(e, rows)[1])
<1> DEFINE d == e.draft  k == d.curve[1]  m == "curve"  h == e.hysteresis
           v == [d EXCEPT !.mode = m, !.curve[1].points = rows, !.curve[1].hysteresis = h]
           k1 == [k EXCEPT !.points = rows]
           k2 == [k1 EXCEPT !.hysteresis = h]
           d1 == [d EXCEPT !.mode = m]
           d2 == [d1 EXCEPT !.curve[1].points = rows]
           d3 == [d2 EXCEPT !.curve[1].hysteresis = h]
           Kept(x) == HasFields(x, {"mode", "rpm", "curve", "by"}) /\ x.by = Disk
<1>1. Values(e, rows) = <<v>>
  BY Zenon DEF Values
<1>2. v = d3
  BY Zenon
<1>3. Kept(d) /\ IsCurve(k) /\ d.curve = <<k>>
  BY DEF IsEditor, IsDraft, IsSetting, IsCurve
<1> HIDE DEF d, k, m, h, v, k2
<1>4. IsCurve(k1)
  BY <1>3 DEF IsCurve, HasFields
<1>5. Kept(d1) /\ d1.curve = <<k>>
  BY <1>3 DEF HasFields
<1> HIDE DEF d1, k1
<1>6. d2 = [d1 EXCEPT !.curve = <<k1>>]
  BY <1>5 DEF HasFields, k1
<1>7. Kept(d2) /\ d2.curve = <<k1>>
  BY <1>5, <1>6 DEF HasFields
<1>8. IsCurve(k2)
  BY <1>4 DEF IsCurve, HasFields, k2
<1> HIDE DEF d2
<1>9. d3 = [d2 EXCEPT !.curve = <<k2>>]
  <2>1. HasFields(d2, {"mode", "rpm", "curve", "by"}) /\ d2.curve = <<k1>>
    BY <1>7
  <2> QED BY <2>1 DEF HasFields, k2
<1>10. Kept(d3) /\ d3.curve = <<k2>>
  BY <1>7, <1>9 DEF HasFields
<1> HIDE DEF d3
<1>11. IsDraft(d3)
  BY <1>8, <1>10 DEF IsDraft, IsSetting
<1> QED BY <1>1, <1>2, <1>11

(* The window is built for any setting of a fan.                           *)
LEMMA WindowIs ==
  ASSUME NEW f \in Fans, NEW draft, IsSetting(draft), draft.by = Disk,
         NEW undo, AreDrafts(undo), NEW all
  PROVE  IsEditor(Window(f, draft, undo, all)) /\ Window(f, draft, undo, all).undo = undo
<1> DEFINE c == IF draft.curve = <<>> THEN BalancedCurve("demand") ELSE draft.curve[1]
           d == [draft EXCEPT !.curve = <<c>>]
           rows == Sorted(c.points)
<1>1. IsCurve(BalancedCurve("demand"))
  BY DEF IsCurve, HasFields, BalancedCurve
<1>2. IsCurve(c)
  BY <1>1 DEF IsSetting
<1>3. Window(f, draft, undo, all) =
        [fan |-> f, draft |-> d, rows |-> rows, hysteresis |-> c.hysteresis, chart |-> c,
         grabbed |-> 0, undo |-> undo, recorded |-> FALSE, all |-> all]
  BY Zenon DEF Window
<1> HIDE DEF c, rows
<1>4. IsDraft(d)
  BY <1>2, WithCurve
<1> HIDE DEF d
<1> QED BY <1>2, <1>3, <1>4 DEF IsEditor, HasFields

(* What another element makes of a sequence.                               *)
LEMMA Pushed ==
  ASSUME NEW s, NEW x, IsSeq(s)
  PROVE  /\ IsSeq(Append(s, x)) /\ Len(Append(s, x)) = Len(s) + 1 /\ Append(s, x) # <<>>
         /\ Last(Append(s, x)) = x
         /\ \A i \in 1 .. Len(s) + 1 : Append(s, x)[i] = IF i <= Len(s) THEN s[i] ELSE x
<1>1. PICK S : s \in Seq(S)
  BY DEF IsSeq
<1> DEFINE T == S \cup {x}
<1>2. s \in Seq(T) /\ x \in T
  BY <1>1
<1> HIDE DEF T
<1>3. Append(s, x) \in Seq(T) /\ Len(Append(s, x)) = Len(s) + 1 /\ Len(s) \in Nat
      /\ \A i \in 1 .. Len(s) + 1 : Append(s, x)[i] = IF i <= Len(s) THEN s[i] ELSE x
  BY <1>2
<1>4. Append(s, x) # <<>> /\ Last(Append(s, x)) = x
  BY <1>3 DEF Last
<1> QED BY <1>3, <1>4, Zenon DEF IsSeq

(* What the window was showing is the last step of the stack, even of a    *)
(* full one.                                                               *)
LEMMA RecordedIs ==
  ASSUME NEW e, IsEditor(e)
  PROVE  /\ IsDraft(Previous(e)) /\ AreDrafts(Recorded(e)) /\ Recorded(e) # <<>>
         /\ Last(Recorded(e)) = Previous(e)
<1> DEFINE p == Previous(e)  more == Append(e.undo, p)
           known == e.undo # <<>> /\ Last(e.undo) = p
           undo == IF known THEN e.undo ELSE more
<1>1. IsDraft(p)
  BY ValuesAreDrafts DEF Previous, IsEditor
<1>2. AreDrafts(e.undo) /\ IsSeq(e.undo) /\ Len(e.undo) \in Nat
  BY SeqIs DEF IsEditor, AreDrafts
<1>3. Recorded(e) = IF Len(undo) > MaxUndo THEN Tail(undo) ELSE undo
  BY Zenon DEF Recorded
<1> HIDE DEF p
<1>4. IsSeq(more) /\ Len(more) = Len(e.undo) + 1 /\ more # <<>> /\ Last(more) = p
      /\ \A i \in 1 .. Len(e.undo) + 1 : more[i] = IF i <= Len(e.undo) THEN e.undo[i] ELSE p
  BY <1>2, Pushed
<1> HIDE DEF more
<1>5. AreDrafts(more)
  BY <1>1, <1>2, <1>4 DEF AreDrafts
<1>6. AreDrafts(undo) /\ undo # <<>> /\ Last(undo) = p
  BY <1>2, <1>4, <1>5
<1> HIDE DEF undo
<1>7. CASE Len(undo) > MaxUndo
  <2>1. IsSeq(undo) /\ Len(undo) \in Nat /\ Len(undo) >= 2
    BY <1>6, <1>7, SeqIs, EditorAssumption DEF AreDrafts
  <2>2. IsSeq(Tail(undo)) /\ Len(Tail(undo)) = Len(undo) - 1
        /\ \A i \in 1 .. Len(undo) - 1 : Tail(undo)[i] = undo[i + 1]
    BY <2>1, <1>6, Taken
  <2> DEFINE t == Tail(undo)
  <2>3. Recorded(e) = t
    BY <1>3, <1>7
  <2> HIDE DEF t
  <2>4. IsSeq(t) /\ Len(t) = Len(undo) - 1 /\ \A i \in 1 .. Len(undo) - 1 : t[i] = undo[i + 1]
    BY <2>2 DEF t
  <2>5. AreDrafts(t)
    BY <2>1, <2>4, <1>6 DEF AreDrafts
  <2>6. t # <<>>
    BY <2>1, <2>4, SeqIs
  <2>7. Last(t) = Last(undo)
    BY <2>1, <2>4 DEF Last
  <2> QED BY <1>1, <1>6, <2>3, <2>5, <2>6, <2>7 DEF p
<1>8. CASE ~(Len(undo) > MaxUndo)
  BY <1>1, <1>3, <1>6, <1>8 DEF p
<1> QED BY <1>7, <1>8

-----------------------------------------------------------------------------
(* The editor: what Undo restores, and the units of its curves.            *)

(* The parts of an editor that is open.                                    *)
LEMMA EditorIs ==
  ASSUME EditorInv, editor # <<>>
  PROVE  /\ editor = <<editor[1]>> /\ IsEditor(editor[1]) /\ session = "editor"
         /\ IsDraft(editor[1].draft) /\ editor[1].fan \in Fans
         /\ IsSeq(editor[1].undo) /\ AreDrafts(editor[1].undo)
BY DEF EditorInv, IsEditor, AreDrafts

(* An edit of the fields keeps the stack.                                  *)
LEMMA FieldEdited ==
  ASSUME EditorInv, editor # <<>>, NEW e, IsEditor(e), e.undo = editor[1].undo,
         editor' = <<e>>, before' = before, session' = session
  PROVE  EditorInv'
<1>1. editor'[1] = e /\ editor' # <<>>
  OBVIOUS
<1> QED BY <1>1 DEF EditorInv, UndoRestores

(* A step that is recorded can be undone.                                  *)
LEMMA StepRecorded ==
  ASSUME EditorInv, editor # <<>>, NEW draft, IsDraft(draft), Rebuild(draft), session' = session
  PROVE  EditorInv'
<1> DEFINE e == editor[1]  r == Recorded(e)  p == Previous(e)
           w == Window(e.fan, draft, r, e.all)
<1>1. editor' = <<w>> /\ before' = <<Shown(p)>>
  BY Zenon DEF Rebuild
<1>2. IsEditor(e) /\ session = "editor" /\ e.fan \in Fans
  BY EditorIs
<1>3. AreDrafts(r) /\ r # <<>> /\ Last(r) = p
  BY <1>2, RecordedIs
<1> HIDE DEF e, r, p
<1>4. IsEditor(w) /\ w.undo = r
  BY <1>2, <1>3, WindowIs DEF IsDraft
<1> HIDE DEF w
<1>5. editor'[1] = w /\ editor' # <<>> /\ before'[1] = Shown(p)
  BY <1>1
<1>6. UndoRestores'
  BY <1>3, <1>4, <1>5, Zenon DEF UndoRestores
<1> QED BY <1>1, <1>2, <1>4, <1>5, <1>6 DEF EditorInv

(* A drag records what the fields showed before it.                        *)
LEMMA DragKept ==
  ASSUME EditorInv, Drag, session' = session
  PROVE  EditorInv'
<1> DEFINE e == editor[1]  v == Values(e, e.rows)  u == DragRecorded(e, e.rows)
<1>1. editor # <<>>
  BY Zenon DEF Drag
<1>2. PICK to : editor' = <<[e EXCEPT !.chart = MovePoint(e.chart, e.grabbed, to),
                               !.rows = Sorted(MovePoint(e.chart, e.grabbed, to).points),
                               !.recorded = TRUE, !.undo = u]>>
  BY Zenon DEF Drag
<1>3. before' = IF e.recorded THEN before
                ELSE IF v = <<>> THEN <<>> ELSE <<Shown(v[1])>>
  BY Zenon DEF Drag
<1>4. u = IF e.recorded \/ v = <<>> \/ (e.undo # <<>> /\ Last(e.undo) = v[1]) THEN e.undo
          ELSE Append(e.undo, v[1])
  BY Zenon DEF DragRecorded
<1>5. IsEditor(e) /\ session = "editor" /\ IsSeq(e.undo) /\ AreDrafts(e.undo) /\ IsCurve(e.chart)
  BY <1>1, EditorIs DEF IsEditor
<1>6. v # <<>> => IsDraft(v[1])
  BY <1>5, ValuesAreDrafts
<1> DEFINE c == MovePoint(e.chart, e.grabbed, to)  rows == Sorted(c.points)
           w == [e EXCEPT !.chart = c, !.rows = rows, !.recorded = TRUE, !.undo = u]
           pushed == Append(e.undo, v[1])
<1>7. IsCurve(c)
  BY <1>5, MoreCurveEdits
<1>9. editor' = <<w>>
  BY <1>2
<1>10. before # <<>> => e.undo # <<>> /\ Shown(Last(e.undo)) = before[1]
  BY Zenon DEF EditorInv, UndoRestores
<1> HIDE DEF e, u, v, c, rows
<1>11. IsSeq(pushed) /\ Len(pushed) = Len(e.undo) + 1 /\ pushed # <<>> /\ Last(pushed) = v[1]
       /\ \A i \in 1 .. Len(e.undo) + 1 :
            pushed[i] = IF i <= Len(e.undo) THEN e.undo[i] ELSE v[1]
  <2> DEFINE s == e.undo  x == v[1]  t == Append(s, x)
  <2>1. IsSeq(s)
    BY <1>5
  <2> HIDE DEF s, x
  <2>2. IsSeq(t) /\ Len(t) = Len(s) + 1 /\ t # <<>> /\ Last(t) = x
        /\ \A i \in 1 .. Len(s) + 1 : t[i] = IF i <= Len(s) THEN s[i] ELSE x
    BY <2>1, Pushed
  <2> HIDE DEF t
  <2> QED BY <2>2 DEF s, x, t
<1>12. Len(e.undo) \in Nat
  BY <1>5, SeqIs
<1> HIDE DEF pushed
<1>13. v # <<>> => AreDrafts(pushed)
  BY <1>5, <1>6, <1>11, <1>12 DEF AreDrafts
<1>14. AreDrafts(u)
  BY <1>4, <1>5, <1>13 DEF pushed
<1>15. IsEditor(w) /\ w.undo = u
  BY <1>5, <1>7, <1>14 DEF IsEditor, HasFields
<1> HIDE DEF w
<1>16. editor'[1] = w /\ editor' # <<>>
  BY <1>9
<1>17. before' # <<>> => u # <<>> /\ Shown(Last(u)) = before'[1]
  <2>1. CASE e.recorded
    BY <2>1, <1>3, <1>4, <1>10
  <2>2. CASE ~e.recorded /\ v = <<>>
    BY <2>2, <1>3
  <2>3. CASE ~e.recorded /\ v # <<>> /\ e.undo # <<>> /\ Last(e.undo) = v[1]
    BY <2>3, <1>3, <1>4
  <2>4. CASE ~e.recorded /\ v # <<>> /\ ~(e.undo # <<>> /\ Last(e.undo) = v[1])
    BY <2>4, <1>3, <1>4, <1>11 DEF pushed
  <2> QED BY <2>1, <2>2, <2>3, <2>4
<1>18. UndoRestores'
  BY <1>15, <1>16, <1>17, Zenon DEF UndoRestores
<1> QED BY <1>5, <1>9, <1>15, <1>16, <1>18 DEF EditorInv

(* Each gesture of the editor.                                             *)
LEMMA EditorGestures ==
  ASSUME IsConfig(published.config),
         session = "editor" => \A f \in Fans : Seen(f).by = Disk,
         EditorInv, EditorGesture
  PROVE  EditorInv'
<1> DEFINE e == editor[1]
<1>1. session' = session /\ session = "editor"
  BY Zenon DEF EditorGesture, Gesture
<1>2. ASSUME editor # <<>>
      PROVE  /\ editor = <<e>> /\ IsEditor(e) /\ IsDraft(e.draft) /\ IsSetting(e.draft)
             /\ e.draft.by = Disk /\ IsCurve(e.draft.curve[1]) /\ e.fan \in Fans
             /\ IsSeq(e.undo) /\ AreDrafts(e.undo)
  <2>1. /\ editor = <<e>> /\ IsEditor(e) /\ IsDraft(e.draft) /\ e.fan \in Fans
        /\ IsSeq(e.undo) /\ AreDrafts(e.undo)
    BY <1>2, EditorIs
  <2> QED BY <2>1 DEF IsDraft, IsSetting
<1>3. CASE CloseEditor
  BY <1>1, <1>3 DEF CloseEditor, EditorInv, UndoRestores
<1>4. CASE OpenEditor
  <2>1. PICK f \in Fans : \E all : editor' = <<Window(f, Seen(f), <<>>, all)>>
    BY <1>4, Zenon DEF OpenEditor
  <2>2. PICK all : editor' = <<Window(f, Seen(f), <<>>, all)>>
    BY <2>1
  <2>3. before' = <<>>
    BY <1>4, Zenon DEF OpenEditor
  <2> DEFINE d == Seen(f)  w == Window(f, d, <<>>, all)
  <2>4. IsSetting(d) /\ d.by = Disk
    <3>1. IsSaved(published.config.fans[f])
      BY Zenon DEF IsConfig
    <3>2. Seen(f).by = Disk
      BY <1>1, Zenon
    <3> QED BY <3>1, <3>2 DEF IsSaved, Seen
  <2>5. AreDrafts(<<>>)
    <3>1. IsSeq(<<>>) /\ Len(<<>>) = 0
      BY ShortSeq
    <3> QED BY <3>1 DEF AreDrafts
  <2> HIDE DEF d
  <2>6. IsEditor(w)
    BY <2>4, <2>5, WindowIs
  <2> HIDE DEF w
  <2>7. editor' = <<w>>
    BY <2>2 DEF w, d
  <2> QED BY <1>1, <2>3, <2>6, <2>7 DEF EditorInv, UndoRestores
<1>5. CASE TypeRow
  <2>1. editor # <<>> /\ before' = before
    BY <1>5, Zenon DEF TypeRow
  <2>2. \E r : editor' = <<[e EXCEPT !.rows = r]>>
    <3>1. PICK i, k, x : editor' = <<[e EXCEPT !.rows[i][k] = x]>>
      BY <1>5, Zenon DEF TypeRow
    <3>2. [e EXCEPT !.rows[i][k] = x] = [e EXCEPT !.rows = [e.rows EXCEPT ![i][k] = x]]
      BY <1>2, <2>1 DEF IsEditor, HasFields
    <3> QED BY <3>1, <3>2
  <2>3. PICK r : editor' = <<[e EXCEPT !.rows = r]>>
    BY <2>2
  <2>4. IsEditor([e EXCEPT !.rows = r]) /\ [e EXCEPT !.rows = r].undo = e.undo
    BY <1>2, <2>1 DEF IsEditor, HasFields
  <2> DEFINE w == [e EXCEPT !.rows = r]
  <2> HIDE DEF w
  <2> QED BY <1>1, <2>1, <2>3, <2>4, FieldEdited DEF w
<1>6. CASE TypeHysteresis
  <2>1. editor # <<>> /\ before' = before
    BY <1>6, Zenon DEF TypeHysteresis
  <2>2. PICK h : editor' = <<[e EXCEPT !.hysteresis = h]>>
    BY <1>6, Zenon DEF TypeHysteresis
  <2> DEFINE w == [e EXCEPT !.hysteresis = h]
  <2>3. IsEditor(w) /\ w.undo = e.undo
    BY <1>2, <2>1 DEF IsEditor, HasFields
  <2> HIDE DEF w
  <2> QED BY <1>1, <2>1, <2>2, <2>3, FieldEdited DEF w
<1>7. CASE AllFans
  <2>1. editor # <<>> /\ before' = before /\ editor' = <<[e EXCEPT !.all = ~@]>>
    BY <1>7, Zenon DEF AllFans
  <2> DEFINE w == [e EXCEPT !.all = ~@]
  <2>2. IsEditor(w) /\ w.undo = e.undo
    BY <1>2, <2>1 DEF IsEditor, HasFields
  <2> HIDE DEF w
  <2> QED BY <1>1, <2>1, <2>2, FieldEdited DEF w
<1>8. CASE CurvePreset
  <2>1. editor # <<>>
    BY <1>8, Zenon DEF CurvePreset
  <2> DEFINE d == e.draft  k == d.curve[1]
  <2>2. PICK p \in Presets : Rebuild([d EXCEPT !.curve = <<PresetCurve(p, k.key)>>])
    BY <1>8, Zenon DEF CurvePreset
  <2> DEFINE c == PresetCurve(p, k.key)  w == [d EXCEPT !.curve = <<c>>]
  <2>3. IsSetting(d) /\ d.by = Disk /\ IsCurve(k)
    BY <1>2, <2>1
  <2>4. IsCurve(c)
    BY <2>3, MoreCurveEdits
  <2> HIDE DEF d, c
  <2>5. IsDraft(w)
    BY <2>3, <2>4, WithCurve
  <2> HIDE DEF w
  <2> QED BY <1>1, <2>1, <2>2, <2>5, StepRecorded DEF w, c
<1>9. CASE ResetCurve
  <2>1. editor # <<>>
    BY <1>9, Zenon DEF ResetCurve
  <2> DEFINE d == e.draft  k == d.curve[1]  c == BalancedCurve(k.key)
             w == [d EXCEPT !.curve = <<c>>]
  <2>2. Rebuild(w)
    BY <1>9, Zenon DEF ResetCurve
  <2>3. IsSetting(d) /\ d.by = Disk /\ IsCurve(k)
    BY <1>2, <2>1
  <2>4. IsCurve(c)
    BY <2>3, CurveEdits
  <2> HIDE DEF d, c
  <2>5. IsDraft(w)
    BY <2>3, <2>4, WithCurve
  <2> HIDE DEF w
  <2> QED BY <1>1, <2>1, <2>2, <2>5, StepRecorded
<1>10. CASE AddPoint
  <2> DEFINE d == Read(e)[1]  k == d.curve[1]  c == WithPoint(k)  w == [d EXCEPT !.curve = <<c>>]
             v == [d EXCEPT !.curve[1] = c]
  <2>1. editor # <<>> /\ Read(e) # <<>> /\ Rebuild(v)
    BY <1>10, Zenon DEF AddPoint
  <2>2. IsDraft(d)
    BY <1>2, <2>1, ValuesAreDrafts DEF Read
  <2>3. IsSetting(d) /\ d.by = Disk /\ IsCurve(k) /\ d.curve # <<>>
    BY <2>2 DEF IsDraft, IsSetting
  <2>4. IsCurve(c)
    BY <2>3, MoreCurveEdits
  <2> HIDE DEF d, c
  <2>5. IsDraft(w) /\ v = w
    BY <2>3, <2>4, WithCurve
  <2> HIDE DEF w, v
  <2> QED BY <1>1, <2>1, <2>5, StepRecorded
<1>11. CASE RemovePoint
  <2>1. editor # <<>>
    BY <1>11, Zenon DEF RemovePoint
  <2>2. PICK rows : Values(e, rows) # <<>> /\ Rebuild(Values(e, rows)[1])
    BY <1>11, Zenon DEF RemovePoint
  <2> DEFINE w == Values(e, rows)[1]
  <2>3. IsDraft(w)
    BY <1>2, <2>1, <2>2, ValuesAreDrafts
  <2> HIDE DEF w
  <2> QED BY <1>1, <2>1, <2>2, <2>3, StepRecorded DEF w
<1>12. CASE SourceChoice
  <2>1. editor # <<>>
    BY <1>12, Zenon DEF SourceChoice
  <2> DEFINE d == Previous(e)  k == d.curve[1]
  <2>2. PICK key : Rebuild([d EXCEPT !.curve[1] = SetSensorKey(k, key)])
    BY <1>12, Zenon DEF SourceChoice
  <2> DEFINE c == SetSensorKey(k, key)  v == [d EXCEPT !.curve[1] = c]
             w == [d EXCEPT !.curve = <<c>>]
  <2>3. IsDraft(d)
    BY <1>2, <2>1, RecordedIs
  <2>4. IsSetting(d) /\ d.by = Disk /\ IsCurve(k) /\ d.curve # <<>>
    BY <2>3 DEF IsDraft, IsSetting
  <2>5. IsCurve(c)
    BY <2>4, CurveEdits
  <2> HIDE DEF d, c
  <2>6. IsDraft(w) /\ v = w
    BY <2>4, <2>5, WithCurve
  <2> HIDE DEF w, v
  <2> QED BY <1>1, <2>1, <2>2, <2>6, StepRecorded DEF v, c
<1>13. CASE Undo
  <2> DEFINE d == Last(e.undo)  u == Front(e.undo)  w == Window(e.fan, d, u, e.all)
  <2>1. editor # <<>> /\ e.undo # <<>> /\ editor' = <<w>> /\ before' = <<>>
    BY <1>13, Zenon DEF Undo
  <2>2. IsSeq(e.undo) /\ AreDrafts(e.undo) /\ e.fan \in Fans
    BY <1>2, <2>1
  <2>3. IsDraft(d)
    BY <2>1, <2>2, SeqIs DEF AreDrafts, Last
  <2>4. IsSeq(u) /\ Len(u) = Len(e.undo) - 1 /\ \A i \in 1 .. Len(e.undo) - 1 : u[i] = e.undo[i]
    BY <2>1, <2>2, Fronted
  <2>5. Len(e.undo) \in Nat
    BY <2>2, SeqIs
  <2> HIDE DEF d, u
  <2>6. AreDrafts(u)
    BY <2>2, <2>4, <2>5 DEF AreDrafts
  <2>7. IsEditor(w)
    BY <2>2, <2>3, <2>6, WindowIs DEF IsDraft
  <2> HIDE DEF w
  <2> QED BY <1>1, <2>1, <2>7 DEF EditorInv, UndoRestores
<1>14. CASE Grab
  <2>1. editor # <<>> /\ before' = before
    BY <1>14, Zenon DEF Grab
  <2>2. PICK i : editor' = <<[e EXCEPT !.grabbed = i]>>
    BY <1>14, Zenon DEF Grab
  <2> DEFINE w == [e EXCEPT !.grabbed = i]
  <2>3. IsEditor(w) /\ w.undo = e.undo
    BY <1>2, <2>1 DEF IsEditor, HasFields
  <2> HIDE DEF w
  <2> QED BY <1>1, <2>1, <2>2, <2>3, FieldEdited DEF w
<1>15. CASE Drag
  BY <1>1, <1>15, DragKept
<1>16. CloseEditor \/ OpenEditor \/ TypeRow \/ TypeHysteresis \/ AllFans \/ CurvePreset
       \/ ResetCurve \/ AddPoint \/ RemovePoint \/ SourceChoice \/ Undo \/ Grab \/ Drag
  BY Zenon DEF EditorGesture, Cancel, SaveCurve
<1> QED BY <1>3, <1>4, <1>5, <1>6, <1>7, <1>8, <1>9, <1>10, <1>11, <1>12, <1>13, <1>14, <1>15,
           <1>16, Zenon

-----------------------------------------------------------------------------
(* What the interface sends.                                               *)

(* A setting made of the one that is seen is one that can be saved.        *)
LEMMA ChosenIsSaved ==
  ASSUME SettingsInv, NEW f \in Fans, NEW mode, NEW percent, NEW by
  PROVE  IsSaved(Chosen(f, mode, percent, by)) /\ Chosen(f, mode, percent, by).by = by
<1> DEFINE s == Seen(f)  b == BalancedCurve("demand")
           rpm == IF mode = "fixed" THEN RpmForPercent(percent) ELSE 0
           c == IF mode = "curve" /\ s.curve = <<>> THEN <<b>> ELSE s.curve
           t == [s EXCEPT !.mode = mode, !.by = by, !.rpm = rpm, !.curve = c]
<1>1. IsSaved(s)
  <2>1. IsSaved(published.config.fans[f])
    BY Zenon DEF SettingsInv, IsConfig
  <2> QED BY <2>1, Zenon DEF Seen
<1>2. ValidCurve(b) /\ IsCurve(b)
  <2>1. "demand" \in Keys
    BY SettingsAssumption
  <2>2. ValidCurve(b)
    BY <2>1, BalancedAssumption, Zenon
  <2>3. IsCurve(b)
    BY DEF IsCurve, HasFields, BalancedCurve
  <2> QED BY <2>2, <2>3
<1>3. Chosen(f, mode, percent, by) = t
  <2> HIDE DEF b, rpm
  <2>1. Chosen(f, mode, percent, by) =
          [s EXCEPT !.mode = mode, !.by = by, !.rpm = rpm,
                    !.curve = IF mode = "curve" /\ @ = <<>> THEN <<b>> ELSE @]
    BY Zenon DEF Chosen, b, rpm
  <2> HIDE DEF s
  <2> QED BY <1>1, <2>1 DEF IsSaved, IsSetting, HasFields
<1> HIDE DEF s, b, rpm
<1>4. c # <<>> => c = <<c[1]>> /\ IsCurve(c[1]) /\ ValidCurve(c[1])
  BY <1>1, <1>2 DEF IsSaved, IsSetting
<1> HIDE DEF c
<1>5. HasFields(t, {"mode", "rpm", "curve", "by"}) /\ t.curve = c /\ t.by = by
  BY <1>1 DEF IsSaved, IsSetting, HasFields
<1> HIDE DEF t
<1>6. IsSaved(t)
  BY <1>4, <1>5 DEF IsSaved, IsSetting
<1> QED BY <1>3, <1>5, <1>6

(* The commands of a plan, of a choice and of a curve.                     *)
AreSettings(cs, by) ==
  /\ IsSeq(cs)
  /\ \A i \in 1 .. Len(cs) :
       cs[i].kind = "configure" /\ IsCommand(cs[i]) /\ cs[i].setting.by = by

(* The command for a saved setting is one the worker may get.              *)
LEMMA CommandIs ==
  ASSUME NEW f \in Fans, NEW s, IsSaved(s)
  PROVE  /\ ConfigureCommand(f, s).kind = "configure" /\ IsCommand(ConfigureCommand(f, s))
         /\ ConfigureCommand(f, s).setting = s
BY DEF ConfigureCommand, IsCommand

(* No command, one, and one for each fan of a set are settings.            *)
LEMMA NoSettings == \A by : AreSettings(<<>>, by)
<1>1. IsSeq(<<>>) /\ Len(<<>>) = 0
  BY ShortSeq
<1> QED BY <1>1 DEF AreSettings

(* A single command for a saved setting.                                   *)
LEMMA OneSetting ==
  ASSUME NEW f \in Fans, NEW s, IsSaved(s)
  PROVE  AreSettings(<<ConfigureCommand(f, s)>>, s.by)
<1> DEFINE c == ConfigureCommand(f, s)  cs == <<c>>
<1>1. c.kind = "configure" /\ IsCommand(c) /\ c.setting = s
  BY CommandIs
<1> HIDE DEF c
<1>2. IsSeq(cs) /\ Len(cs) = 1 /\ cs[1] = c
  BY ShortSeq
<1> HIDE DEF cs
<1>3. AreSettings(cs, s.by)
  BY <1>1, <1>2 DEF AreSettings
<1> QED BY <1>3 DEF cs, c

(* The commands for the fans of a set, of one origin.                      *)
LEMMA SettingsOfEach ==
  ASSUME NEW fans \in SUBSET Fans, NEW settings, NEW by,
         \A f \in fans : IsSaved(settings[f]) /\ settings[f].by = by
  PROVE  AreSettings(ConfigureEach(fans, settings), by)
<1> DEFINE cs == ConfigureEach(fans, settings)
<1>1. IsSeq(cs) /\ \A i \in 1 .. Len(cs) : \E f \in fans : cs[i] = ConfigureCommand(f, settings[f])
  BY EachIs
<1>2. \A f \in fans : /\ ConfigureCommand(f, settings[f]).kind = "configure"
                      /\ IsCommand(ConfigureCommand(f, settings[f]))
                      /\ ConfigureCommand(f, settings[f]).setting = settings[f]
  BY CommandIs
<1> HIDE DEF cs
<1>3. AreSettings(cs, by)
  BY <1>1, <1>2, Zenon DEF AreSettings
<1> QED BY <1>3 DEF cs

(* A plan sends settings of the gesture that chose it.                     *)
LEMMA PlanSettings ==
  ASSUME SettingsInv, NEW plan, NEW percent, NEW by, NEW fresh
  PROVE  AreSettings(PlanCommands(plan, percent, by, fresh), by)
<1> DEFINE fans == { f \in Fans : plan = "system" \/ Controllable(f) }
           settings == [f \in Fans |-> Chosen(f, plan, percent, by)]
<1>1. fans \in SUBSET Fans
  OBVIOUS
<1>2. \A f \in Fans : settings[f] = Chosen(f, plan, percent, by)
  OBVIOUS
<1>3. \A f \in Fans : IsSaved(Chosen(f, plan, percent, by)) /\ Chosen(f, plan, percent, by).by = by
  BY ChosenIsSaved
<1>4. PlanCommands(plan, percent, by, fresh)
      = IF ControlsEnabled(fresh) THEN ConfigureEach(fans, settings) ELSE <<>>
  BY Zenon DEF PlanCommands, ConfigsForPlan
<1> HIDE DEF fans, settings
<1>5. AreSettings(ConfigureEach(fans, settings), by)
  BY <1>1, <1>2, <1>3, SettingsOfEach
<1> QED BY <1>4, <1>5, NoSettings, Zenon

(* A card of the Fans page sends a setting of its gesture.                 *)
LEMMA ChoiceSettings ==
  ASSUME SettingsInv, NEW f \in Fans, NEW choice, NEW percent, NEW by
  PROVE  AreSettings(ChoiceCommands(f, choice, percent, by), by)
<1> DEFINE s == Chosen(f, choice, percent, by)
<1>1. IsSaved(s) /\ s.by = by
  BY ChosenIsSaved
<1>2. ChoiceCommands(f, choice, percent, by) \in {<<>>, <<ConfigureCommand(f, s)>>}
  BY DEF ChoiceCommands, ConfigForChoice
<1> HIDE DEF s
<1>3. AreSettings(<<ConfigureCommand(f, s)>>, by)
  BY <1>1, OneSetting
<1> QED BY <1>2, <1>3, NoSettings

(* What the fields of the editor stand for is saved only where it holds.   *)
LEMMA CurveSettings ==
  ASSUME SettingsInv, EditorInv, DiskInv, editor # <<>>, Read(editor[1]) # <<>>
  PROVE  /\ AreSettings(ConfigsForCurve(Read(editor[1])[1].curve[1]), Disk)
         /\ AreSettings(<<ConfigureCommand(editor[1].fan, Read(editor[1])[1])>>, Disk)
<1> DEFINE e == editor[1]  v == Read(e)[1]  c == v.curve[1]
           fans == { f \in Fans : Controllable(f) }
           settings == [f \in Fans |-> [Seen(f) EXCEPT !.mode = "curve", !.curve = <<c>>]]
<1>1. IsEditor(e) /\ e.fan \in Fans /\ session = "editor"
  BY EditorIs
<1>2. IsDraft(v) /\ ValidCurve(c)
  <2> DEFINE w == Values(e, Sorted(e.rows))
  <2>1. w # <<>> => IsDraft(w[1])
    BY <1>1, ValuesAreDrafts
  <2>2. Read(e) = IF w # <<>> /\ ValidCurve(w[1].curve[1]) THEN w ELSE <<>>
    BY Zenon DEF Read
  <2> HIDE DEF w
  <2> QED BY <2>1, <2>2
<1> HIDE DEF e, v
<1>3. IsSaved(v) /\ v.by = Disk /\ IsCurve(c)
  BY <1>2 DEF IsDraft, IsSaved, IsSetting
<1>4. AreSettings(<<ConfigureCommand(e.fan, v)>>, Disk)
  BY <1>1, <1>3, OneSetting
<1>5. ASSUME NEW f \in Fans
      PROVE  IsSaved(settings[f]) /\ settings[f].by = Disk
  <2> DEFINE s == Seen(f)  t == [s EXCEPT !.mode = "curve", !.curve = <<c>>]
  <2>1. IsSaved(s) /\ s.by = Disk
    <3>1. IsSaved(published.config.fans[f])
      BY Zenon DEF SettingsInv, IsConfig
    <3>2. Seen(f).by = Disk
      BY <1>1, Zenon DEF DiskInv
    <3> QED BY <3>1, <3>2, Zenon DEF Seen
  <2>2. settings[f] = t
    OBVIOUS
  <2> HIDE DEF s, c
  <2>3. HasFields(t, {"mode", "rpm", "curve", "by"}) /\ t.curve = <<c>> /\ t.by = s.by
    BY <2>1 DEF IsSaved, IsSetting, HasFields
  <2> HIDE DEF t
  <2>4. IsSaved(t) /\ t.by = Disk
    BY <1>2, <1>3, <2>1, <2>3 DEF IsSaved, IsSetting
  <2> QED BY <2>2, <2>4
<1>6. ConfigsForCurve(c) = ConfigureEach(fans, settings) /\ fans \in SUBSET Fans
  BY Zenon DEF ConfigsForCurve
<1> HIDE DEF fans, settings
<1>7. AreSettings(ConfigureEach(fans, settings), Disk)
  BY <1>5, <1>6, SettingsOfEach
<1> QED BY <1>4, <1>6, <1>7 DEF e, v, c

-----------------------------------------------------------------------------
(* The steps of the interface, and the commands they send.                 *)

Sent(cs) == IsSeq(cs) /\ (queue' = queue \/ (alive /\ queue' = queue \o cs))

Allowed(c) ==
  /\ IsCommand(c) /\ c.kind \notin AnswerKinds
  /\ c.kind = "retry" => session # "preference"
  /\ c.kind = "configure" /\ session = "editor" => c.setting.by = Disk

UserStep(cs) ==
  /\ UNCHANGED <<worker, prompts, published, session>>
  /\ Sent(cs) /\ \A i \in 1 .. Len(cs) : Allowed(cs[i])

Plain(cs) == \A i \in 1 .. Len(cs) : cs[i].kind \notin SmartKinds

(* The numbers p and q under which the panel and the page send: new ones,  *)
(* or those of the sliders that are pending.                               *)
Numbered(n, pending, after) ==
  /\ n \in Nat /\ n <= gestures' /\ (n = gestures' \/ (pending # <<>> /\ n = pending[1].at))
  /\ after # pending /\ after # <<>> => after[1].at = gestures'

By(by, surface, n, after) ==
  by = <<surface, n>> /\ (after # <<>> => n <= after[1].at)

Orders(cs, p, q) ==
  /\ gestures' \in Nat /\ gestures <= gestures'
  /\ Numbered(p, panel.pending, panel'.pending) /\ Numbered(q, page.pending, page'.pending)
  /\ \A i \in 1 .. Len(cs) : cs[i].kind = "configure" =>
       \/ By(cs[i].setting.by, "panel", p, panel'.pending)
       \/ By(cs[i].setting.by, "page", q, page'.pending)

DeskInv ==
  /\ HasFields(panel, {"pending", "enabled", "custom", "slider"})
  /\ HasFields(page, {"pending", "enabled", "fixed", "slider"})
  /\ page.fixed \subseteq Fans /\ (page.pending # <<>> => page.pending[1].fan \in Fans)

DeskStep ==
  /\ \E cs : UserStep(cs) /\ Plain(cs) /\ \E p, q : Orders(cs, p, q)
  /\ DeskInv' /\ session # "editor" /\ UNCHANGED <<smart, curve, reply>>

(* Settings are commands the interface may send.                           *)
LEMMA SettingsAllowed ==
  ASSUME NEW cs, NEW by, AreSettings(cs, by), session = "editor" => by = Disk
  PROVE  IsSeq(cs) /\ Plain(cs) /\ \A i \in 1 .. Len(cs) : Allowed(cs[i])
BY DEF AreSettings, Allowed, Plain, AnswerKinds, SmartKinds

(* One command that is no setting.                                         *)
LEMMA OneCommand ==
  ASSUME NEW c, c.kind \in {"reset", "install", "uninstall", "retry"},
         c.kind = "retry" => session # "preference"
  PROVE  /\ IsSeq(<<c>>) /\ Plain(<<c>>) /\ \A i \in 1 .. Len(<<c>>) : Allowed(<<c>>[i])
         /\ \A i \in 1 .. Len(<<c>>) : <<c>>[i].kind # "configure"
<1> DEFINE cs == <<c>>
<1>1. IsSeq(cs) /\ Len(cs) = 1 /\ cs[1] = c
  BY ShortSeq
<1>2. Allowed(c) /\ c.kind \notin SmartKinds /\ c.kind # "configure"
  BY DEF Allowed, IsCommand, AnswerKinds, SmartKinds
<1> HIDE DEF cs
<1>3. Plain(cs) /\ \A i \in 1 .. Len(cs) : Allowed(cs[i]) /\ cs[i].kind # "configure"
  BY <1>1, <1>2 DEF Plain
<1> QED BY <1>1, <1>3 DEF cs

(* To send nothing is always allowed.                                      *)
LEMMA NoCommand ==
  /\ IsSeq(<<>>) /\ Plain(<<>>) /\ \A i \in 1 .. Len(<<>>) : Allowed(<<>>[i])
  /\ \A i \in 1 .. Len(<<>>) : <<>>[i].kind # "configure"
<1>1. IsSeq(<<>>) /\ Len(<<>>) = 0
  BY ShortSeq
<1> QED BY <1>1 DEF Plain

(* A gesture that sends no setting, and leaves the sliders or moves one.   *)
LEMMA PlainOrders ==
  ASSUME NEW cs, \A i \in 1 .. Len(cs) : cs[i].kind # "configure",
         gestures \in Nat, gestures' = gestures + 1,
         panel'.pending # panel.pending /\ panel'.pending # <<>>
           => panel'.pending[1].at = gestures',
         page'.pending # page.pending /\ page'.pending # <<>> => page'.pending[1].at = gestures'
  PROVE  \E p, q : Orders(cs, p, q)
<1>1. gestures' \in Nat /\ gestures <= gestures'
  OBVIOUS
<1>2. Numbered(gestures', panel.pending, panel'.pending)
      /\ Numbered(gestures', page.pending, page'.pending)
  BY <1>1 DEF Numbered
<1>3. Orders(cs, gestures', gestures')
  BY <1>1, <1>2 DEF Orders
<1> QED BY <1>3

(* A plan of the panel uses the slider's position up where it is accepted. *)
LEMMA PlanApplied ==
  ASSUME SettingsInv, DeskInv, gestures \in Nat, gestures' = gestures + 1,
         session' = session, session # "editor",
         NEW plan, NEW percent, NEW fresh, ApplyPlan(plan, percent, fresh)
  PROVE  DeskStep
<1> DEFINE by == <<"panel", gestures'>>  cs == PlanCommands(plan, percent, by, fresh)
           g == gestures'
<1>1. AreSettings(cs, by)
  BY PlanSettings
<1>2. Send(cs) /\ page' = page /\ UNCHANGED <<worker, reply, prompts, published, smart, curve>>
      /\ panel' = [panel EXCEPT !.pending = Unless(ControlsEnabled(fresh), @)]
  BY Zenon DEF ApplyPlan, Ours
<1>3. ~ControlsEnabled(fresh) => cs = <<>>
  BY DEF PlanCommands
<1>4. HasFields(panel', {"pending", "enabled", "custom", "slider"})
      /\ panel'.pending = IF ControlsEnabled(fresh) THEN <<>> ELSE panel.pending
  BY <1>2 DEF DeskInv, HasFields, Unless
<1> HIDE DEF cs, by
<1>5. IsSeq(cs) /\ Plain(cs) /\ \A i \in 1 .. Len(cs) : Allowed(cs[i])
  BY <1>1, SettingsAllowed
<1>6. UserStep(cs)
  BY <1>2, <1>5, Zenon DEF UserStep, Sent, Send
<1>7. DeskInv'
  BY <1>2, <1>4 DEF DeskInv
<1>8. g \in Nat /\ gestures <= g
  OBVIOUS
<1>9. Numbered(g, panel.pending, panel'.pending) /\ Numbered(g, page.pending, page'.pending)
  BY <1>2, <1>4, <1>8 DEF Numbered
<1>10. Len(<<>>) = 0
  BY ShortSeq
<1>11. \A i \in 1 .. Len(cs) : By(cs[i].setting.by, "panel", g, panel'.pending)
  BY <1>1, <1>3, <1>4, <1>10 DEF AreSettings, By, by
<1>12. Orders(cs, g, g)
  BY <1>8, <1>9, <1>11 DEF Orders
<1> QED BY <1>2, <1>5, <1>6, <1>7, <1>12, Zenon DEF DeskStep

(* A button that sends at most one command.                                *)
LEMMA Pressed ==
  ASSUME DeskInv, gestures \in Nat, session # "editor", NEW where, NEW cs, Press(where, cs),
         IsSeq(cs) /\ Plain(cs) /\ \A i \in 1 .. Len(cs) : Allowed(cs[i]),
         \A i \in 1 .. Len(cs) : cs[i].kind # "configure"
  PROVE  DeskStep
<1>1. /\ session' = session /\ gestures' = gestures + 1 /\ Send(cs)
      /\ panel' = panel /\ page' = page
      /\ UNCHANGED <<worker, reply, prompts, published, smart, curve>>
  BY Zenon DEF Press, Gesture, Ours, desk
<1>2. UserStep(cs)
  BY <1>1, Zenon DEF UserStep, Sent, Send
<1>3. DeskInv'
  BY <1>1 DEF DeskInv
<1>4. \E p, q : Orders(cs, p, q)
  BY <1>1, PlainOrders
<1> QED BY <1>1, <1>2, <1>3, <1>4, Zenon DEF DeskStep

DeskGesture ==
  \/ PlanChanged \/ UseSmart \/ CustomSpeed \/ FanChoice \/ FanSpeed
  \/ PressReset \/ PressInstall \/ PressRetry \/ PressUninstall \/ PressNotice

(* The panel, the page and the buttons.                                    *)
LEMMA DeskGestures ==
  ASSUME SettingsInv, DeskInv, gestures \in Nat, DeskGesture
  PROVE  DeskStep
<1>1. CASE PlanChanged
  <2>1. session' = session /\ gestures' = gestures + 1 /\ session \in {"panel", "service"}
    BY <1>1, Zenon DEF PlanChanged, Gesture
  <2>2. PICK plan, fresh : ApplyPlan(plan, panel.slider, fresh)
    BY <1>1, Zenon DEF PlanChanged
  <2>3. session # "editor"
    BY <2>1
  <2> DEFINE percent == panel.slider
  <2> HIDE DEF percent
  <2>4. ApplyPlan(plan, percent, fresh)
    BY <2>2 DEF percent
  <2> QED BY <2>1, <2>3, <2>4, PlanApplied
<1>2. CASE UseSmart
  <2>1. session' = session /\ gestures' = gestures + 1 /\ session \in {"service"}
    BY <1>2, Zenon DEF UseSmart, Gesture
  <2> DEFINE plan == "smart"  percent == DefaultPercent  fresh == TRUE
  <2>2. ApplyPlan(plan, percent, fresh) /\ session # "editor"
    BY <1>2, <2>1, Zenon DEF UseSmart
  <2> HIDE DEF plan, percent, fresh
  <2> QED BY <2>1, <2>2, PlanApplied
<1>3. CASE CustomSpeed
  <2>1. /\ session' = session /\ gestures' = gestures + 1 /\ session \in {"panel"}
        /\ queue' = queue /\ page' = page
        /\ UNCHANGED <<worker, reply, prompts, published, smart, curve>>
    BY <1>3, Zenon DEF CustomSpeed, Gesture, Ours
  <2>2. PICK p : panel' = [panel EXCEPT !.slider = p,
                                        !.pending = <<[percent |-> p, at |-> gestures']>>]
    BY <1>3, Zenon DEF CustomSpeed
  <2>3. HasFields(panel', {"pending", "enabled", "custom", "slider"})
        /\ panel'.pending[1].at = gestures'
    BY <2>2 DEF DeskInv, HasFields
  <2>4. DeskInv' /\ session # "editor"
    BY <2>1, <2>3 DEF DeskInv
  <2>5. \E a, b : Orders(<<>>, a, b)
    BY <2>1, <2>3, PlainOrders, NoCommand
  <2>6. UserStep(<<>>)
    BY <2>1, NoCommand, Zenon DEF UserStep, Sent
  <2> QED BY <2>1, <2>4, <2>5, <2>6, NoCommand, Zenon DEF DeskStep
<1>4. CASE FanChoice
  <2>1. /\ session' = session /\ gestures' = gestures + 1 /\ session \in {"panel"}
        /\ page' = [page EXCEPT !.pending = <<>>] /\ panel' = panel
        /\ UNCHANGED <<worker, reply, prompts, published, smart, curve>>
    BY <1>4, Zenon DEF FanChoice, Gesture, Ours
  <2> DEFINE by == <<"page", gestures'>>  g == gestures'
  <2>2. PICK f \in Fans : \E choice \in Modes : Send(ChoiceCommands(f, choice, page.slider[f], by))
    BY <1>4, Zenon DEF FanChoice
  <2>3. PICK choice \in Modes : Send(ChoiceCommands(f, choice, page.slider[f], by))
    BY <2>2, Zenon
  <2> DEFINE percent == page.slider[f]  cs == ChoiceCommands(f, choice, percent, by)
  <2>4. Send(cs)
    BY <2>3
  <2> HIDE DEF percent, by
  <2>5. AreSettings(cs, by)
    BY ChoiceSettings
  <2> HIDE DEF cs
  <2>6. session # "editor"
    BY <2>1
  <2>7. IsSeq(cs) /\ Plain(cs) /\ \A i \in 1 .. Len(cs) : Allowed(cs[i])
    BY <2>5, <2>6, SettingsAllowed
  <2>8. UserStep(cs)
    BY <2>1, <2>4, <2>7, Zenon DEF UserStep, Sent, Send
  <2>9. HasFields(page', {"pending", "enabled", "fixed", "slider"}) /\ page'.pending = <<>>
        /\ page'.fixed = page.fixed
    BY <2>1 DEF DeskInv, HasFields
  <2>10. DeskInv'
    BY <2>1, <2>9 DEF DeskInv
  <2>11. g \in Nat /\ gestures <= g
    BY <2>1
  <2>12. Numbered(g, panel.pending, panel'.pending) /\ Numbered(g, page.pending, page'.pending)
    BY <2>1, <2>9, <2>11 DEF Numbered
  <2>13. \A i \in 1 .. Len(cs) : By(cs[i].setting.by, "page", g, page'.pending)
    BY <2>5, <2>9 DEF AreSettings, By, by
  <2>14. Orders(cs, g, g)
    BY <2>11, <2>12, <2>13 DEF Orders
  <2> QED BY <2>1, <2>6, <2>7, <2>8, <2>10, <2>14, Zenon DEF DeskStep
<1>5. CASE FanSpeed
  <2>1. /\ session' = session /\ gestures' = gestures + 1 /\ session \in {"panel"}
        /\ queue' = queue /\ panel' = panel
        /\ UNCHANGED <<worker, reply, prompts, published, smart, curve>>
    BY <1>5, Zenon DEF FanSpeed, Gesture, Ours
  <2>2. PICK f \in page.fixed : \E p : page' =
          [page EXCEPT !.slider[f] = p, !.pending = <<[fan |-> f, percent |-> p, at |-> gestures']>>]
    BY <1>5, Zenon DEF FanSpeed
  <2>3. PICK p : page' =
          [page EXCEPT !.slider[f] = p, !.pending = <<[fan |-> f, percent |-> p, at |-> gestures']>>]
    BY <2>2
  <2>4. HasFields(page', {"pending", "enabled", "fixed", "slider"})
        /\ page'.pending[1].at = gestures' /\ page'.pending[1].fan = f /\ page'.fixed = page.fixed
    BY <2>3 DEF DeskInv, HasFields
  <2>5. DeskInv' /\ session # "editor"
    BY <2>1, <2>4 DEF DeskInv
  <2>6. \E a, b : Orders(<<>>, a, b)
    BY <2>1, <2>4, PlainOrders, NoCommand
  <2>7. UserStep(<<>>)
    BY <2>1, NoCommand, Zenon DEF UserStep, Sent
  <2> QED BY <2>1, <2>5, <2>6, <2>7, NoCommand, Zenon DEF DeskStep
<1>6. ASSUME NEW where, NEW c, Press(where, <<c>>), where \subseteq Sessions \ {"editor"},
             c.kind \in {"reset", "install", "uninstall", "retry"},
             c.kind = "retry" => "preference" \notin where
      PROVE  DeskStep
  <2>1. session \in where
    BY <1>6, Zenon DEF Press, Gesture
  <2>2. session # "editor" /\ (c.kind = "retry" => session # "preference")
    BY <1>6, <2>1
  <2> DEFINE cs == <<c>>
  <2>3. IsSeq(cs) /\ Plain(cs) /\ \A i \in 1 .. Len(cs) : Allowed(cs[i])
    BY <1>6, <2>2, OneCommand
  <2>4. \A i \in 1 .. Len(cs) : cs[i].kind # "configure"
    BY <1>6, <2>2, OneCommand
  <2>5. Press(where, cs)
    BY <1>6
  <2> HIDE DEF cs
  <2> QED BY <2>2, <2>3, <2>4, <2>5, Pressed
<1>7. CASE PressReset \/ PressInstall \/ PressRetry \/ PressUninstall
  <2>1. \A k : [kind |-> k].kind = k
    OBVIOUS
  <2> DEFINE reset == [kind |-> "reset"]  install == [kind |-> "install"]
             retry == [kind |-> "retry"]  uninstall == [kind |-> "uninstall"]
             A == {"panel", "service"}  B == {"service"}  C == {"calibration"}
  <2>2. /\ reset.kind = "reset" /\ install.kind = "install" /\ retry.kind = "retry"
        /\ uninstall.kind = "uninstall"
    OBVIOUS
  <2>3. /\ A \subseteq Sessions \ {"editor"} /\ B \subseteq Sessions \ {"editor"}
        /\ C \subseteq Sessions \ {"editor"} /\ "preference" \notin C
    BY DEF Sessions
  <2>4. Press(A, <<reset>>) \/ Press(B, <<install>>) \/ Press(C, <<retry>>)
        \/ Press(B, <<uninstall>>)
    BY <1>7, Zenon DEF PressReset, PressInstall, PressRetry, PressUninstall
  <2> HIDE DEF reset, install, retry, uninstall, A, B, C
  <2>5. ASSUME Press(A, <<reset>>) PROVE DeskStep
    BY <1>6, <2>2, <2>3, <2>5
  <2>6. ASSUME Press(B, <<install>>) PROVE DeskStep
    BY <1>6, <2>2, <2>3, <2>6
  <2>7. ASSUME Press(C, <<retry>>) PROVE DeskStep
    BY <1>6, <2>2, <2>3, <2>7
  <2>8. ASSUME Press(B, <<uninstall>>) PROVE DeskStep
    BY <1>6, <2>2, <2>3, <2>8
  <2> QED BY <2>4, <2>5, <2>6, <2>7, <2>8
<1>8. CASE PressNotice
  <2>1. PICK fresh, hot, alarm : Press({"service"}, NoticeCommand(fresh, hot, alarm))
    BY <1>8, Zenon DEF PressNotice
  <2> DEFINE n == NoticeCommand(fresh, hot, alarm)  B == {"service"}
             install == [kind |-> "install"]  retry == [kind |-> "retry"]
  <2>2. install.kind = "install" /\ retry.kind = "retry"
    OBVIOUS
  <2>3. B \subseteq Sessions \ {"editor"} /\ "preference" \notin B /\ "editor" \notin B
    BY DEF Sessions
  <2>4. n = <<>> \/ n = <<retry>> \/ n = <<install>>
    BY Zenon DEF NoticeCommand
  <2>5. Press(B, n)
    BY <2>1
  <2> HIDE DEF n, B, install, retry
  <2>6. CASE n = <<retry>>
    BY <1>6, <2>2, <2>3, <2>5, <2>6
  <2>7. CASE n = <<install>>
    BY <1>6, <2>2, <2>3, <2>5, <2>7
  <2>8. CASE n = <<>>
    <3>1. session \in B
      BY <2>5, Zenon DEF Press, Gesture
    <3>2. session # "editor" /\ Press(B, <<>>)
      BY <3>1, <2>3, <2>5, <2>8
    <3> QED BY <3>2, NoCommand, Pressed
  <2> QED BY <2>4, <2>6, <2>7, <2>8
<1> QED BY <1>1, <1>2, <1>3, <1>4, <1>5, <1>7, <1>8, Zenon DEF DeskGesture

(* The tick sends what the sliders that have settled ask for.              *)
RefreshStep ==
  /\ \E cs : UserStep(cs) /\ Plain(cs) /\ \E p, q : Orders(cs, p, q)
  /\ DeskInv' /\ gestures' = gestures /\ before' = before /\ editor' = RefreshedEditor
  /\ session = "editor" => panel'.pending = <<>> /\ page'.pending = <<>>
  /\ (session \in FormSessions /\ RefreshSmart) \/ UNCHANGED <<smart, reply>>

(* Every tick is such a step.                                              *)
LEMMA Refreshes ==
  ASSUME SettingsInv, DeskInv, DiskInv, OrderInv, Refresh
  PROVE  RefreshStep
<1>1. /\ UNCHANGED <<worker, prompts, published, session>> /\ gestures' = gestures
      /\ before' = before /\ editor' = RefreshedEditor
      /\ (session \in FormSessions /\ RefreshSmart) \/ UNCHANGED <<smart, reply>>
  BY Zenon DEF Refresh
<1>2. PICK fresh, settled, fanSettled \in BOOLEAN :
        LET speed  == settled /\ panel.pending # <<>>
            choice == fanSettled /\ page.pending # <<>>
            keep   == IF speed THEN Unless(ControlsEnabled(fresh), panel.pending) ELSE panel.pending
        IN /\ Send((IF speed THEN PlanCommands("fixed", panel.pending[1].percent,
                                               <<"panel", panel.pending[1].at>>, fresh)
                    ELSE <<>>) \o
                   (IF choice THEN ChoiceCommands(page.pending[1].fan, "fixed",
                                                  page.pending[1].percent,
                                                  <<"page", page.pending[1].at>>)
                    ELSE <<>>))
           /\ panel' = ShownPanel(keep, fresh)
           /\ page' = ShownPage(IF choice THEN <<>> ELSE page.pending)
  BY Zenon DEF Refresh
<1> DEFINE speed == settled /\ panel.pending # <<>>
           choice == fanSettled /\ page.pending # <<>>
           enabled == ControlsEnabled(fresh)
           keep == IF speed THEN Unless(enabled, panel.pending) ELSE panel.pending
           kept == IF choice THEN <<>> ELSE page.pending
           p == IF panel.pending = <<>> THEN gestures ELSE panel.pending[1].at
           q == IF page.pending = <<>> THEN gestures ELSE page.pending[1].at
           byPanel == <<"panel", p>>  byPage == <<"page", q>>
           percent == panel.pending[1].percent  percent2 == page.pending[1].percent
           fan == page.pending[1].fan  fixed == "fixed"
           plan == PlanCommands(fixed, percent, byPanel, fresh)
           one == ChoiceCommands(fan, fixed, percent2, byPage)
           cs1 == IF speed THEN plan ELSE <<>>
           cs2 == IF choice THEN one ELSE <<>>
           cs == cs1 \o cs2
<1>3. Send(cs) /\ panel' = ShownPanel(keep, fresh) /\ page' = ShownPage(kept)
  <2>1. speed => byPanel = <<"panel", panel.pending[1].at>>
    OBVIOUS
  <2>2. choice => byPage = <<"page", page.pending[1].at>>
    OBVIOUS
  <2> HIDE DEF p, q, byPanel, byPage
  <2> QED BY <1>2, <2>1, <2>2, Zenon
<1>4. HasFields(panel', {"pending", "enabled", "custom", "slider"}) /\ panel'.pending = keep
  <2>1. \A x : HasFields(ShownPanel(x, fresh), {"pending", "enabled", "custom", "slider"})
               /\ ShownPanel(x, fresh).pending = x
    BY DEF ShownPanel, HasFields
  <2> HIDE DEF keep
  <2> QED BY <1>3, <2>1, Zenon
<1>5. /\ HasFields(page', {"pending", "enabled", "fixed", "slider"}) /\ page'.pending = kept
      /\ page'.fixed \subseteq Fans
  <2>1. \A x : /\ HasFields(ShownPage(x), {"pending", "enabled", "fixed", "slider"})
               /\ ShownPage(x).pending = x /\ ShownPage(x).fixed \subseteq Fans
    BY DEF ShownPage, HasFields
  <2> HIDE DEF kept
  <2> QED BY <1>3, <2>1, Zenon
<1>6. DeskInv'
  BY <1>4, <1>5 DEF DeskInv
<1>7. session = "editor" => ~speed /\ ~choice /\ keep = <<>> /\ kept = <<>>
  BY DEF DiskInv
<1>8. /\ p \in Nat /\ p <= gestures /\ q \in Nat /\ q <= gestures /\ gestures \in Nat
  BY DEF OrderInv
<1>9. Numbered(p, panel.pending, panel'.pending) /\ Numbered(q, page.pending, page'.pending)
  BY <1>1, <1>4, <1>5, <1>8 DEF Numbered, Unless
<1>10. speed /\ ~enabled => plan = <<>>
  BY DEF PlanCommands
<1>11. choice => fan \in Fans
  BY DEF DeskInv
<1>12. speed /\ enabled => panel'.pending = <<>>
  BY <1>4 DEF Unless
<1>13. choice => page'.pending = <<>>
  BY <1>5
<1> HIDE DEF p, q, byPanel, byPage, percent, percent2, fan, fixed, keep, kept, enabled
<1>14. AreSettings(plan, byPanel)
  BY PlanSettings
<1>15. choice => AreSettings(one, byPage)
  BY <1>11, ChoiceSettings
<1> HIDE DEF plan, one, speed, choice
<1>16. AreSettings(cs1, byPanel) /\ AreSettings(cs2, byPage)
  BY <1>14, <1>15, NoSettings
<1>17. /\ IsSeq(cs1) /\ Plain(cs1) /\ \A i \in 1 .. Len(cs1) : Allowed(cs1[i])
       /\ IsSeq(cs2) /\ Plain(cs2) /\ \A i \in 1 .. Len(cs2) : Allowed(cs2[i])
  <2>1. CASE session = "editor"
    BY <1>7, <2>1, NoCommand
  <2>2. CASE session # "editor"
    BY <1>16, <2>2, SettingsAllowed
  <2> QED BY <2>1, <2>2
<1>18. \A i \in 1 .. Len(cs1) : By(cs1[i].setting.by, "panel", p, panel'.pending)
  <2>1. Len(<<>>) = 0
    BY ShortSeq
  <2>2. \A i \in 1 .. Len(cs1) : speed /\ enabled
    BY <1>10, <2>1
  <2> QED BY <1>12, <1>16, <2>2 DEF AreSettings, By, byPanel
<1>19. \A i \in 1 .. Len(cs2) : By(cs2[i].setting.by, "page", q, page'.pending)
  <2>1. Len(<<>>) = 0
    BY ShortSeq
  <2>2. \A i \in 1 .. Len(cs2) : choice
    BY <2>1
  <2> QED BY <1>13, <1>16, <2>2 DEF AreSettings, By, byPage
<1> HIDE DEF cs1, cs2
<1>20. /\ IsSeq(cs) /\ Len(cs) = Len(cs1) + Len(cs2)
       /\ \A i \in 1 .. Len(cs1) + Len(cs2) :
            cs[i] = IF i <= Len(cs1) THEN cs1[i] ELSE cs2[i - Len(cs1)]
  BY <1>17, Joined
<1>21. Len(cs1) \in Nat /\ Len(cs2) \in Nat
  BY <1>17, SeqIs
<1> HIDE DEF cs
<1>22. \A i \in 1 .. Len(cs) :
         \/ i \in 1 .. Len(cs1) /\ cs[i] = cs1[i]
         \/ i - Len(cs1) \in 1 .. Len(cs2) /\ cs[i] = cs2[i - Len(cs1)]
  BY <1>20, <1>21
<1>23. Plain(cs) /\ \A i \in 1 .. Len(cs) : Allowed(cs[i])
  BY <1>17, <1>22, Zenon DEF Plain
<1>24. \A i \in 1 .. Len(cs) :
         \/ By(cs[i].setting.by, "panel", p, panel'.pending)
         \/ By(cs[i].setting.by, "page", q, page'.pending)
  BY <1>18, <1>19, <1>22, Zenon
<1>25. Orders(cs, p, q)
  BY <1>1, <1>8, <1>9, <1>24 DEF Orders
<1>26. UserStep(cs)
  BY <1>1, <1>3, <1>20, <1>23, Zenon DEF UserStep, Sent, Send
<1>27. session = "editor" => panel'.pending = <<>> /\ page'.pending = <<>>
  BY <1>4, <1>5, <1>7
<1> QED BY <1>1, <1>6, <1>23, <1>25, <1>26, <1>27, Zenon DEF RefreshStep

-----------------------------------------------------------------------------
(* The form: what is recorded stays with the sensor it was measured on.    *)

FormFields == {"bias", "target", "base", "sources", "index", "records", "measured", "machine",
               "locked"}

(* The sensors are a sequence, with or without one more.                   *)
LEMMA KeysAre ==
  ASSUME NEW x
  PROVE  /\ IsSeq(Listed) /\ IsSeq(With(Listed, x))
         /\ Position(With(Listed, x), x) \in DOMAIN With(Listed, x)
         /\ With(Listed, x)[Position(With(Listed, x), x)] = x
<1> DEFINE l == Listed  w == With(l, x)
<1>1. IsSeq(l)
  <2>1. IsSeq(Sensors)
    BY SettingsAssumption, Zenon DEF IsSeq
  <2>2. IsSeq(<<>>)
    BY ShortSeq
  <2> QED BY <2>1, <2>2, Zenon DEF Listed
<1> HIDE DEF l
<1>2. Len(l) \in Nat /\ DOMAIN l = 1 .. Len(l)
  BY <1>1, SeqIs
<1>3. IsSeq(w) /\ \E i \in 1 .. Len(w) : w[i] = x
  <2>1. CASE Contains(l, x)
    <3>1. w = l
      BY <2>1, Zenon DEF With
    <3> QED BY <3>1, <2>1, <1>1 DEF Contains
  <2>2. CASE ~Contains(l, x)
    <3> DEFINE a == Append(l, x)
    <3>1. w = a
      BY <2>2, Zenon DEF With
    <3>2. IsSeq(a) /\ Len(a) = Len(l) + 1
          /\ \A i \in 1 .. Len(l) + 1 : a[i] = IF i <= Len(l) THEN l[i] ELSE x
      BY <1>1, Pushed
    <3> HIDE DEF a
    <3>3. Len(a) \in 1 .. Len(a) /\ a[Len(a)] = x
      BY <1>2, <3>2
    <3> QED BY <3>1, <3>2, <3>3
  <2> QED BY <2>1, <2>2
<1> HIDE DEF w
<1>4. DOMAIN w = 1 .. Len(w) /\ Contains(w, x)
  BY <1>3, SeqIs, Zenon DEF Contains
<1>5. Position(w, x) = CHOOSE i \in DOMAIN w : w[i] = x
  BY <1>4, Zenon DEF Position
<1>6. Position(w, x) \in DOMAIN w /\ w[Position(w, x)] = x
  BY <1>3, <1>4, <1>5
<1> QED BY <1>1, <1>3, <1>6 DEF w, l

(* A form without points that were recorded.                               *)
LEMMA NothingRecorded ==
  ASSUME NEW f, HasFields(f, FormFields), Measured(f.base), IsSeq(f.sources),
         f.records = NoRecords, f.measured = <<f.measured[1], f.measured[2]>>
  PROVE  IsForm(f)
<1>1. f.records[1] = <<>> /\ f.records[2] = <<>> /\ f.records = <<f.records[1], f.records[2]>>
  BY DEF NoRecords
<1>2. IsRecord(f, f.records[1]) /\ IsRecord(f, f.records[2])
  BY <1>1, Zenon DEF IsRecord
<1> QED BY <1>1, <1>2, Zenon DEF IsForm, FormFields

(* The same selection and records, whatever else is edited.                *)
LEMMA SameRecords ==
  ASSUME NEW f, IsForm(f), NEW g, HasFields(g, FormFields), Measured(g.base), IsSeq(g.sources),
         Selected(f) # <<>> => Selected(g) = Selected(f),
         g.records = f.records, g.measured = <<g.measured[1], g.measured[2]>>
  PROVE  IsForm(g)
<1>1. \A r : IsRecord(f, r) => IsRecord(g, r)
  <2> SUFFICES ASSUME NEW r, IsRecord(f, r), r # <<>> PROVE IsRecord(g, r)
    BY Zenon DEF IsRecord
  <2>1. r = <<r[1]>> /\ Selected(f) = <<r[1].on>>
    BY Zenon DEF IsRecord
  <2>2. Selected(f) # <<>>
    BY <2>1
  <2>3. Selected(g) = <<r[1].on>>
    BY <2>1, <2>2
  <2> QED BY <2>1, <2>3, Zenon DEF IsRecord
<1>2. /\ f.records = <<f.records[1], f.records[2]>>
      /\ IsRecord(f, f.records[1]) /\ IsRecord(f, f.records[2])
  BY Zenon DEF IsForm
<1> QED BY <1>1, <1>2, Zenon DEF IsForm, FormFields

(* Edits of the fields, and of the source.                                 *)
LEMMA FormEdits ==
  ASSUME NEW f, IsForm(f), NEW b, NEW t, NEW l, NEW i \in 1 .. 2, NEW k
  PROVE  /\ IsForm([f EXCEPT !.bias = b]) /\ IsForm([f EXCEPT !.target = t])
         /\ IsForm([f EXCEPT !.locked = l]) /\ IsForm([f EXCEPT !.measured[i] = t])
         /\ IsForm(SourceChanged([f EXCEPT !.index = k]))
         /\ IsForm(SourceChanged([f EXCEPT !.base = <<>>]))
         /\ \A m : IsForm([SourceChanged(f) EXCEPT !.machine = m])
<1>1. HasFields(f, FormFields) /\ Measured(f.base) /\ IsSeq(f.sources)
      /\ f.measured = <<f.measured[1], f.measured[2]>>
  BY Zenon DEF IsForm, FormFields
<1>2. IsForm([f EXCEPT !.bias = b])
  <2> DEFINE g == [f EXCEPT !.bias = b]
  <2>1. HasFields(g, FormFields) /\ g.base = f.base /\ g.sources = f.sources
        /\ g.index = f.index /\ g.records = f.records /\ g.measured = f.measured
    BY <1>1 DEF HasFields, FormFields
  <2> HIDE DEF g
  <2>2. Selected(g) = Selected(f)
    BY <2>1, Zenon DEF Selected
  <2>3. IsForm(g)
    BY <1>1, <2>1, <2>2, SameRecords
  <2> QED BY <2>3 DEF g
<1>3. IsForm([f EXCEPT !.target = t])
  <2> DEFINE g == [f EXCEPT !.target = t]
  <2>1. HasFields(g, FormFields) /\ g.base = f.base /\ g.sources = f.sources
        /\ g.index = f.index /\ g.records = f.records /\ g.measured = f.measured
    BY <1>1 DEF HasFields, FormFields
  <2> HIDE DEF g
  <2>2. Selected(g) = Selected(f)
    BY <2>1, Zenon DEF Selected
  <2>3. IsForm(g)
    BY <1>1, <2>1, <2>2, SameRecords
  <2> QED BY <2>3 DEF g
<1>4. IsForm([f EXCEPT !.locked = l])
  <2> DEFINE g == [f EXCEPT !.locked = l]
  <2>1. HasFields(g, FormFields) /\ g.base = f.base /\ g.sources = f.sources
        /\ g.index = f.index /\ g.records = f.records /\ g.measured = f.measured
    BY <1>1 DEF HasFields, FormFields
  <2> HIDE DEF g
  <2>2. Selected(g) = Selected(f)
    BY <2>1, Zenon DEF Selected
  <2>3. IsForm(g)
    BY <1>1, <2>1, <2>2, SameRecords
  <2> QED BY <2>3 DEF g
<1>5. IsForm([f EXCEPT !.measured[i] = t])
  <2> DEFINE g == [f EXCEPT !.measured[i] = t]
  <2>1. HasFields(g, FormFields) /\ g.base = f.base /\ g.sources = f.sources
        /\ g.index = f.index /\ g.records = f.records
        /\ g.measured = [f.measured EXCEPT ![i] = t]
    BY <1>1 DEF HasFields, FormFields
  <2>2. [f.measured EXCEPT ![i] = t] =
          <<[f.measured EXCEPT ![i] = t][1], [f.measured EXCEPT ![i] = t][2]>>
    BY <1>1
  <2> HIDE DEF g
  <2>3. Selected(g) = Selected(f) /\ g.measured = <<g.measured[1], g.measured[2]>>
    BY <2>1, <2>2, Zenon DEF Selected
  <2>4. IsForm(g)
    BY <1>1, <2>1, <2>3, SameRecords
  <2> QED BY <2>4 DEF g
<1>6. IsForm(SourceChanged([f EXCEPT !.index = k]))
  <2> DEFINE h == [f EXCEPT !.index = k]  g == SourceChanged(h)
  <2>1. HasFields(h, FormFields) /\ h.base = f.base /\ h.sources = f.sources
        /\ h.measured = f.measured
    BY <1>1 DEF HasFields, FormFields
  <2> HIDE DEF h
  <2>2. HasFields(g, FormFields) /\ g.base = f.base /\ g.sources = f.sources
        /\ g.measured = f.measured /\ g.records = NoRecords
    BY <2>1 DEF HasFields, FormFields, SourceChanged
  <2> HIDE DEF g
  <2>3. IsForm(g)
    BY <1>1, <2>2, NothingRecorded
  <2> QED BY <2>3 DEF g, h
<1>7. IsForm(SourceChanged([f EXCEPT !.base = <<>>]))
  <2> DEFINE h == [f EXCEPT !.base = <<>>]  g == SourceChanged(h)
  <2>1. HasFields(h, FormFields) /\ h.base = <<>> /\ h.sources = f.sources
        /\ h.measured = f.measured
    BY <1>1 DEF HasFields, FormFields
  <2> HIDE DEF h
  <2>2. HasFields(g, FormFields) /\ g.base = <<>> /\ g.sources = f.sources
        /\ g.measured = f.measured /\ g.records = NoRecords
    BY <2>1 DEF HasFields, FormFields, SourceChanged
  <2> HIDE DEF g
  <2>3. Measured(<<>>)
    BY Zenon DEF Measured
  <2>4. IsForm(g)
    BY <1>1, <2>2, <2>3, NothingRecorded
  <2> QED BY <2>4 DEF g, h
<1>8. ASSUME NEW m PROVE IsForm([SourceChanged(f) EXCEPT !.machine = m])
  <2> DEFINE h == SourceChanged(f)  g == [h EXCEPT !.machine = m]
  <2>1. HasFields(h, FormFields) /\ h.base = f.base /\ h.sources = f.sources
        /\ h.measured = f.measured /\ h.records = NoRecords
    BY <1>1 DEF HasFields, FormFields, SourceChanged
  <2> HIDE DEF h
  <2>2. HasFields(g, FormFields) /\ g.base = f.base /\ g.sources = f.sources
        /\ g.measured = f.measured /\ g.records = NoRecords
    BY <2>1 DEF HasFields, FormFields
  <2> HIDE DEF g
  <2>3. IsForm(g)
    BY <1>1, <2>2, NothingRecorded
  <2> QED BY <2>3 DEF g, h
<1> QED BY <1>2, <1>3, <1>4, <1>5, <1>6, <1>7, <1>8

(* The form as it is built.                                                *)
LEMMA BuiltIs ==
  ASSUME SettingsInv, NEW locked
  PROVE  IsForm(Built(locked)) /\ Built(locked).bias = published.config.bias
<1> DEFINE c == published.config
           keys == IF c.calibration = <<>> THEN Listed ELSE With(Listed, c.calibration[1].sensor)
           index == IF c.calibration = <<>> THEN 1 ELSE Position(keys, c.calibration[1].sensor)
           machine == published.found.machine
           blank == <<Blank, Blank>>
           g == [bias |-> c.bias, target |-> c.target, base |-> c.calibration, sources |-> keys,
                 index |-> index, records |-> NoRecords, measured |-> blank,
                 machine |-> machine, locked |-> locked]
<1>1. Built(locked) = g
  BY Zenon DEF Built
<1>2. IsSeq(keys)
  <2> DEFINE x == c.calibration[1].sensor
  <2>1. IsSeq(Listed) /\ IsSeq(With(Listed, x))
    BY KeysAre
  <2> QED BY <2>1
<1>3. Measured(c.calibration)
  BY DEF SettingsInv
<1>4. blank = <<blank[1], blank[2]>>
  OBVIOUS
<1> HIDE DEF c, keys, index, machine, blank
<1>5. HasFields(g, FormFields) /\ g.base = c.calibration /\ g.sources = keys
      /\ g.measured = blank /\ g.records = NoRecords /\ g.bias = c.bias
  BY DEF HasFields, FormFields
<1> HIDE DEF g
<1>6. IsForm(g)
  BY <1>2, <1>3, <1>4, <1>5, NothingRecorded
<1> QED BY <1>1, <1>5, <1>6 DEF c

(* The list of the sensors follows them, and the selection keeps its key.  *)
LEMMA RelistedIs ==
  ASSUME NEW f, IsForm(f)
  PROVE  IsForm(Relisted(f)) /\ Relisted(f).bias = f.bias
<1> DEFINE kept == Preserved(f)
           keys == IF kept = <<>> THEN Listed ELSE With(Listed, kept[1])
           index == IF kept = <<>> THEN 1 ELSE Position(keys, kept[1])
           g == [f EXCEPT !.sources = keys, !.index = index]
<1>1. Relisted(f) = IF f.sources = keys THEN f ELSE g
  BY Zenon DEF Relisted
<1>2. HasFields(f, FormFields) /\ Measured(f.base) /\ IsSeq(f.sources)
      /\ f.measured = <<f.measured[1], f.measured[2]>>
  BY Zenon DEF IsForm, FormFields
<1>3. IsSeq(Listed) /\ \A x : IsSeq(With(Listed, x))
                       /\ Position(With(Listed, x), x) \in DOMAIN With(Listed, x)
                       /\ With(Listed, x)[Position(With(Listed, x), x)] = x
  BY KeysAre
<1>4. IsSeq(keys)
  BY <1>3
<1>5. kept # <<>> => index \in DOMAIN keys /\ keys[index] = kept[1]
  BY <1>3
<1>6. Selected(f) # <<>> => kept = Selected(f)
  BY Zenon DEF Preserved
<1> HIDE DEF kept, keys, index
<1>7. HasFields(g, FormFields) /\ g.base = f.base /\ g.sources = keys /\ g.index = index
      /\ g.records = f.records /\ g.measured = f.measured /\ g.bias = f.bias
  BY <1>2 DEF HasFields, FormFields
<1> HIDE DEF g
<1>8. Selected(f) # <<>> => Selected(g) = Selected(f)
  <2> SUFFICES ASSUME Selected(f) # <<>> PROVE Selected(g) = Selected(f)
    OBVIOUS
  <2>1. Selected(g) = <<kept[1]>>
    BY <1>5, <1>6, <1>7 DEF Selected
  <2>2. Selected(f) = <<Selected(f)[1]>>
    BY DEF Selected
  <2> QED BY <1>6, <2>1, <2>2
<1>9. IsForm(g)
  BY <1>2, <1>4, <1>7, <1>8, SameRecords
<1> QED BY <1>1, <1>7, <1>9

(* Following the sensors and the machine keeps the preference.             *)
LEMMA RefreshedIs ==
  ASSUME NEW f, IsForm(f)
  PROVE  IsForm(Refreshed(f)) /\ Refreshed(f).bias = f.bias
<1> DEFINE m == published.found.machine
           h == [SourceChanged(f) EXCEPT !.machine = m]
           g == IF f.machine = m THEN f ELSE h
<1>1. Refreshed(f) = Relisted(g)
  BY Zenon DEF Refreshed
<1>2. HasFields(f, FormFields)
  BY Zenon DEF IsForm, FormFields
<1> HIDE DEF m
<1>3. IsForm(h)
  <2>1. \A i \in 1 .. 2 : IsForm(h)
    BY FormEdits
  <2>2. 1 \in 1 .. 2
    OBVIOUS
  <2> QED BY <2>1, <2>2, Zenon
<1>4. h.bias = f.bias
  BY <1>2 DEF HasFields, FormFields, SourceChanged
<1> HIDE DEF h
<1>5. IsForm(g) /\ g.bias = f.bias
  BY <1>3, <1>4
<1> HIDE DEF g
<1> QED BY <1>1, <1>5, RelistedIs

(* A point is recorded with the sensor that is selected.                   *)
LEMMA RecordedPoint ==
  ASSUME NEW f, IsForm(f), Selected(f) # <<>>, NEW i \in 1 .. 2, NEW t
  PROVE  /\ IsForm([f EXCEPT !.measured[i] = t,
                             !.records[i] = <<[on |-> Selected(f)[1], surface |-> t]>>])
         /\ [f EXCEPT !.measured[i] = t,
                      !.records[i] = <<[on |-> Selected(f)[1], surface |-> t]>>].bias = f.bias
<1> DEFINE x == Selected(f)[1]  p == [on |-> x, surface |-> t]  r == <<p>>
           g == [f EXCEPT !.measured[i] = t, !.records[i] = r]
           ms == [f.measured EXCEPT ![i] = t]  rs == [f.records EXCEPT ![i] = r]
<1>1. HasFields(f, FormFields) /\ Measured(f.base) /\ IsSeq(f.sources)
      /\ f.measured = <<f.measured[1], f.measured[2]>>
      /\ f.records = <<f.records[1], f.records[2]>>
      /\ IsRecord(f, f.records[1]) /\ IsRecord(f, f.records[2])
  BY Zenon DEF IsForm, FormFields
<1>2. Selected(f) = <<x>>
  BY DEF Selected
<1>3. r # <<>> /\ r = <<r[1]>> /\ r[1].on = x
  OBVIOUS
<1> HIDE DEF x, r
<1>4. HasFields(g, FormFields) /\ g.base = f.base /\ g.sources = f.sources
      /\ g.index = f.index /\ g.records = rs /\ g.measured = ms /\ g.bias = f.bias
  BY <1>1 DEF HasFields, FormFields
<1>5. ms = <<ms[1], ms[2]>> /\ rs = <<rs[1], rs[2]>>
      /\ \A j \in 1 .. 2 : rs[j] = r \/ rs[j] = f.records[j]
  BY <1>1
<1> HIDE DEF g, ms, rs
<1>6. Selected(g) = <<x>>
  BY <1>2, <1>4, Zenon DEF Selected
<1>7. \A s : IsRecord(f, s) => IsRecord(g, s)
  BY <1>2, <1>6, Zenon DEF IsRecord
<1>8. IsRecord(g, r)
  BY <1>3, <1>6 DEF IsRecord
<1>9. IsRecord(g, rs[1]) /\ IsRecord(g, rs[2])
  <2>1. (rs[1] = r \/ rs[1] = f.records[1]) /\ (rs[2] = r \/ rs[2] = f.records[2])
    BY <1>5
  <2> QED BY <1>1, <1>7, <1>8, <2>1, Zenon
<1>10. IsForm(g)
  BY <1>1, <1>4, <1>5, <1>9, Zenon DEF IsForm, FormFields
<1> QED BY <1>4, <1>10 DEF g, r, x

(* The form stands for measured calibrations only.                         *)
LEMMA CalibrationsAre ==
  ASSUME NEW f, IsForm(f), NEW c \in Calibrations(f)
  PROVE  Measured(c)
<1>1. /\ Measured(f.base) /\ f.measured = <<f.measured[1], f.measured[2]>>
      /\ IsRecord(f, f.records[1]) /\ IsRecord(f, f.records[2])
  BY Zenon DEF IsForm
<1>2. CASE c = f.base
  BY <1>1, <1>2
<1>3. CASE c # f.base
  <2> DEFINE x == Selected(f)[1]  ps == <<f.records[1][1], f.records[2][1]>>
             k == [sensor |-> x, points |-> ps, shown |-> f.measured]
  <2>1. /\ f.records[1] # <<>> /\ f.records[2] # <<>> /\ StillShown(f) /\ c = <<k>>
    BY <1>3 DEF Calibrations
  <2>2. /\ Selected(f) = <<f.records[1][1].on>> /\ Selected(f) = <<f.records[2][1].on>>
    BY <1>1, <2>1, Zenon DEF IsRecord
  <2>3. f.records[1][1].on = x /\ f.records[2][1].on = x
    BY <2>2
  <2>4. f.measured[1] = f.records[1][1].surface /\ f.measured[2] = f.records[2][1].surface
    BY <2>1 DEF StillShown
  <2> DEFINE a == f.records[1][1]  b == f.records[2][1]  m == f.measured
  <2>5. a.on = x /\ b.on = x /\ m[1] = a.surface /\ m[2] = b.surface
    BY <2>3, <2>4
  <2>6. k = [sensor |-> x, points |-> <<a, b>>, shown |-> m]
    OBVIOUS
  <2> HIDE DEF x, a, b, m, ps, k
  <2>7. k.points = <<a, b>> /\ k.sensor = x /\ k.shown = m
    BY <2>6
  <2>8. \A p \in DOMAIN k.points : k.points[p].on = k.sensor /\ k.points[p].surface = k.shown[p]
    BY <2>5, <2>7
  <2>9. c = <<k>> /\ c[1] = k
    BY <2>1
  <2> QED BY <2>8, <2>9 DEF Measured
<1> QED BY <1>2, <1>3

(* A gesture on the form or on the panel's preference asks for a save, or  *)
(* edits the draft.                                                        *)
Asked(by, c) ==
  /\ alive /\ save = <<>> /\ queue' = queue \o <<c>> /\ reply' = "waiting"
  /\ save' = <<[by |-> by, previous |-> published.config.bias, asked |-> c]>>

Tuning(b) == [kind |-> "tuning", bias |-> b]

Policy(b, t, c) == [kind |-> "policy", bias |-> b, target |-> t, calibration |-> c]

SameDraft ==
  /\ (touched' <=> touched) /\ (form' = <<>> <=> form = <<>>)
  /\ form # <<>> => form'[1].bias = form[1].bias

Edited ==
  \/ SameDraft
  \/ form # <<>> /\ form' # <<>> /\ touched' /\ session = "preference"
  \/ /\ form # <<>> /\ form' # <<>>
     /\ published.found.discovered /\ form'[1].bias = published.config.bias

FormStep ==
  /\ UNCHANGED <<worker, prompts, published, session, curve, desk>> /\ session \in FormSessions
  /\ gestures' = gestures + 1 /\ FormInv'
  /\ \/ UNCHANGED <<queue, reply, save>> /\ Edited
     \/ (\E b : Asked("panel", Tuning(b))) /\ SameDraft /\ session = "preference"
     \/ (\E t, c : Measured(c) /\ Asked("form", Policy(form[1].bias, t, c))) /\ SameDraft
        /\ form # <<>>

(* An edit that keeps the preference.                                      *)
LEMMA DraftEdited ==
  ASSUME session \in FormSessions, session' = session, form # <<>>, touched' = touched,
         NEW g, IsForm(g), g.bias = form[1].bias, form' = <<g>>
  PROVE  FormInv' /\ SameDraft
<1>1. form'[1] = g /\ form' # <<>>
  OBVIOUS
<1> QED BY <1>1 DEF FormInv, SameDraft

(* Every gesture on the two surfaces of the preference is such a step.     *)
LEMMA FormGestures ==
  ASSUME SettingsInv, FormInv, PreferenceGesture \/ CalibrationGesture
  PROVE  FormStep
<1> DEFINE f == form[1]
           Same == UNCHANGED <<worker, prompts, published, session, curve, desk>>
<1>1. Same /\ gestures' = gestures + 1 /\ session' = session /\ session \in FormSessions
  <2>1. Same /\ gestures' = gestures + 1 /\ session \in {"preference", "calibration"}
    BY Zenon DEF PreferenceGesture, CalibrationGesture, Gesture, Prefer, Aim, Retype, Record,
                 ChooseSource, Clear, Revert, Edit, SavePolicy, SavePanelTuning, channel
  <2> QED BY <2>1 DEF FormSessions
<1>2. form # <<>> => form = <<f>> /\ IsForm(f) /\ HasFields(f, FormFields)
  BY Zenon DEF FormInv, IsForm, FormFields
<1>3. ASSUME form # <<>>, UNCHANGED <<queue, reply, save>>, touched' = touched,
             NEW g, IsForm(g), g.bias = f.bias, form' = <<g>>
      PROVE  FormStep
  BY <1>1, <1>3, DraftEdited, Zenon DEF FormStep, Edited
<1>4. CASE Prefer /\ session = "preference"
  <2>1. form # <<>> /\ UNCHANGED <<queue, reply, save>> /\ touched'
    BY <1>4, Zenon DEF Prefer, Edit, channel
  <2>2. PICK b : form' = <<[f EXCEPT !.bias = b]>>
    BY <1>4, Zenon DEF Prefer, Edit
  <2> DEFINE g == [f EXCEPT !.bias = b]
  <2>3. IsForm(g)
    <3>1. \A i \in 1 .. 2 : IsForm(g)
      BY <1>2, <2>1, FormEdits
    <3>2. 1 \in 1 .. 2
      OBVIOUS
    <3> QED BY <3>1, <3>2, Zenon
  <2> HIDE DEF g
  <2>4. form' # <<>> /\ form'[1] = g /\ form' = <<g>>
    BY <2>2 DEF g
  <2>5. FormInv'
    BY <1>1, <2>3, <2>4 DEF FormInv
  <2> QED BY <1>1, <1>4, <2>1, <2>4, <2>5, Zenon DEF FormStep, Edited
<1>5. CASE Aim
  <2>1. form # <<>> /\ UNCHANGED <<queue, reply, save>> /\ touched' = touched
    BY <1>5, Zenon DEF Aim, Edit, channel
  <2>2. PICK t : form' = <<Refreshed([f EXCEPT !.target = t])>>
    BY <1>5, Zenon DEF Aim, Edit
  <2> DEFINE h == [f EXCEPT !.target = t]  g == Refreshed(h)
  <2>3. IsForm(h)
    <3>1. \A i \in 1 .. 2 : IsForm(h)
      BY <1>2, <2>1, FormEdits
    <3>2. 1 \in 1 .. 2
      OBVIOUS
    <3> QED BY <3>1, <3>2, Zenon
  <2>4. h.bias = f.bias
    BY <1>2, <2>1 DEF HasFields, FormFields
  <2>5. form' = <<g>>
    BY <2>2
  <2> HIDE DEF h
  <2>6. IsForm(g) /\ g.bias = h.bias
    BY <2>3, RefreshedIs
  <2> HIDE DEF g
  <2> QED BY <1>3, <2>1, <2>4, <2>5, <2>6
<1>6. CASE Retype
  <2>1. form # <<>> /\ UNCHANGED <<queue, reply, save>> /\ touched' = touched
    BY <1>6, Zenon DEF Retype, Edit, channel
  <2>2. PICK i \in 1 .. 2 : \E t : form' = <<[f EXCEPT !.measured[i] = t]>>
    BY <1>6, Zenon DEF Retype, Edit
  <2>3. PICK t : form' = <<[f EXCEPT !.measured[i] = t]>>
    BY <2>2
  <2> DEFINE g == [f EXCEPT !.measured[i] = t]
  <2>4. IsForm(g)
    BY <1>2, <2>1, FormEdits
  <2>5. g.bias = f.bias
    BY <1>2, <2>1 DEF HasFields, FormFields
  <2> HIDE DEF g
  <2>6. form' = <<g>>
    BY <2>3 DEF g
  <2> QED BY <1>3, <2>1, <2>4, <2>5, <2>6
<1>7. CASE Record
  <2>1. form # <<>> /\ UNCHANGED <<queue, reply, save>> /\ touched' = touched
        /\ Selected(f) # <<>>
    BY <1>7, Zenon DEF Record, Edit, channel
  <2>2. PICK i \in 1 .. 2 : \E t : form' =
          <<[f EXCEPT !.measured[i] = t,
                      !.records[i] = <<[on |-> Selected(f)[1], surface |-> t]>>]>>
    BY <1>7, Zenon DEF Record, Edit
  <2>3. PICK t : form' =
          <<[f EXCEPT !.measured[i] = t,
                      !.records[i] = <<[on |-> Selected(f)[1], surface |-> t]>>]>>
    BY <2>2
  <2> DEFINE g == [f EXCEPT !.measured[i] = t,
                            !.records[i] = <<[on |-> Selected(f)[1], surface |-> t]>>]
  <2>4. IsForm(g) /\ g.bias = f.bias
    BY <1>2, <2>1, RecordedPoint
  <2> HIDE DEF g
  <2>5. form' = <<g>>
    BY <2>3 DEF g
  <2> QED BY <1>3, <2>1, <2>4, <2>5
<1>8. CASE ChooseSource
  <2>1. form # <<>> /\ UNCHANGED <<queue, reply, save>> /\ touched' = touched
    BY <1>8, Zenon DEF ChooseSource, Edit, channel
  <2>2. PICK k : form' = <<SourceChanged([f EXCEPT !.index = k])>>
    BY <1>8, Zenon DEF ChooseSource, Edit
  <2> DEFINE g == SourceChanged([f EXCEPT !.index = k])
  <2>3. IsForm(g)
    <3>1. \A i \in 1 .. 2 : IsForm(g)
      BY <1>2, <2>1, FormEdits
    <3>2. 1 \in 1 .. 2
      OBVIOUS
    <3> QED BY <3>1, <3>2, Zenon
  <2>4. g.bias = f.bias
    BY <1>2, <2>1 DEF HasFields, FormFields, SourceChanged
  <2> HIDE DEF g
  <2>5. form' = <<g>>
    BY <2>2 DEF g
  <2> QED BY <1>3, <2>1, <2>3, <2>4, <2>5
<1>9. CASE Clear
  <2> DEFINE g == SourceChanged([f EXCEPT !.base = <<>>])
  <2>1. form # <<>> /\ UNCHANGED <<queue, reply, save>> /\ touched' = touched /\ form' = <<g>>
    BY <1>9, Zenon DEF Clear, Edit, channel
  <2>2. IsForm(g)
    <3>1. \A i \in 1 .. 2 : IsForm(g)
      BY <1>2, <2>1, FormEdits
    <3>2. 1 \in 1 .. 2
      OBVIOUS
    <3> QED BY <3>1, <3>2, Zenon
  <2>3. g.bias = f.bias
    BY <1>2, <2>1 DEF HasFields, FormFields, SourceChanged
  <2> HIDE DEF g
  <2> QED BY <1>3, <2>1, <2>2, <2>3
<1>10. CASE Revert
  <2>1. /\ form # <<>> /\ UNCHANGED <<queue, reply, save>>
        /\ form' = Rebuilt(form, save # <<>>)
        /\ touched' = (touched /\ ~published.found.discovered)
    BY <1>10, Zenon DEF Revert, channel
  <2>2. CASE ~published.found.discovered
    <3>1. form' = form /\ form' = <<f>>
      BY <1>2, <2>1, <2>2 DEF Rebuilt
    <3>2. FormInv'
      BY <1>1, <3>1, Zenon DEF FormInv, IsForm, IsRecord, Selected
    <3>3. UNCHANGED <<queue, reply, save>>
      BY <2>1
    <3>4. Edited
      <4>1. CASE touched
        BY <2>1, <2>2, <3>1, <4>1, Zenon DEF Edited, SameDraft
      <4>2. CASE ~touched
        BY <2>1, <2>2, <3>1, <4>2, Zenon DEF Edited, SameDraft
      <4> QED BY <4>1, <4>2
    <3> QED BY <1>1, <3>2, <3>3, <3>4, Zenon DEF FormStep
  <2>3. CASE published.found.discovered
    <3> DEFINE l == save # <<>>  g == Built(l)
    <3>1. form' = <<g>>
      BY <2>1, <2>3, Zenon DEF Rebuilt
    <3> HIDE DEF l
    <3>2. IsForm(g) /\ g.bias = published.config.bias
      BY BuiltIs
    <3> HIDE DEF g
    <3>3. form' # <<>> /\ form'[1] = g
      BY <3>1
    <3>4. FormInv'
      BY <1>1, <3>1, <3>2, <3>3 DEF FormInv
    <3>5. Edited
      BY <2>1, <2>3, <3>2, <3>3, Zenon DEF Edited
    <3> QED BY <1>1, <2>1, <3>4, <3>5, Zenon DEF FormStep
  <2> QED BY <2>2, <2>3
<1>11. CASE SavePanelTuning /\ session = "preference"
  <2>1. form' = form /\ touched' = touched /\ save = <<>>
    BY <1>11, Zenon DEF SavePanelTuning
  <2>2. PICK b : Ask("panel", Tuning(b))
    BY <1>11, Zenon DEF SavePanelTuning, Tuning
  <2>3. FormInv' /\ SameDraft
    BY <1>1, <2>1, Zenon DEF FormInv, SameDraft, IsForm, IsRecord, Selected
  <2>4. CASE alive
    <3>1. Asked("panel", Tuning(b))
      BY <2>1, <2>2, <2>4, Zenon DEF Ask, Asked, Send
    <3> QED BY <1>1, <1>11, <2>3, <3>1, Zenon DEF FormStep
  <2>5. CASE ~alive
    <3>1. UNCHANGED <<queue, reply, save>>
      BY <2>2, <2>5, Zenon DEF Ask
    <3> QED BY <1>1, <2>3, <3>1, Zenon DEF FormStep, Edited
  <2> QED BY <2>4, <2>5
<1>12. CASE SavePolicy
  <2>1. /\ form # <<>> /\ touched' = touched /\ save = <<>>
        /\ form' = IF alive THEN <<[f EXCEPT !.locked = TRUE]>> ELSE form
    BY <1>12, Zenon DEF SavePolicy
  <2>2. PICK c \in Calibrations(f) : Ask("form", Policy(f.bias, f.target, c))
    BY <1>12, Zenon DEF SavePolicy, Policy
  <2>3. Measured(c)
    BY <1>2, <2>1, CalibrationsAre
  <2> DEFINE g == [f EXCEPT !.locked = TRUE]
  <2>4. IsForm(g)
    <3>1. \A i \in 1 .. 2 : IsForm(g)
      BY <1>2, <2>1, FormEdits
    <3>2. 1 \in 1 .. 2
      OBVIOUS
    <3> QED BY <3>1, <3>2, Zenon
  <2>5. g.bias = f.bias
    BY <1>2, <2>1 DEF HasFields, FormFields
  <2> HIDE DEF g
  <2>6. CASE alive
    <3>1. form' = <<g>>
      BY <2>1, <2>6 DEF g
    <3>2. FormInv' /\ SameDraft
      BY <1>1, <2>1, <2>4, <2>5, <3>1, DraftEdited
    <3>3. Asked("form", Policy(f.bias, f.target, c))
      BY <2>1, <2>2, <2>6, Zenon DEF Ask, Asked, Send
    <3> QED BY <1>1, <2>1, <2>3, <3>2, <3>3, Zenon DEF FormStep
  <2>7. CASE ~alive
    <3>1. UNCHANGED <<queue, reply, save>>
      BY <2>2, <2>7, Zenon DEF Ask
    <3>2. form' = form
      BY <2>1, <2>7
    <3>3. FormInv' /\ SameDraft
      BY <1>1, <2>1, <3>2, Zenon DEF FormInv, SameDraft, IsForm, IsRecord, Selected
    <3> QED BY <1>1, <3>1, <3>3, Zenon DEF FormStep, Edited
  <2> QED BY <2>6, <2>7
<1>13. \/ (Prefer /\ session = "preference")
       \/ (SavePanelTuning /\ session = "preference")
       \/ Aim \/ Retype \/ Record \/ ChooseSource \/ Clear \/ SavePolicy \/ Revert
  <2>1. CASE PreferenceGesture
    <3>1. session \in {"preference"}
      BY <2>1, Zenon DEF PreferenceGesture, Gesture
    <3>2. Prefer \/ SavePanelTuning \/ SavePolicy \/ Revert
      BY <2>1, Zenon DEF PreferenceGesture
    <3> QED BY <3>1, <3>2
  <2>2. CASE CalibrationGesture
    BY <2>2, Zenon DEF CalibrationGesture
  <2> QED BY <2>1, <2>2
<1> QED BY <1>4, <1>5, <1>6, <1>7, <1>8, <1>9, <1>10, <1>11, <1>12, <1>13

-----------------------------------------------------------------------------
(* The steps of the whole system.                                          *)

EditorStep ==
  /\ \E cs : /\ UserStep(cs) /\ Plain(cs)
             /\ \A i \in 1 .. Len(cs) : cs[i].kind = "configure" => cs[i].setting.by = Disk
  /\ session = "editor" /\ UNCHANGED <<smart, reply, desk>>
  /\ gestures' \in {gestures, gestures + 1} /\ EditorInv'

(* Every gesture in the editor is such a step.                             *)
LEMMA EditorSteps ==
  ASSUME SettingsInv, DiskInv, EditorInv, EditorGesture \/ LetGo
  PROVE  EditorStep
<1>1. CASE EditorGesture
  <2>1. /\ session' = session /\ session \in {"editor"} /\ gestures' = gestures + 1
        /\ UNCHANGED <<smart, desk>>
    BY <1>1, Zenon DEF EditorGesture, Gesture
  <2>2. EditorInv'
    <3>1. IsConfig(published.config)
      BY Zenon DEF SettingsInv
    <3>2. session = "editor" => \A f \in Fans : Seen(f).by = Disk
      BY Zenon DEF DiskInv
    <3> QED BY <1>1, <3>1, <3>2, EditorGestures
  <2>3. CASE UNCHANGED <<worker, channel>>
    <3>1. UserStep(<<>>)
      BY <2>1, <2>3, NoCommand, Zenon DEF UserStep, Sent, channel
    <3>2. reply' = reply
      BY <2>3, Zenon DEF channel
    <3>3. gestures' \in {gestures, gestures + 1}
      BY <2>1
    <3>4. session = "editor"
      BY <2>1
    <3> QED BY <2>1, <2>2, <3>1, <3>2, <3>3, <3>4, NoCommand, Zenon DEF EditorStep
  <2>4. CASE SaveCurve
    <3> DEFINE c == Read(editor[1])[1].curve[1]
               each == ConfigsForCurve(c)
               one == <<ConfigureCommand(editor[1].fan, Read(editor[1])[1])>>
    <3>1. /\ editor # <<>> /\ Read(editor[1]) # <<>>
          /\ UNCHANGED <<worker, reply, prompts, published>>
          /\ Send(IF published.found.fans THEN each ELSE <<>>) \/ Send(one)
      BY <2>4, Zenon DEF SaveCurve
    <3>2. AreSettings(each, Disk) /\ AreSettings(one, Disk)
      BY <3>1, CurveSettings
    <3> HIDE DEF each, one
    <3>3. Send(each) \/ Send(one) \/ Send(<<>>)
      BY <3>1, Zenon
    <3>4. PICK cs : Send(cs) /\ AreSettings(cs, Disk)
      BY <3>2, <3>3, NoSettings, Zenon
    <3>5. IsSeq(cs) /\ Plain(cs) /\ \A i \in 1 .. Len(cs) : Allowed(cs[i])
      BY <3>4, SettingsAllowed
    <3>6. UserStep(cs)
      BY <2>1, <3>1, <3>4, <3>5, Zenon DEF UserStep, Sent, Send
    <3>7. \A i \in 1 .. Len(cs) : cs[i].kind = "configure" => cs[i].setting.by = Disk
      BY <3>4, Zenon DEF AreSettings
    <3>8. gestures' \in {gestures, gestures + 1} /\ session = "editor"
      BY <2>1
    <3> QED BY <2>1, <2>2, <3>1, <3>5, <3>6, <3>7, <3>8, Zenon DEF EditorStep
  <2>5. UNCHANGED <<worker, channel>> \/ SaveCurve
    BY <1>1, Zenon DEF EditorGesture, OpenEditor, Cancel, TypeRow, TypeHysteresis, AllFans,
         CurvePreset, ResetCurve, AddPoint, RemovePoint, SourceChoice, Undo, Grab, Drag, Rebuild
  <2> QED BY <2>3, <2>4, <2>5
<1>2. CASE LetGo
  <2> DEFINE e == editor[1]  w == [e EXCEPT !.grabbed = 0]
  <2>1. /\ editor # <<>> /\ editor' = <<w>> /\ before' = before
        /\ UNCHANGED <<worker, channel, smart, desk, session, gestures>>
    BY <1>2, Zenon DEF LetGo, Release
  <2>2. IsEditor(e) /\ session = "editor"
    BY <2>1, EditorIs
  <2>3. IsEditor(w) /\ w.undo = e.undo
    BY <2>2 DEF IsEditor, HasFields
  <2> HIDE DEF w
  <2>4. EditorInv'
    BY <2>1, <2>3, FieldEdited
  <2>5. UserStep(<<>>) /\ reply' = reply
    BY <2>1, NoCommand, Zenon DEF UserStep, Sent, channel
  <2>6. gestures' \in {gestures, gestures + 1}
    BY <2>1
  <2> QED BY <2>1, <2>2, <2>4, <2>5, <2>6, NoCommand, Zenon DEF EditorStep
<1> QED BY <1>1, <1>2

(* The tick keeps the stack of the editor.                                 *)
LEMMA EditorRefreshed ==
  ASSUME EditorInv, session' = session, before' = before, editor' = RefreshedEditor
  PROVE  EditorInv'
<1> DEFINE e == editor[1]  v == Values(e, e.rows)
           c == IF v = <<>> THEN e.chart ELSE v[1].curve[1]
           w == [e EXCEPT !.recorded = FALSE, !.chart = c]
<1>1. CASE editor' = editor
  BY <1>1 DEF EditorInv, UndoRestores, IsEditor, AreDrafts
<1>2. CASE editor # <<>> /\ editor' # editor
  <2>1. IsEditor(e)
    BY <1>2, EditorIs
  <2>2. editor' = <<[e EXCEPT !.recorded = FALSE,
                              !.chart = IF v = <<>> THEN @ ELSE v[1].curve[1]]>>
    BY <1>2, Zenon DEF RefreshedEditor
  <2>3. v # <<>> => IsDraft(v[1])
    BY <2>1, ValuesAreDrafts
  <2>4. [e EXCEPT !.recorded = FALSE, !.chart = IF v = <<>> THEN @ ELSE v[1].curve[1]] = w
    <3> HIDE DEF v, e
    <3> QED BY <2>1 DEF IsEditor, HasFields
  <2>5. IsCurve(c)
    BY <2>1, <2>3 DEF IsEditor, IsDraft, IsSetting
  <2> HIDE DEF c
  <2>6. IsEditor(w) /\ w.undo = e.undo
    BY <2>1, <2>5 DEF IsEditor, HasFields
  <2>7. editor' = <<w>>
    BY <2>2, <2>4
  <2> HIDE DEF w
  <2> QED BY <1>2, <2>6, <2>7, FieldEdited
<1>3. CASE editor = <<>>
  BY <1>1, <1>3 DEF RefreshedEditor
<1> QED BY <1>1, <1>2, <1>3

(* What the interface does, and what happens beside it.                    *)
InterfaceStep == DeskStep \/ RefreshStep \/ FormStep \/ EditorStep

WorkerStep == Serve \/ \E outage \in BOOLEAN : EndPass(outage)

(* Every step is one of the interface, the worker or a thread beside it.   *)
LEMMA UiSteps ==
  ASSUME SettingsInv, DiskInv, EditorInv, FormInv, DeskInv, OrderInv, UiNext
  PROVE  InterfaceStep \/ ((WorkerStep \/ Answer \/ Die) /\ Outside)
<1>0. gestures \in Nat
  BY Zenon DEF OrderInv
<1>1. CASE User
  <2>1. DeskGesture \/ PreferenceGesture \/ CalibrationGesture \/ EditorGesture \/ LetGo
    BY <1>1, Zenon DEF User, DeskGesture
  <2>2. DeskGesture => DeskStep
    BY <1>0, DeskGestures
  <2>3. PreferenceGesture \/ CalibrationGesture => FormStep
    BY FormGestures
  <2>4. EditorGesture \/ LetGo => EditorStep
    BY EditorSteps
  <2> QED BY <2>1, <2>2, <2>3, <2>4, Zenon DEF InterfaceStep
<1>2. CASE Refresh
  BY <1>2, Refreshes, Zenon DEF InterfaceStep
<1>3. CASE Work
  <2>1. Outside /\ (Serve \/ \E outage \in {FALSE, session = "calibration"} : EndPass(outage))
    BY <1>3, Zenon DEF Work
  <2>2. (session = "calibration") \in BOOLEAN
    OBVIOUS
  <2> QED BY <2>1, <2>2, Zenon DEF WorkerStep
<1> QED BY <1>1, <1>2, <1>3, Zenon DEF UiNext

(* The form sends nothing that sets a fan.                                 *)
LEMMA FormSends ==
  ASSUME FormStep
  PROVE  \E cs : UserStep(cs) /\ \A i \in 1 .. Len(cs) : cs[i].kind # "configure"
<1>1. UNCHANGED <<worker, prompts, published, session>>
  BY Zenon DEF FormStep
<1>2. ASSUME NEW c, NEW by, Asked(by, c), Allowed(c), c.kind # "configure"
      PROVE  \E cs : UserStep(cs) /\ \A i \in 1 .. Len(cs) : cs[i].kind # "configure"
  <2> DEFINE cs == <<c>>
  <2>1. IsSeq(cs) /\ Len(cs) = 1 /\ cs[1] = c
    BY ShortSeq
  <2>2. alive /\ queue' = queue \o cs
    BY <1>2, Zenon DEF Asked
  <2> HIDE DEF cs
  <2>3. \A i \in 1 .. Len(cs) : Allowed(cs[i]) /\ cs[i].kind # "configure"
    BY <1>2, <2>1
  <2>4. UserStep(cs)
    BY <1>1, <2>1, <2>2, <2>3, Zenon DEF UserStep, Sent
  <2> QED BY <2>3, <2>4
<1>3. \A b : Allowed(Tuning(b)) /\ Tuning(b).kind # "configure"
  BY DEF Allowed, IsCommand, AnswerKinds, Tuning
<1>4. \A b, t, c : Measured(c) => Allowed(Policy(b, t, c)) /\ Policy(b, t, c).kind # "configure"
  BY DEF Allowed, IsCommand, AnswerKinds, Policy
<1>5. queue' = queue => UserStep(<<>>)
  BY <1>1, NoCommand, Zenon DEF UserStep, Sent
<1> QED BY <1>2, <1>3, <1>4, <1>5, NoCommand, Zenon DEF FormStep

(* Whatever the interface does, it sends commands that are allowed.        *)
LEMMA InterfaceSends ==
  ASSUME InterfaceStep
  PROVE  \E cs : UserStep(cs)
<1>1. CASE DeskStep \/ RefreshStep \/ EditorStep
  BY <1>1, Zenon DEF DeskStep, RefreshStep, EditorStep
<1>2. CASE FormStep
  BY <1>2, FormSends
<1> QED BY <1>1, <1>2, Zenon DEF InterfaceStep

(* The channel after a step that sends, and after one that takes.          *)
LEMMA QueueSent ==
  ASSUME IsSeq(queue), NEW cs, Sent(cs)
  PROVE  /\ IsSeq(queue') /\ Len(queue) \in Nat /\ Len(queue') \in Nat /\ Len(queue) <= Len(queue')
         /\ \A i \in 1 .. Len(queue) : queue'[i] = queue[i]
         /\ \A i \in 1 .. Len(queue') :
              \/ i \in 1 .. Len(queue) /\ queue'[i] = queue[i]
              \/ /\ alive /\ queue' # queue
                 /\ i - Len(queue) \in 1 .. Len(cs) /\ queue'[i] = cs[i - Len(queue)]
<1>1. Len(queue) \in Nat /\ IsSeq(cs) /\ Len(cs) \in Nat
  BY SeqIs DEF Sent
<1>2. CASE queue' = queue
  BY <1>1, <1>2
<1>3. CASE alive /\ queue' = queue \o cs /\ queue' # queue
  <2> DEFINE q == queue \o cs
  <2>1. /\ IsSeq(q) /\ Len(q) = Len(queue) + Len(cs)
        /\ \A i \in 1 .. Len(queue) + Len(cs) :
             q[i] = IF i <= Len(queue) THEN queue[i] ELSE cs[i - Len(queue)]
    BY <1>1, Joined
  <2>2. queue' = q
    BY <1>3
  <2> HIDE DEF q
  <2> QED BY <1>1, <1>3, <2>1, <2>2
<1> QED BY <1>2, <1>3, Zenon DEF Sent

(* The worker takes the oldest command and leaves the others in order.     *)
LEMMA QueueTaken ==
  ASSUME IsSeq(queue), NEW kind, Take(kind)
  PROVE  /\ alive /\ IsSeq(queue') /\ Len(queue) \in Nat /\ 1 \in 1 .. Len(queue)
         /\ Len(queue') = Len(queue) - 1 /\ Head(queue) = queue[1] /\ queue[1].kind = kind
         /\ \A i \in 1 .. Len(queue') : i + 1 \in 1 .. Len(queue) /\ queue'[i] = queue[i + 1]
<1>1. alive /\ queue # <<>> /\ Head(queue).kind = kind /\ queue' = Tail(queue)
  BY Zenon DEF Take
<1>2. Len(queue) \in Nat /\ 1 \in 1 .. Len(queue) /\ Head(queue) = queue[1]
  BY <1>1, SeqIs
<1> DEFINE q == Tail(queue)
<1>3. IsSeq(q) /\ Len(q) = Len(queue) - 1 /\ \A i \in 1 .. Len(queue) - 1 : q[i] = queue[i + 1]
  BY <1>1, Taken
<1>4. queue' = q
  BY <1>1
<1> HIDE DEF q
<1>5. \A i \in 1 .. Len(q) : i + 1 \in 1 .. Len(queue) /\ q[i] = queue[i + 1]
  BY <1>2, <1>3
<1> QED BY Zenon, <1>1, <1>2, <1>3, <1>4, <1>5

-----------------------------------------------------------------------------
(* The worker, as far as the settings go.                                  *)

(* A setting is taken whole, by its own fan, or not at all.                *)
LEMMA ConfigureIs ==
  ASSUME IsConfig(config), NEW c, c.kind = "configure", IsCommand(c), NEW saved
  PROVE  /\ IsConfig(Configured(c, saved))
         /\ Configured(c, saved).calibration = config.calibration
         /\ Configured(c, saved).bias = config.bias
         /\ \A f \in Fans : \/ Configured(c, saved).fans[f] = config.fans[f]
                            \/ Configured(c, saved).fans[f] = c.setting
<1> DEFINE g == c.fan  s == c.setting  n == [config EXCEPT !.fans[g] = s]
<1>1. g \in Fans /\ IsSaved(s)
  BY DEF IsCommand
<1>2. Configured(c, saved) \in {config, n}
  BY DEF Configured
<1> HIDE DEF g, s
<1>3. /\ HasFields(n, {"fans", "bias", "target", "calibration"})
      /\ n.fans = [config.fans EXCEPT ![g] = s]
      /\ n.calibration = config.calibration /\ n.bias = config.bias
  BY DEF IsConfig, HasFields
<1> HIDE DEF n
<1>4. /\ HasFields(n.fans, Fans)
      /\ \A f \in Fans : n.fans[f] = config.fans[f] \/ n.fans[f] = s
  BY <1>1, <1>3 DEF IsConfig, HasFields
<1>5. IsConfig(n)
  <2>1. \A f \in Fans : IsSaved(config.fans[f])
    BY Zenon DEF IsConfig
  <2>2. \A f \in Fans : IsSaved(n.fans[f])
    BY <2>1, <1>1, <1>4
  <2> QED BY <1>3, <1>4, <2>2, Zenon DEF IsConfig
<1>6. CASE Configured(c, saved) = n
  BY <1>3, <1>4, <1>5, <1>6 DEF s
<1>7. CASE Configured(c, saved) = config
  BY <1>7
<1> QED BY <1>2, <1>6, <1>7

(* A policy or tuning is in force as it was asked, the fans are untouched. *)
LEMMA SmartIs ==
  ASSUME IsConfig(config), Measured(config.calibration),
         NEW c, c.kind \in SmartKinds, IsCommand(c)
  PROVE  /\ IsConfig(Smart(c)) /\ Measured(Smart(c).calibration)
         /\ Smart(c).fans = config.fans /\ Holds(Smart(c), c)
<1> DEFINE n == Smart(c)
<1>1. CASE c.kind = "tuning"
  <2>1. n = [config EXCEPT !.bias = c.bias]
    BY <1>1 DEF Smart
  <2> HIDE DEF n
  <2>2. /\ HasFields(n, {"fans", "bias", "target", "calibration"})
        /\ n.fans = config.fans /\ n.bias = c.bias /\ n.calibration = config.calibration
    BY <2>1 DEF IsConfig, HasFields
  <2>3. IsConfig(n) /\ Measured(n.calibration) /\ Holds(n, c)
    BY <1>1, <2>2 DEF IsConfig, Holds
  <2> QED BY <2>2, <2>3 DEF n
<1>2. CASE c.kind = "policy"
  <2>1. n = [config EXCEPT !.bias = c.bias, !.target = c.target, !.calibration = c.calibration]
    BY <1>2 DEF Smart
  <2> HIDE DEF n
  <2>2. /\ HasFields(n, {"fans", "bias", "target", "calibration"})
        /\ n.fans = config.fans /\ n.bias = c.bias /\ n.calibration = c.calibration
    BY <2>1 DEF IsConfig, HasFields
  <2>3. IsConfig(n) /\ Measured(n.calibration) /\ Holds(n, c)
    BY <1>2, <2>2 DEF IsConfig, Holds, IsCommand
  <2> QED BY <2>2, <2>3 DEF n
<1> QED BY <1>1, <1>2 DEF SmartKinds

(* A reset changes the modes, not where the settings come from.            *)
LEMMA ReturnedIs ==
  ASSUME IsConfig(config)
  PROVE  /\ IsConfig(Returned)
         /\ Returned.calibration = config.calibration /\ Returned.bias = config.bias
         /\ \A f \in Fans : /\ Returned.fans[f].by = config.fans[f].by
                            /\ Returned.fans[f].mode = "system"
<1> DEFINE fans == [f \in Fans |-> [config.fans[f] EXCEPT !.mode = "system"]]
           n == [config EXCEPT !.fans = fans]
<1>1. Returned = n
  BY DEF Returned, IsConfig, HasFields
<1>2. /\ HasFields(fans, Fans)
      /\ \A f \in Fans : fans[f] = [config.fans[f] EXCEPT !.mode = "system"]
  BY DEF HasFields
<1> HIDE DEF fans
<1>3. /\ HasFields(n, {"fans", "bias", "target", "calibration"}) /\ n.fans = fans
      /\ n.calibration = config.calibration /\ n.bias = config.bias
  BY DEF IsConfig, HasFields
<1>4. ASSUME NEW f \in Fans
      PROVE  IsSaved(fans[f]) /\ fans[f].by = config.fans[f].by /\ fans[f].mode = "system"
  <2> DEFINE s == config.fans[f]  t == [s EXCEPT !.mode = "system"]
  <2>1. IsSaved(s)
    BY Zenon DEF IsConfig
  <2> HIDE DEF s
  <2>2. /\ HasFields(t, {"mode", "rpm", "curve", "by"}) /\ t.curve = s.curve /\ t.by = s.by
        /\ t.mode = "system"
    BY <2>1 DEF IsSaved, IsSetting, HasFields
  <2>3. fans[f] = t
    BY <1>2 DEF s
  <2> HIDE DEF t
  <2>4. IsSaved(t)
    BY <2>1, <2>2 DEF IsSaved, IsSetting
  <2> QED BY <2>2, <2>3, <2>4 DEF s
<1> HIDE DEF n
<1>5. IsConfig(n)
  BY <1>2, <1>3, <1>4, Zenon DEF IsConfig
<1> QED BY <1>1, <1>3, <1>4, <1>5

(* What a command does, by its kind.                                       *)
TakesSetting ==
  /\ Take("configure") /\ IsConfig(config')
  /\ config'.calibration = config.calibration /\ config'.bias = config.bias
  /\ \A f \in Fans : config'.fans[f] = config.fans[f] \/ config'.fans[f] = queue[1].setting
  /\ installing => config' = config \/ queue[1].setting.mode = "system"
  /\ UNCHANGED <<alive, installing, found, reply, prompts, published>>

TakesSmart ==
  /\ Take("policy") \/ Take("tuning")
  /\ IsConfig(config') /\ Measured(config'.calibration) /\ config'.fans = config.fans
  /\ \/ reply' = "ok" /\ Holds(config', queue[1])
     \/ reply' = "error" /\ config' = config
  /\ published' = [published EXCEPT !.config = config']
  /\ UNCHANGED <<alive, installing, found, prompts>>

OtherKinds == {"reset", "install", "uninstall", "installed", "uninstalled", "retry"}

TakesOther ==
  /\ Reset \/ ServeUninstall \/ ServeInstall \/ Installed \/ Uninstalled \/ Retry
  /\ \E kind \in OtherKinds :
       /\ Take(kind) /\ config' \in {config, Returned} /\ IsConfig(config')
       /\ config'.calibration = config.calibration /\ config'.bias = config.bias
       /\ \A f \in Fans : config'.fans[f].by = config.fans[f].by
       /\ UNCHANGED <<alive, reply, published>>
       /\ found' = found \/ (kind = "retry" /\ \E machine :
                               found' = [found EXCEPT !.discovered = FALSE, !.machine = @ \/ machine])

Publishes ==
  /\ alive /\ queue' = queue /\ UNCHANGED <<alive, config, installing, reply, prompts>>
  /\ HasFields(published', {"config", "installing", "ready", "owed", "found"})
  /\ published'.config = config /\ published'.found = found'
  /\ \E outage \in BOOLEAN : found' = Sampled(outage)

(* Every step of the worker is one of these.                               *)
LEMMA WorkerSteps ==
  ASSUME SettingsInv, WorkerStep
  PROVE  TakesSetting \/ TakesSmart \/ TakesOther \/ Publishes
<1>1. /\ IsConfig(config) /\ Measured(config.calibration) /\ IsSeq(queue)
      /\ \A i \in 1 .. Len(queue) : IsCommand(queue[i])
  BY Zenon DEF SettingsInv
<1>2. ASSUME NEW kind, Take(kind)
      PROVE  Head(queue) = queue[1] /\ queue[1].kind = kind /\ IsCommand(queue[1])
  BY <1>1, <1>2, QueueTaken
<1> DEFINE c == queue[1]
<1>3. CASE Configure
  <2>1. /\ Take("configure")
        /\ UNCHANGED <<alive, installing, found, reply, prompts, published>>
    BY <1>3, Zenon DEF Configure
  <2>2. Head(queue) = c /\ c.kind = "configure" /\ IsCommand(c)
    BY <1>2, <2>1
  <2>3. \/ config' = config
        \/ (installing => c.setting.mode = "system") /\ \E saved : config' = Configured(c, saved)
    BY <1>3, <2>2, Zenon DEF Configure
  <2> HIDE DEF c
  <2>4. CASE config' = config
    BY <1>1, <2>1, <2>4, Zenon DEF TakesSetting
  <2>5. CASE (installing => c.setting.mode = "system") /\ \E saved : config' = Configured(c, saved)
    <3>1. PICK saved : config' = Configured(c, saved)
      BY <2>5
    <3> DEFINE n == Configured(c, saved)
    <3>2. /\ IsConfig(n) /\ n.calibration = config.calibration /\ n.bias = config.bias
          /\ \A f \in Fans : n.fans[f] = config.fans[f] \/ n.fans[f] = c.setting
      BY <1>1, <2>2, ConfigureIs
    <3>3. config' = n
      BY <3>1
    <3> HIDE DEF n
    <3> QED BY <2>1, <2>5, <3>2, <3>3, Zenon DEF TakesSetting, c
  <2> QED BY <2>3, <2>4, <2>5
<1>4. CASE ConfigureSmart
  <2>1. /\ Take("policy") \/ Take("tuning")
        /\ published' = [published EXCEPT !.config = config']
        /\ UNCHANGED <<alive, installing, found, prompts>>
    BY <1>4, Zenon DEF ConfigureSmart
  <2>2. Head(queue) = c /\ c.kind \in SmartKinds /\ IsCommand(c)
    BY <1>2, <2>1 DEF SmartKinds
  <2>3. PICK saved \in BOOLEAN : config' = (IF saved THEN Smart(c) ELSE config) /\ Acknowledge(saved)
    BY <1>4, <2>2, Zenon DEF ConfigureSmart
  <2> DEFINE n == Smart(c)
  <2>4. IsConfig(n) /\ Measured(n.calibration) /\ n.fans = config.fans /\ Holds(n, c)
    BY <1>1, <2>2, SmartIs
  <2> HIDE DEF n
  <2>5. CASE saved
    <3>1. config' = n /\ reply' = "ok"
      BY <2>3, <2>5 DEF Acknowledge, n
    <3> QED BY <2>1, <2>4, <3>1, Zenon DEF TakesSmart
  <2>6. CASE ~saved
    <3>1. config' = config /\ reply' = "error"
      BY <2>3, <2>6 DEF Acknowledge
    <3> QED BY <1>1, <2>1, <3>1, Zenon DEF TakesSmart
  <2> QED BY <2>5, <2>6
<1> DEFINE r == Returned
<1>5. /\ IsConfig(r) /\ r.calibration = config.calibration /\ r.bias = config.bias
      /\ \A f \in Fans : r.fans[f].by = config.fans[f].by
  BY <1>1, ReturnedIs
<1>6. ASSUME NEW kind \in OtherKinds, Take(kind), config' = config \/ config' = Returned,
             Reset \/ ServeUninstall \/ ServeInstall \/ Installed \/ Uninstalled \/ Retry,
             UNCHANGED <<alive, reply, published>>,
             found' = found \/ (kind = "retry" /\ \E machine :
                         found' = [found EXCEPT !.discovered = FALSE, !.machine = @ \/ machine])
      PROVE  TakesOther
  <2>1. config' \in {config, Returned}
    BY <1>6
  <2>2. config' = config \/ config' = r
    BY <1>6
  <2> HIDE DEF r
  <2>3. /\ IsConfig(config') /\ config'.calibration = config.calibration
        /\ config'.bias = config.bias /\ \A f \in Fans : config'.fans[f].by = config.fans[f].by
    BY <1>1, <1>5, <2>2
  <2> QED BY <1>6, <2>1, <2>3, Zenon DEF TakesOther
<1>7. {"reset", "install", "uninstall", "installed", "uninstalled", "retry"} = OtherKinds
  BY DEF OtherKinds
<1>8. CASE Reset \/ ServeUninstall \/ ServeInstall \/ Installed \/ Uninstalled \/ Retry
  <2>1. /\ \/ Take("reset") \/ Take("uninstall") \/ Take("install") \/ Take("installed")
           \/ Take("uninstalled") \/ (Take("retry") /\ Retry)
        /\ config' = config \/ config' = Returned
        /\ UNCHANGED <<alive, reply, published>> /\ (found' = found \/ Retry)
    BY <1>8, Zenon DEF Reset, ServeUninstall, ServeInstall, Installed, Uninstalled, Retry
  <2>2. CASE found' = found
    <3>1. PICK kind \in OtherKinds : Take(kind)
      BY <2>1, <1>7
    <3> QED BY <1>6, <1>8, <2>1, <2>2, <3>1
  <2>3. CASE Retry
    <3>1. /\ Take("retry") /\ config' = config /\ UNCHANGED <<alive, reply, published>>
          /\ \E machine : found' = [found EXCEPT !.discovered = FALSE, !.machine = @ \/ machine]
      BY <2>3, Zenon DEF Retry
    <3>2. "retry" \in OtherKinds
      BY DEF OtherKinds
    <3> QED BY <1>6, <1>8, <3>1, <3>2
  <2> QED BY <2>1, <2>2, <2>3
<1>9. ASSUME NEW outage \in BOOLEAN, EndPass(outage) PROVE Publishes
  <2>1. /\ alive /\ queue' = queue /\ UNCHANGED <<alive, config, installing, reply, prompts>>
        /\ found' = Sampled(outage)
        /\ published' = [config |-> config, installing |-> installing, ready |-> ready',
                         owed |-> owed', found |-> found']
    BY <1>9, Zenon DEF EndPass
  <2>2. /\ HasFields(published', {"config", "installing", "ready", "owed", "found"})
        /\ published'.config = config /\ published'.found = found'
    BY <2>1 DEF HasFields
  <2> QED BY <2>1, <2>2, Zenon DEF Publishes
<1>10. \/ Configure \/ ConfigureSmart
       \/ (Reset \/ ServeUninstall \/ ServeInstall \/ Installed \/ Uninstalled \/ Retry)
       \/ \E outage \in BOOLEAN : EndPass(outage)
  BY Zenon DEF WorkerStep, Serve
<1> QED BY <1>3, <1>4, <1>8, <1>9, <1>10

-----------------------------------------------------------------------------
(* The settings that are sent, in force and seen stay well formed.         *)

AnswerSent ==
  \E c : /\ c.kind \in AnswerKinds /\ Sent(<<c>>)
         /\ UNCHANGED <<alive, config, installing, found, reply, published>>

(* An administrator's answer goes into the channel.                        *)
LEMMA AnswerIs ==
  ASSUME Answer
  PROVE  AnswerSent
<1>1. PICK what, ok :
        /\ what \in {"install", "uninstall"}
        /\ Send(<<[kind |-> IF what = "install" THEN "installed" ELSE "uninstalled"]>>)
        /\ UNCHANGED <<alive, config, installing, found, reply, published>>
  BY Zenon DEF Answer
<1> DEFINE c == [kind |-> IF what = "install" THEN "installed" ELSE "uninstalled"]  cs == <<c>>
<1>2. c.kind \in AnswerKinds
  BY DEF AnswerKinds
<1>3. IsSeq(cs)
  BY ShortSeq
<1>4. Send(cs)
  BY <1>1
<1> HIDE DEF c
<1>5. Sent(<<c>>)
  BY <1>3, <1>4, Zenon DEF Sent, Send
<1> QED BY <1>1, <1>2, <1>5, Zenon DEF AnswerSent

(* What a step of the interface, of an installer, or a death does.         *)
LEMMA InterfaceKeeps ==
  ASSUME InterfaceStep
  PROVE  UNCHANGED <<alive, config, installing, found, prompts, published, session>>
<1>1. PICK cs : UserStep(cs)
  BY InterfaceSends
<1> QED BY <1>1, Zenon DEF UserStep, worker

(* Well-formed commands join well-formed ones.                             *)
LEMMA SettingsSent ==
  ASSUME SettingsInv, UNCHANGED <<config, published>>, NEW cs, Sent(cs),
         \A i \in 1 .. Len(cs) : IsCommand(cs[i])
  PROVE  SettingsInv'
<1>1. IsSeq(queue) /\ \A i \in 1 .. Len(queue) : IsCommand(queue[i])
  BY Zenon DEF SettingsInv
<1>2. IsSeq(queue') /\ \A i \in 1 .. Len(queue') :
        \/ i \in 1 .. Len(queue) /\ queue'[i] = queue[i]
        \/ i - Len(queue) \in 1 .. Len(cs) /\ queue'[i] = cs[i - Len(queue)]
  BY <1>1, QueueSent
<1>3. \A i \in 1 .. Len(queue') : IsCommand(queue'[i])
  BY <1>1, <1>2, Zenon
<1> QED BY <1>2, <1>3 DEF SettingsInv

(* A command that is taken leaves well-formed settings.                    *)
LEMMA SettingsTaken ==
  ASSUME SettingsInv, NEW kind, Take(kind), IsConfig(config'), Measured(config'.calibration),
         IsConfig(published'.config), Measured(published'.config.calibration),
         HasFields(published', {"config", "installing", "ready", "owed", "found"})
  PROVE  SettingsInv'
<1>1. IsSeq(queue) /\ \A i \in 1 .. Len(queue) : IsCommand(queue[i])
  BY Zenon DEF SettingsInv
<1>2. IsSeq(queue') /\ \A i \in 1 .. Len(queue') :
        i + 1 \in 1 .. Len(queue) /\ queue'[i] = queue[i + 1]
  BY <1>1, QueueTaken
<1>3. \A i \in 1 .. Len(queue') : IsCommand(queue'[i])
  BY <1>1, <1>2, Zenon
<1> QED BY <1>2, <1>3, Zenon DEF SettingsInv

(* No step makes a setting ill-formed.                                     *)
LEMMA SettingsKept ==
  ASSUME SettingsInv, InterfaceStep \/ WorkerStep \/ Answer \/ Die
  PROVE  SettingsInv'
<1>0. /\ IsConfig(config) /\ Measured(config.calibration)
      /\ IsConfig(published.config) /\ Measured(published.config.calibration)
      /\ HasFields(published, {"config", "installing", "ready", "owed", "found"})
  BY Zenon DEF SettingsInv
<1>1. CASE InterfaceStep
  <2>1. UNCHANGED <<config, published>>
    BY <1>1, InterfaceKeeps
  <2>2. PICK cs : UserStep(cs)
    BY <1>1, InterfaceSends
  <2>3. Sent(cs) /\ \A i \in 1 .. Len(cs) : IsCommand(cs[i])
    BY <2>2, Zenon DEF UserStep, Allowed
  <2> QED BY <2>1, <2>3, SettingsSent
<1>2. CASE Answer
  <2>1. PICK c : c.kind \in AnswerKinds /\ Sent(<<c>>) /\ UNCHANGED <<config, published>>
    BY <1>2, AnswerIs, Zenon DEF AnswerSent
  <2> DEFINE cs == <<c>>
  <2>2. Len(cs) = 1 /\ cs[1] = c
    BY ShortSeq
  <2>3. IsCommand(c)
    BY <2>1 DEF IsCommand, AnswerKinds
  <2>4. Sent(cs)
    BY <2>1
  <2> HIDE DEF cs
  <2> QED BY <2>1, <2>2, <2>3, <2>4, SettingsSent
<1>3. CASE Die
  <2>1. queue' = <<>> /\ config' = config /\ published' = published
    BY <1>3, Zenon DEF Die
  <2>2. IsSeq(<<>>) /\ Len(<<>>) = 0
    BY ShortSeq
  <2>3. IsSeq(queue') /\ \A i \in 1 .. Len(queue') : IsCommand(queue'[i])
    BY <2>1, <2>2
  <2> QED BY <1>0, <2>1, <2>3 DEF SettingsInv
<1>4. CASE TakesSetting
  <2>1. Take("configure") /\ IsConfig(config') /\ config'.calibration = config.calibration
        /\ published' = published
    BY <1>4, Zenon DEF TakesSetting
  <2>2. Measured(config'.calibration)
    BY <1>0, <2>1
  <2>3. /\ IsConfig(published'.config) /\ Measured(published'.config.calibration)
        /\ HasFields(published', {"config", "installing", "ready", "owed", "found"})
    BY <1>0, <2>1
  <2> QED BY <2>1, <2>2, <2>3, SettingsTaken
<1>5. CASE TakesSmart
  <2>1. /\ Take("policy") \/ Take("tuning")
        /\ IsConfig(config') /\ Measured(config'.calibration)
        /\ published' = [published EXCEPT !.config = config']
    BY <1>5, Zenon DEF TakesSmart
  <2>2. /\ HasFields(published', {"config", "installing", "ready", "owed", "found"})
        /\ published'.config = config'
    BY <1>0, <2>1 DEF HasFields
  <2>3. IsConfig(published'.config) /\ Measured(published'.config.calibration)
    BY <2>1, <2>2
  <2> QED BY <2>1, <2>2, <2>3, SettingsTaken
<1>6. CASE TakesOther
  <2>1. PICK kind \in OtherKinds : Take(kind) /\ IsConfig(config')
          /\ config'.calibration = config.calibration /\ published' = published
    BY <1>6, Zenon DEF TakesOther
  <2>2. Measured(config'.calibration)
    BY <1>0, <2>1
  <2>3. /\ IsConfig(published'.config) /\ Measured(published'.config.calibration)
        /\ HasFields(published', {"config", "installing", "ready", "owed", "found"})
    BY <1>0, <2>1
  <2> QED BY <2>1, <2>2, <2>3, SettingsTaken
<1>7. CASE Publishes
  <2>1. /\ queue' = queue /\ config' = config /\ published'.config = config
        /\ HasFields(published', {"config", "installing", "ready", "owed", "found"})
    BY <1>7, Zenon DEF Publishes
  <2> QED BY <2>1 DEF SettingsInv
<1>8. WorkerStep => TakesSetting \/ TakesSmart \/ TakesOther \/ Publishes
  BY WorkerSteps
<1> QED BY <1>1, <1>2, <1>3, <1>4, <1>5, <1>6, <1>7, <1>8

-----------------------------------------------------------------------------
(* The editor, the form and the desk, which only their own steps change.   *)

(* No step changes what Undo goes back to behind its back.                 *)
LEMMA EditorKept ==
  ASSUME EditorInv, InterfaceStep \/ Outside
  PROVE  EditorInv'
<1>1. ASSUME UNCHANGED <<curve, session>> PROVE EditorInv'
  <2>1. editor' = editor /\ before' = before /\ session' = session
    BY <1>1, Zenon DEF curve
  <2> QED BY <2>1 DEF EditorInv, UndoRestores
<1>2. CASE RefreshStep
  <2>1. before' = before /\ editor' = RefreshedEditor
    BY <1>2, Zenon DEF RefreshStep
  <2>2. session' = session
    BY <1>2, InterfaceKeeps DEF InterfaceStep
  <2> QED BY <2>1, <2>2, EditorRefreshed
<1>3. CASE EditorStep
  BY <1>3, Zenon DEF EditorStep
<1>4. CASE DeskStep \/ FormStep
  <2>1. curve' = curve
    BY <1>4, Zenon DEF DeskStep, FormStep
  <2>2. session' = session
    BY <1>4, InterfaceKeeps DEF InterfaceStep
  <2> QED BY <1>1, <2>1, <2>2
<1>5. CASE Outside
  BY <1>1, <1>5, Zenon DEF Outside
<1> QED BY <1>2, <1>3, <1>4, <1>5, Zenon DEF InterfaceStep

(* No step leaves the sliders in another shape.                            *)
LEMMA DeskKept ==
  ASSUME DeskInv, InterfaceStep \/ Outside
  PROVE  DeskInv'
<1>1. ASSUME desk' = desk PROVE DeskInv'
  <2>1. panel' = panel /\ page' = page
    BY <1>1, Zenon DEF desk
  <2> QED BY <2>1 DEF DeskInv
<1>2. CASE DeskStep \/ RefreshStep
  BY <1>2, Zenon DEF DeskStep, RefreshStep
<1>3. CASE FormStep \/ EditorStep \/ Outside
  <2>1. desk' = desk
    BY <1>3, Zenon DEF FormStep, EditorStep, Outside
  <2> QED BY <1>1, <2>1
<1> QED BY <1>2, <1>3, Zenon DEF InterfaceStep

(* In the editor's session nothing gets the number of a gesture.           *)
LEMMA DiskKept ==
  ASSUME SettingsInv, DiskInv, InterfaceStep \/ ((WorkerStep \/ Answer \/ Die) /\ Outside)
  PROVE  DiskInv'
<1>0. /\ session' = session
      /\ IsSeq(queue)
  <2>1. session' = session
    BY InterfaceKeeps, Zenon DEF Outside
  <2> QED BY <2>1, Zenon DEF SettingsInv
<1> SUFFICES ASSUME session = "editor" PROVE DiskInv'
  BY <1>0, Zenon DEF DiskInv
<1>1. /\ \A f \in Fans : config.fans[f].by = Disk /\ published.config.fans[f].by = Disk
      /\ \A i \in 1 .. Len(queue) : queue[i].kind = "configure" => queue[i].setting.by = Disk
      /\ panel.pending = <<>> /\ page.pending = <<>>
  BY Zenon DEF DiskInv, Seen
<1>2. ASSUME \A f \in Fans : config'.fans[f].by = Disk /\ published'.config.fans[f].by = Disk,
             \A i \in 1 .. Len(queue') : queue'[i].kind = "configure" => queue'[i].setting.by = Disk,
             panel'.pending = <<>> /\ page'.pending = <<>>
      PROVE  DiskInv'
  BY <1>2, Zenon DEF DiskInv, Seen
<1>3. ASSUME NEW cs, Sent(cs), UNCHANGED <<config, published>>,
             \A i \in 1 .. Len(cs) : cs[i].kind = "configure" => cs[i].setting.by = Disk,
             panel'.pending = <<>> /\ page'.pending = <<>>
      PROVE  DiskInv'
  <2>1. \A i \in 1 .. Len(queue') :
          \/ i \in 1 .. Len(queue) /\ queue'[i] = queue[i]
          \/ i - Len(queue) \in 1 .. Len(cs) /\ queue'[i] = cs[i - Len(queue)]
    BY <1>0, <1>3, QueueSent
  <2>2. \A i \in 1 .. Len(queue') : queue'[i].kind = "configure" => queue'[i].setting.by = Disk
    BY <1>1, <1>3, <2>1
  <2>3. \A f \in Fans : config'.fans[f].by = Disk /\ published'.config.fans[f].by = Disk
    BY <1>1, <1>3
  <2> QED BY <1>2, <1>3, <2>2, <2>3
<1>4. ASSUME NEW kind, Take(kind), Outside,
             \A f \in Fans : config'.fans[f].by = Disk /\ published'.config.fans[f].by = Disk
      PROVE  DiskInv'
  <2>1. \A i \in 1 .. Len(queue') : i + 1 \in 1 .. Len(queue) /\ queue'[i] = queue[i + 1]
    BY <1>0, <1>4, QueueTaken
  <2>2. \A i \in 1 .. Len(queue') : queue'[i].kind = "configure" => queue'[i].setting.by = Disk
    BY <1>1, <2>1
  <2>3. panel' = panel /\ page' = page
    BY <1>4, Zenon DEF Outside, desk
  <2> QED BY <1>1, <1>2, <1>4, <2>2, <2>3
<1>5. CASE InterfaceStep
  <2>1. UNCHANGED <<config, published>>
    BY <1>5, InterfaceKeeps
  <2>2. PICK cs : UserStep(cs)
    BY <1>5, InterfaceSends
  <2>3. Sent(cs) /\ \A i \in 1 .. Len(cs) : cs[i].kind = "configure" => cs[i].setting.by = Disk
    BY <2>2, Zenon DEF UserStep, Allowed
  <2>4. panel'.pending = <<>> /\ page'.pending = <<>>
    <3>1. CASE RefreshStep
      BY <3>1, Zenon DEF RefreshStep
    <3>2. CASE EditorStep
      <4>1. panel' = panel /\ page' = page
        BY <3>2, Zenon DEF EditorStep, desk
      <4> QED BY <1>1, <4>1
    <3>3. ~DeskStep /\ ~FormStep
      <4>1. "editor" \notin FormSessions
        BY DEF FormSessions
      <4> QED BY <4>1, Zenon DEF DeskStep, FormStep
    <3> QED BY <1>5, <3>1, <3>2, <3>3, Zenon DEF InterfaceStep
  <2> QED BY <1>3, <2>1, <2>3, <2>4
<1>6. CASE Answer /\ Outside
  <2>1. PICK c : c.kind \in AnswerKinds /\ Sent(<<c>>) /\ UNCHANGED <<config, published>>
    BY <1>6, AnswerIs, Zenon DEF AnswerSent
  <2> DEFINE cs == <<c>>
  <2>2. Len(cs) = 1 /\ cs[1] = c
    BY ShortSeq
  <2>3. c.kind # "configure"
    BY <2>1 DEF AnswerKinds
  <2>4. Sent(cs)
    BY <2>1
  <2>5. panel' = panel /\ page' = page
    BY <1>6, Zenon DEF Outside, desk
  <2> HIDE DEF cs
  <2> QED BY <1>1, <1>3, <2>1, <2>2, <2>3, <2>4, <2>5
<1>7. CASE Die /\ Outside
  <2>1. queue' = <<>> /\ config' = config /\ published' = published
    BY <1>7, Zenon DEF Die
  <2>2. Len(queue') = 0
    BY <2>1, ShortSeq
  <2>3. panel' = panel /\ page' = page
    BY <1>7, Zenon DEF Outside, desk
  <2> QED BY <1>1, <1>2, <2>1, <2>2, <2>3
<1>8. CASE TakesSetting /\ Outside
  <2>1. /\ Take("configure") /\ published' = published
        /\ \A f \in Fans : config'.fans[f] = config.fans[f] \/ config'.fans[f] = queue[1].setting
    BY <1>8, Zenon DEF TakesSetting
  <2>2. 1 \in 1 .. Len(queue) /\ queue[1].kind = "configure"
    BY <1>0, <2>1, QueueTaken
  <2>3. \A f \in Fans : config'.fans[f].by = Disk /\ published'.config.fans[f].by = Disk
    BY <1>1, <2>1, <2>2
  <2> QED BY <1>4, <1>8, <2>1, <2>3
<1>9. CASE TakesSmart /\ Outside
  <2>1. /\ Take("policy") \/ Take("tuning")
        /\ config'.fans = config.fans /\ published' = [published EXCEPT !.config = config']
    BY <1>9, Zenon DEF TakesSmart
  <2>2. published'.config = config'
    BY <2>1 DEF SettingsInv, HasFields
  <2>3. \A f \in Fans : config'.fans[f].by = Disk /\ published'.config.fans[f].by = Disk
    BY <1>1, <2>1, <2>2
  <2> QED BY <1>4, <1>9, <2>1, <2>3
<1>10. CASE TakesOther /\ Outside
  <2>1. PICK kind \in OtherKinds : Take(kind) /\ published' = published
          /\ \A f \in Fans : config'.fans[f].by = config.fans[f].by
    BY <1>10, Zenon DEF TakesOther
  <2>2. \A f \in Fans : config'.fans[f].by = Disk /\ published'.config.fans[f].by = Disk
    BY <1>1, <2>1
  <2> QED BY <1>4, <1>10, <2>1, <2>2
<1>11. CASE Publishes /\ Outside
  <2>1. queue' = queue /\ config' = config /\ published'.config = config
    BY <1>11, Zenon DEF Publishes
  <2>2. panel' = panel /\ page' = page
    BY <1>11, Zenon DEF Outside, desk
  <2> QED BY <1>1, <1>2, <2>1, <2>2
<1>12. WorkerStep => TakesSetting \/ TakesSmart \/ TakesOther \/ Publishes
  BY WorkerSteps
<1> QED BY <1>5, <1>6, <1>7, <1>8, <1>9, <1>10, <1>11, <1>12

(* The form after a tick, and its preference.                              *)
PolledBias ==
  IF reply = "ok" /\ save[1].by = "panel"
    THEN IF form[1].bias = save[1].previous THEN save[1].asked.bias ELSE form[1].bias
  ELSE IF reply = "ok" /\ published.found.discovered THEN published.config.bias
  ELSE form[1].bias

(* The form that has taken an answer is a form, with this preference.      *)
LEMMA PolledIs ==
  ASSUME SettingsInv, FormInv, form # <<>>
  PROVE  IsForm(Polled[1]) /\ Polled[1].bias = PolledBias
<1> DEFINE f == form[1]
<1>1. form = <<f>> /\ IsForm(f)
  BY Zenon DEF FormInv
<1>2. CASE reply # "ok"
  <2>1. Polled = form
    BY <1>2, Zenon DEF Polled
  <2> QED BY <1>1, <1>2, <2>1, Zenon DEF PolledBias
<1>3. CASE reply = "ok" /\ save[1].by = "panel"
  <2> DEFINE b == save[1].asked.bias  g == [f EXCEPT !.bias = b]
             s == IF f.bias = save[1].previous THEN g ELSE f
  <2>1. Polled = <<s>>
    <3>1. Polled = <<Synced(f, save[1].previous, b)>>
      BY <1>3 DEF Polled, Answered
    <3> QED BY <3>1, Zenon DEF Synced
  <2>2. IsForm(g)
    <3>1. \A i \in 1 .. 2 : IsForm(g)
      BY <1>1, FormEdits
    <3>2. 1 \in 1 .. 2
      OBVIOUS
    <3> QED BY <3>1, <3>2, Zenon
  <2>3. HasFields(f, FormFields)
    BY <1>1, Zenon DEF IsForm, FormFields
  <2>4. g.bias = b
    BY <2>3 DEF HasFields, FormFields
  <2>5. PolledBias = IF f.bias = save[1].previous THEN b ELSE f.bias
    BY <1>3, Zenon DEF PolledBias
  <2> HIDE DEF f, g, b
  <2>6. IsForm(s) /\ s.bias = PolledBias
    BY <1>1, <2>2, <2>4, <2>5
  <2>7. Polled[1] = s
    BY <2>1
  <2> HIDE DEF s
  <2> QED BY <2>6, <2>7
<1>4. CASE reply = "ok" /\ save[1].by # "panel"
  <2>1. Polled = Rebuilt(form, FALSE)
    BY <1>4 DEF Polled, Answered
  <2>2. CASE published.found.discovered
    <3> DEFINE l == FALSE  g == Built(l)
    <3>1. Polled = <<g>>
      BY <2>1, <2>2, Zenon DEF Rebuilt
    <3> HIDE DEF l
    <3>2. IsForm(g) /\ g.bias = published.config.bias
      BY BuiltIs
    <3> HIDE DEF g
    <3>3. Polled[1] = g
      BY <3>1
    <3>4. PolledBias = published.config.bias
      BY <1>4, <2>2, Zenon DEF PolledBias
    <3> QED BY <3>2, <3>3, <3>4
  <2>3. CASE ~published.found.discovered
    <3>1. Polled = form
      BY <2>1, <2>3, Zenon DEF Rebuilt
    <3>2. PolledBias = f.bias
      BY <1>4, <2>3, Zenon DEF PolledBias
    <3> QED BY <1>1, <3>1, <3>2
  <2> QED BY <2>2, <2>3
<1> QED BY <1>2, <1>3, <1>4

(* The form after a tick, and its preference.                              *)
LEMMA SmartRefreshed ==
  ASSUME SettingsInv, FormInv, session \in FormSessions, session' = session, RefreshSmart
  PROVE  /\ FormInv'
         /\ form = <<>> =>
              \/ form' = <<>> /\ ~published.found.discovered
              \/ /\ form' # <<>> /\ published.found.discovered
                 /\ form'[1].bias = published.config.bias
         /\ form # <<>> => form' # <<>> /\ form'[1].bias = PolledBias
<1> DEFINE l == save' # <<>>
<1>1. form' = IF form = <<>> THEN Rebuilt(<<>>, l)
              ELSE <<[Refreshed(Polled[1]) EXCEPT !.locked = l]>>
  BY Zenon DEF RefreshSmart
<1> HIDE DEF l
<1>2. CASE form = <<>> /\ ~published.found.discovered
  <2>1. form' = <<>>
    BY <1>1, <1>2, Zenon DEF Rebuilt
  <2> QED BY <1>2, <2>1, Zenon DEF FormInv
<1>3. CASE form = <<>> /\ published.found.discovered
  <2> DEFINE g == Built(l)
  <2>1. form' = <<g>>
    BY <1>1, <1>3, Zenon DEF Rebuilt
  <2>2. IsForm(g) /\ g.bias = published.config.bias
    BY BuiltIs
  <2> HIDE DEF g
  <2>3. form' # <<>> /\ form'[1] = g
    BY <2>1
  <2> QED BY <1>3, <2>1, <2>2, <2>3 DEF FormInv
<1>4. CASE form # <<>>
  <2> DEFINE p == Polled[1]  r == Refreshed(p)  g == [r EXCEPT !.locked = l]
  <2>1. form' = <<g>>
    BY <1>1, <1>4
  <2>2. IsForm(p) /\ p.bias = PolledBias
    BY <1>4, PolledIs
  <2> HIDE DEF p
  <2>3. IsForm(r) /\ r.bias = p.bias
    BY <2>2, RefreshedIs
  <2>4. HasFields(r, FormFields)
    BY <2>3, Zenon DEF IsForm, FormFields
  <2> HIDE DEF r
  <2>5. IsForm(g)
    <3>1. \A i \in 1 .. 2 : IsForm(g)
      BY <2>3, FormEdits
    <3>2. 1 \in 1 .. 2
      OBVIOUS
    <3> QED BY <3>1, <3>2, Zenon
  <2>6. g.bias = r.bias
    BY <2>4 DEF HasFields, FormFields
  <2> HIDE DEF g
  <2>7. form' # <<>> /\ form'[1] = g
    BY <2>1
  <2> QED BY <1>4, <2>1, <2>2, <2>3, <2>5, <2>6, <2>7 DEF FormInv
<1> QED BY <1>2, <1>3, <1>4

(* No step puts a point under a sensor it was not measured on.             *)
LEMMA FormKept ==
  ASSUME SettingsInv, FormInv, InterfaceStep \/ Outside
  PROVE  FormInv'
<1>1. ASSUME smart' = smart, session' = session PROVE FormInv'
  <2>1. form' = form
    BY <1>1, Zenon DEF smart
  <2> QED BY <1>1, <2>1 DEF FormInv
<1>2. CASE RefreshStep
  <2>1. session' = session
    BY <1>2, InterfaceKeeps DEF InterfaceStep
  <2>2. (session \in FormSessions /\ RefreshSmart) \/ smart' = smart
    BY <1>2, Zenon DEF RefreshStep
  <2> QED BY <1>1, <2>1, <2>2, SmartRefreshed
<1>3. CASE FormStep
  BY <1>3, Zenon DEF FormStep
<1>4. CASE DeskStep \/ EditorStep
  <2>1. smart' = smart
    BY <1>4, Zenon DEF DeskStep, EditorStep
  <2>2. session' = session
    BY <1>4, InterfaceKeeps DEF InterfaceStep
  <2> QED BY <1>1, <2>1, <2>2
<1>5. CASE Outside
  <2>1. smart' = smart /\ session' = session
    BY <1>5, Zenon DEF Outside
  <2> QED BY <1>1, <2>1
<1> QED BY <1>2, <1>3, <1>4, <1>5, Zenon DEF InterfaceStep

-----------------------------------------------------------------------------
(* A save waits in the channel until it is answered, and then only once.   *)

(* Other commands leave the save that waits.                               *)
LEMMA PlainSent ==
  ASSUME IsSeq(queue), NEW cs, Sent(cs), Plain(cs), NEW c
  PROVE  (NoSmart => NoSmart') /\ (OneSmart(c) => OneSmart(c)')
<1>1. /\ \A i \in 1 .. Len(queue) : i \in 1 .. Len(queue') /\ queue'[i] = queue[i]
      /\ \A i \in 1 .. Len(queue') :
           \/ i \in 1 .. Len(queue) /\ queue'[i] = queue[i]
           \/ i - Len(queue) \in 1 .. Len(cs) /\ queue'[i] = cs[i - Len(queue)]
  <2>1. /\ Len(queue) \in Nat /\ Len(queue') \in Nat /\ Len(queue) <= Len(queue')
        /\ \A i \in 1 .. Len(queue) : queue'[i] = queue[i]
        /\ \A i \in 1 .. Len(queue') :
             \/ i \in 1 .. Len(queue) /\ queue'[i] = queue[i]
             \/ i - Len(queue) \in 1 .. Len(cs) /\ queue'[i] = cs[i - Len(queue)]
    BY QueueSent
  <2> QED BY <2>1
<1>2. \A i \in 1 .. Len(cs) : cs[i].kind \notin SmartKinds
  BY Zenon DEF Plain
<1>3. \A i \in 1 .. Len(queue') : queue'[i].kind \in SmartKinds =>
        i \in 1 .. Len(queue) /\ queue'[i] = queue[i]
  BY <1>1, <1>2
<1>4. NoSmart => NoSmart'
  BY <1>3 DEF NoSmart
<1>5. OneSmart(c) => OneSmart(c)'
  <2> SUFFICES ASSUME OneSmart(c) PROVE OneSmart(c)'
    OBVIOUS
  <2>1. PICK i \in 1 .. Len(queue) :
          queue[i] = c /\ \A j \in 1 .. Len(queue) : queue[j].kind \in SmartKinds => j = i
    BY Zenon DEF OneSmart
  <2>2. i \in 1 .. Len(queue') /\ queue'[i] = c
    BY <1>1, <2>1
  <2>3. \A j \in 1 .. Len(queue') : queue'[j].kind \in SmartKinds => j = i
    BY <1>3, <2>1
  <2> QED BY <2>2, <2>3, Zenon DEF OneSmart
<1> QED BY <1>4, <1>5

(* A save that is sent is the only one.                                    *)
LEMMA SmartSent ==
  ASSUME IsSeq(queue), NoSmart, NEW c, queue' = queue \o <<c>>
  PROVE  OneSmart(c)'
<1> DEFINE cs == <<c>>  q == queue \o cs
<1>1. IsSeq(cs) /\ Len(cs) = 1 /\ cs[1] = c
  BY ShortSeq
<1>2. Len(queue) \in Nat
  BY SeqIs
<1>3. queue' = q
  OBVIOUS
<1> HIDE DEF cs
<1>4. /\ Len(q) = Len(queue) + 1
      /\ \A i \in 1 .. Len(queue) + 1 :
           q[i] = IF i <= Len(queue) THEN queue[i] ELSE cs[i - Len(queue)]
  BY <1>1, Joined
<1> HIDE DEF q
<1> DEFINE k == Len(queue) + 1
<1>5. k \in 1 .. Len(q) /\ q[k] = c
  BY <1>1, <1>2, <1>4
<1>6. \A j \in 1 .. Len(q) : q[j].kind \in SmartKinds => j = k
  BY <1>2, <1>4 DEF NoSmart
<1> HIDE DEF k
<1> QED BY <1>3, <1>5, <1>6 DEF OneSmart

(* The worker's turn leaves the save that waits, or takes it.              *)
LEMMA PlainTaken ==
  ASSUME IsSeq(queue), NEW kind, Take(kind), NEW c
  PROVE  /\ NoSmart => NoSmart' /\ kind \notin SmartKinds
         /\ kind \notin SmartKinds /\ c.kind \in SmartKinds /\ OneSmart(c) => OneSmart(c)'
         /\ kind \in SmartKinds /\ OneSmart(c) => queue[1] = c /\ NoSmart'
<1>1. /\ Len(queue) \in Nat /\ 1 \in 1 .. Len(queue) /\ Len(queue') = Len(queue) - 1
      /\ queue[1].kind = kind
      /\ \A i \in 1 .. Len(queue') : i + 1 \in 1 .. Len(queue) /\ queue'[i] = queue[i + 1]
  BY QueueTaken
<1>2. NoSmart => NoSmart' /\ kind \notin SmartKinds
  BY <1>1 DEF NoSmart
<1>3. ASSUME kind \notin SmartKinds, c.kind \in SmartKinds, OneSmart(c) PROVE OneSmart(c)'
  <2>1. PICK i \in 1 .. Len(queue) :
          queue[i] = c /\ \A j \in 1 .. Len(queue) : queue[j].kind \in SmartKinds => j = i
    BY <1>3, Zenon DEF OneSmart
  <2>2. i # 1
    BY <1>1, <1>3, <2>1
  <2> DEFINE k == i - 1
  <2>3. k \in 1 .. Len(queue') /\ queue'[k] = c
    BY <1>1, <2>1, <2>2
  <2>4. \A j \in 1 .. Len(queue') : queue'[j].kind \in SmartKinds => j = k
    BY <1>1, <2>1
  <2> HIDE DEF k
  <2> QED BY <2>3, <2>4, Zenon DEF OneSmart
<1>4. ASSUME kind \in SmartKinds, OneSmart(c) PROVE queue[1] = c /\ NoSmart'
  <2>1. PICK i \in 1 .. Len(queue) :
          queue[i] = c /\ \A j \in 1 .. Len(queue) : queue[j].kind \in SmartKinds => j = i
    BY <1>4, Zenon DEF OneSmart
  <2>2. i = 1
    BY <1>1, <1>4, <2>1
  <2>3. \A j \in 1 .. Len(queue') : queue'[j].kind \notin SmartKinds
    BY <1>1, <2>1, <2>2
  <2> QED BY <2>1, <2>2, <2>3 DEF NoSmart
<1> QED BY <1>2, <1>3, <1>4

(* A step that touches neither slot nor answer nor what is held.           *)
LEMMA SaveStays ==
  ASSUME SaveInv, save' = save, reply' = reply, alive' = alive,
         NoSmart => NoSmart', \A c : c.kind \in SmartKinds /\ OneSmart(c) => OneSmart(c)',
         \A a : Holds(config, a) /\ Holds(published.config, a) =>
                  Holds(config', a) /\ Holds(published'.config, a)
  PROVE  SaveInv'
<1>1. CASE save = <<>>
  <2>1. reply = "none" /\ NoSmart
    BY <1>1, Zenon DEF SaveInv
  <2>2. reply' = "none" /\ NoSmart' /\ save' = <<>>
    BY <1>1, <2>1
  <2> QED BY <2>2, Zenon DEF SaveInv
<1>2. CASE save # <<>>
  <2>1. /\ save = <<save[1]>> /\ IsSave(save[1])
        /\ \/ reply = "waiting" /\ alive /\ OneSmart(save[1].asked)
           \/ Answered /\ NoSmart
        /\ reply = "ok" => Holds(config, save[1].asked) /\ Holds(published.config, save[1].asked)
    BY <1>2, Zenon DEF SaveInv
  <2> DEFINE a == save[1].asked
  <2>2. a.kind \in SmartKinds
    BY <2>1 DEF IsSave, SmartKinds
  <2>3. /\ save' # <<>> /\ save' = <<save'[1]>> /\ IsSave(save'[1]) /\ save'[1].asked = a
    BY <1>2, <2>1
  <2>4. Answered' <=> Answered
    BY DEF Answered
  <2>5. OneSmart(a) => OneSmart(a)'
    BY <2>2
  <2>6. OneSmart(save[1].asked)' <=> OneSmart(a)'
    OBVIOUS
  <2>7. \/ reply' = "waiting" /\ alive' /\ OneSmart(save[1].asked)'
        \/ Answered' /\ NoSmart'
    BY <2>1, <2>4, <2>5, <2>6, Zenon
  <2>8. reply' = "ok" => Holds(config', a) /\ Holds(published'.config, a)
    BY <2>1
  <2> HIDE DEF a
  <2> QED BY <2>3, <2>7, <2>8, Zenon DEF SaveInv
<1> QED BY <1>1, <1>2

(* Asking for a save fills the slot.                                       *)
LEMMA AskedSaves ==
  ASSUME IsSeq(queue), SaveInv, alive' = alive, NEW by, NEW c, Asked(by, c),
         (by = "form" /\ c.kind = "policy") \/ (by = "panel" /\ c.kind = "tuning")
  PROVE  SaveInv'
<1> DEFINE p == published.config.bias  s == [by |-> by, previous |-> p, asked |-> c]
<1>1. alive /\ save = <<>> /\ queue' = queue \o <<c>> /\ reply' = "waiting" /\ save' = <<s>>
  BY Zenon DEF Asked
<1>2. NoSmart
  BY <1>1, Zenon DEF SaveInv
<1>3. OneSmart(c)'
  BY <1>1, <1>2, SmartSent
<1> HIDE DEF p
<1>4. HasFields(s, {"by", "previous", "asked"}) /\ s.by = by /\ s.asked = c
  BY DEF HasFields
<1> HIDE DEF s
<1>5. save' # <<>> /\ save'[1] = s
  BY <1>1
<1>6. IsSave(s)
  BY <1>4 DEF IsSave
<1>7. OneSmart(save[1].asked)'
  BY <1>3, <1>4, <1>5
<1>8. save' = <<save'[1]>> /\ IsSave(save'[1]) /\ reply' # "ok"
  BY <1>1, <1>5, <1>6
<1> QED BY <1>1, <1>5, <1>7, <1>8, Zenon DEF SaveInv

(* A save is answered when its command is taken, and forgotten at a tick.  *)
LEMMA SaveKept ==
  ASSUME SettingsInv, SaveInv, InterfaceStep \/ ((WorkerStep \/ Answer \/ Die) /\ Outside)
  PROVE  SaveInv'
<1>0. IsSeq(queue) /\ HasFields(published, {"config", "installing", "ready", "owed", "found"})
  BY Zenon DEF SettingsInv
<1>1. ASSUME NEW cs, UserStep(cs), Plain(cs)
      PROVE  /\ NoSmart => NoSmart'
             /\ UNCHANGED <<alive, config, published>>
             /\ \A c : OneSmart(c) => OneSmart(c)'
  <2>1. Sent(cs) /\ UNCHANGED <<alive, config, published>>
    BY <1>1, Zenon DEF UserStep, worker
  <2>2. NoSmart => NoSmart'
    BY <1>0, <1>1, <2>1, PlainSent
  <2>3. ASSUME NEW c PROVE OneSmart(c) => OneSmart(c)'
    BY <1>0, <1>1, <2>1, PlainSent
  <2> QED BY <2>1, <2>2, <2>3
<1>2. ASSUME NEW cs, UserStep(cs), Plain(cs), save' = save, reply' = reply PROVE SaveInv'
  <2>1. /\ NoSmart => NoSmart'
        /\ UNCHANGED <<alive, config, published>>
        /\ \A c : OneSmart(c) => OneSmart(c)'
    BY <1>1, <1>2
  <2>2. \A a : Holds(config, a) /\ Holds(published.config, a) =>
                  Holds(config', a) /\ Holds(published'.config, a)
    BY <2>1
  <2> QED BY <1>2, <2>1, <2>2, SaveStays
<1>3. CASE DeskStep \/ EditorStep
  <2>1. PICK cs : UserStep(cs) /\ Plain(cs)
    BY <1>3, Zenon DEF DeskStep, EditorStep
  <2>2. save' = save /\ reply' = reply
    BY <1>3, Zenon DEF DeskStep, EditorStep, smart
  <2> QED BY <1>2, <2>1, <2>2
<1>4. CASE RefreshStep
  <2>1. PICK cs : UserStep(cs) /\ Plain(cs)
    BY <1>4, Zenon DEF RefreshStep
  <2>2. CASE save' = save /\ reply' = reply
    BY <1>2, <2>1, <2>2
  <2>3. CASE RefreshSmart
    <3>1. /\ save' = (IF Answered THEN <<>> ELSE save)
          /\ reply' = (IF Answered THEN "none" ELSE reply)
      BY <2>3, Zenon DEF RefreshSmart
    <3>2. CASE ~Answered
      BY <1>2, <2>1, <3>1, <3>2
    <3>3. CASE Answered
      <4>1. NoSmart
        BY <3>3 DEF SaveInv, Answered
      <4>2. NoSmart'
        BY <1>1, <2>1, <4>1
      <4>3. save' = <<>> /\ reply' = "none"
        BY <3>1, <3>3
      <4> QED BY <4>2, <4>3, Zenon DEF SaveInv
    <3> QED BY <3>2, <3>3
  <2>4. (save' = save /\ reply' = reply) \/ RefreshSmart
    BY <1>4, Zenon DEF RefreshStep, smart
  <2> QED BY <2>2, <2>3, <2>4
<1>5. CASE FormStep
  <2>1. UNCHANGED <<alive, config, published>>
    BY <1>5, InterfaceKeeps DEF InterfaceStep
  <2>2. CASE UNCHANGED <<queue, reply, save>>
    <3>1. /\ NoSmart => NoSmart'
          /\ \A c : c.kind \in SmartKinds /\ OneSmart(c) => OneSmart(c)'
      BY <2>2 DEF NoSmart, OneSmart
    <3>2. \A a : Holds(config, a) /\ Holds(published.config, a) =>
                  Holds(config', a) /\ Holds(published'.config, a)
      BY <2>1
    <3> QED BY <2>1, <2>2, <3>1, <3>2, SaveStays
  <2>3. ASSUME NEW b, Asked("panel", Tuning(b)) PROVE SaveInv'
    <3> DEFINE c == Tuning(b)  by == "panel"
    <3>1. c.kind = "tuning" /\ by = "panel" /\ Asked(by, c)
      BY <2>3 DEF Tuning
    <3> HIDE DEF c, by
    <3> QED BY <1>0, <2>1, <3>1, AskedSaves
  <2>4. ASSUME NEW b, NEW t, NEW k, Asked("form", Policy(b, t, k)) PROVE SaveInv'
    <3> DEFINE c == Policy(b, t, k)  by == "form"
    <3>1. c.kind = "policy" /\ by = "form" /\ Asked(by, c)
      BY <2>4 DEF Policy
    <3> HIDE DEF c, by
    <3> QED BY <1>0, <2>1, <3>1, AskedSaves
  <2>5. \/ UNCHANGED <<queue, reply, save>>
        \/ \E b : Asked("panel", Tuning(b))
        \/ \E t, c : Asked("form", Policy(form[1].bias, t, c))
    BY <1>5, Zenon DEF FormStep
  <2> QED BY <2>2, <2>3, <2>4, <2>5
<1>6. CASE Answer /\ Outside
  <2>1. PICK c : /\ c.kind \in AnswerKinds /\ Sent(<<c>>)
                 /\ UNCHANGED <<alive, config, reply, published>>
    BY <1>6, AnswerIs, Zenon DEF AnswerSent
  <2> DEFINE cs == <<c>>
  <2>2. Len(cs) = 1 /\ cs[1] = c
    BY ShortSeq
  <2>3. Sent(cs)
    BY <2>1
  <2> HIDE DEF cs
  <2>4. Plain(cs)
    BY <2>1, <2>2 DEF Plain, AnswerKinds, SmartKinds
  <2>5. NoSmart => NoSmart'
    BY <1>0, <2>3, <2>4, PlainSent
  <2>6. ASSUME NEW k PROVE OneSmart(k) => OneSmart(k)'
    BY <1>0, <2>3, <2>4, PlainSent
  <2>7. \A a : Holds(config, a) /\ Holds(published.config, a) =>
                  Holds(config', a) /\ Holds(published'.config, a)
    BY <2>1
  <2>8. save' = save
    BY <1>6, Zenon DEF Outside, smart
  <2> QED BY <2>1, <2>5, <2>6, <2>7, <2>8, SaveStays
<1>7. CASE Die /\ Outside
  <2>1. /\ queue' = <<>> /\ config' = config /\ published' = published
        /\ reply' = IF reply = "waiting" THEN "closed" ELSE reply
    BY <1>7, Zenon DEF Die
  <2>2. save' = save
    BY <1>7, Zenon DEF Outside, smart
  <2>3. NoSmart'
    BY <2>1, ShortSeq DEF NoSmart
  <2>4. CASE save = <<>>
    <3>1. reply' = "none" /\ save' = <<>>
      BY <2>1, <2>2, <2>4 DEF SaveInv
    <3> QED BY <2>3, <3>1, Zenon DEF SaveInv
  <2>5. CASE save # <<>>
    <3>1. /\ save = <<save[1]>> /\ IsSave(save[1]) /\ reply \in {"waiting", "ok", "error", "closed"}
          /\ reply = "ok" => Holds(config, save[1].asked) /\ Holds(published.config, save[1].asked)
      BY <2>5 DEF SaveInv, Answered
    <3>2. Answered' /\ (reply' = "ok" => reply = "ok")
      BY <2>1, <3>1 DEF Answered
    <3>3. save' # <<>> /\ save' = <<save'[1]>> /\ IsSave(save'[1])
      BY <2>2, <2>5, <3>1
    <3>4. reply' = "ok" => Holds(config', save'[1].asked) /\ Holds(published'.config, save'[1].asked)
      BY <2>1, <2>2, <3>1, <3>2
    <3> QED BY <2>3, <3>2, <3>3, <3>4, Zenon DEF SaveInv
  <2> QED BY <2>4, <2>5
<1>8. ASSUME NEW kind, kind \notin SmartKinds, Take(kind), Outside,
             UNCHANGED <<alive, reply, published>>,
             config'.calibration = config.calibration /\ config'.bias = config.bias
      PROVE  SaveInv'
  <2>1. NoSmart => NoSmart'
    BY <1>0, <1>8, PlainTaken
  <2>2. ASSUME NEW c PROVE c.kind \in SmartKinds /\ OneSmart(c) => OneSmart(c)'
    BY <1>0, <1>8, PlainTaken
  <2>3. \A a : Holds(config, a) /\ Holds(published.config, a) =>
                  Holds(config', a) /\ Holds(published'.config, a)
    BY <1>8 DEF Holds
  <2>4. save' = save
    BY <1>8, Zenon DEF Outside, smart
  <2> QED BY <1>8, <2>1, <2>2, <2>3, <2>4, SaveStays
<1>9. CASE TakesSetting /\ Outside
  <2>1. /\ Take("configure") /\ UNCHANGED <<alive, reply, published>>
        /\ config'.calibration = config.calibration /\ config'.bias = config.bias
    BY <1>9, Zenon DEF TakesSetting
  <2>2. "configure" \notin SmartKinds
    BY DEF SmartKinds
  <2> QED BY <1>8, <1>9, <2>1, <2>2
<1>10. CASE TakesOther /\ Outside
  <2>1. PICK kind \in OtherKinds : /\ Take(kind) /\ UNCHANGED <<alive, reply, published>>
          /\ config'.calibration = config.calibration /\ config'.bias = config.bias
    BY <1>10, Zenon DEF TakesOther
  <2>2. kind \notin SmartKinds
    BY DEF SmartKinds, OtherKinds
  <2> QED BY <1>8, <1>10, <2>1, <2>2
<1>11. CASE TakesSmart /\ Outside
  <2>1. PICK kind \in SmartKinds : Take(kind)
    BY <1>11 DEF TakesSmart, SmartKinds
  <2>2. /\ reply' = "error" \/ (reply' = "ok" /\ Holds(config', queue[1]))
        /\ published' = [published EXCEPT !.config = config']
    BY <1>11, Zenon DEF TakesSmart
  <2>3. published'.config = config'
    BY <1>0, <2>2 DEF HasFields
  <2>4. ~NoSmart
    <3>1. NoSmart => kind \notin SmartKinds
      BY <1>0, <2>1, PlainTaken
    <3> QED BY <3>1
  <2>5. /\ save # <<>> /\ save = <<save[1]>> /\ IsSave(save[1]) /\ OneSmart(save[1].asked)
    BY <2>4, Zenon DEF SaveInv
  <2> DEFINE a == save[1].asked
  <2>6. OneSmart(a)
    BY <2>5
  <2> HIDE DEF a
  <2>7. queue[1] = a /\ NoSmart'
    BY <1>0, <2>1, <2>6, PlainTaken
  <2>8. save' = save
    BY <1>11, Zenon DEF Outside, smart
  <2>9. Answered' /\ save' # <<>> /\ save' = <<save'[1]>> /\ IsSave(save'[1])
        /\ save'[1].asked = a
    BY <2>2, <2>5, <2>8 DEF Answered, a
  <2>10. reply' = "ok" => Holds(config', a) /\ Holds(published'.config, a)
    BY <2>2, <2>3, <2>7
  <2> QED BY <2>7, <2>9, <2>10, Zenon DEF SaveInv
<1>12. CASE Publishes /\ Outside
  <2>1. /\ alive' = alive /\ queue' = queue /\ config' = config /\ reply' = reply
        /\ published'.config = config
    BY <1>12, Zenon DEF Publishes
  <2>2. save' = save
    BY <1>12, Zenon DEF Outside, smart
  <2>3. /\ NoSmart => NoSmart'
        /\ \A c : c.kind \in SmartKinds /\ OneSmart(c) => OneSmart(c)'
    BY <2>1 DEF NoSmart, OneSmart
  <2>4. \A a : Holds(config, a) /\ Holds(published.config, a) =>
                  Holds(config', a) /\ Holds(published'.config, a)
    BY <2>1
  <2> QED BY <2>1, <2>2, <2>3, <2>4, SaveStays
<1>13. WorkerStep => TakesSetting \/ TakesSmart \/ TakesOther \/ Publishes
  BY WorkerSteps
<1> QED BY <1>3, <1>4, <1>5, <1>6, <1>7, <1>9, <1>10, <1>11, <1>12, <1>13, Zenon DEF InterfaceStep

-----------------------------------------------------------------------------
(* The control service: one prompt, or one answer.                         *)

(* Commands that are no answer leave the one that is there.                *)
LEMMA QuietSent ==
  ASSUME IsSeq(queue), NEW cs, Sent(cs), \A i \in 1 .. Len(cs) : cs[i].kind \notin AnswerKinds,
         AllSystem => AllSystem'
  PROVE  (NoAnswer => NoAnswer') /\ (OneAnswer => OneAnswer')
<1>1. /\ \A i \in 1 .. Len(queue) : i \in 1 .. Len(queue') /\ queue'[i] = queue[i]
      /\ \A i \in 1 .. Len(queue') :
           \/ i \in 1 .. Len(queue) /\ queue'[i] = queue[i]
           \/ i - Len(queue) \in 1 .. Len(cs) /\ queue'[i] = cs[i - Len(queue)]
  <2>1. /\ Len(queue) \in Nat /\ Len(queue') \in Nat /\ Len(queue) <= Len(queue')
        /\ \A i \in 1 .. Len(queue) : queue'[i] = queue[i]
        /\ \A i \in 1 .. Len(queue') :
             \/ i \in 1 .. Len(queue) /\ queue'[i] = queue[i]
             \/ i - Len(queue) \in 1 .. Len(cs) /\ queue'[i] = cs[i - Len(queue)]
    BY QueueSent
  <2> QED BY <2>1
<1>2. \A i \in 1 .. Len(queue') : queue'[i].kind \in AnswerKinds =>
        i \in 1 .. Len(queue) /\ queue'[i] = queue[i]
  BY <1>1
<1>3. NoAnswer => NoAnswer'
  BY <1>2 DEF NoAnswer
<1>4. OneAnswer => OneAnswer'
  <2> SUFFICES ASSUME OneAnswer PROVE OneAnswer'
    OBVIOUS
  <2>1. PICK i \in 1 .. Len(queue) :
          /\ queue[i].kind \in AnswerKinds /\ (queue[i].kind = "uninstalled" => AllSystem)
          /\ \A j \in 1 .. Len(queue) : queue[j].kind \in AnswerKinds => j = i
    BY Zenon DEF OneAnswer
  <2>2. /\ i \in 1 .. Len(queue') /\ queue'[i].kind \in AnswerKinds
        /\ queue'[i].kind = "uninstalled" => AllSystem'
    BY <1>1, <2>1
  <2>3. \A j \in 1 .. Len(queue') : queue'[j].kind \in AnswerKinds => j = i
    BY <1>2, <2>1
  <2> QED BY <2>2, <2>3, Zenon DEF OneAnswer
<1> QED BY <1>3, <1>4

(* An answer that is sent is the only one.                                 *)
LEMMA AnswerGiven ==
  ASSUME IsSeq(queue), NoAnswer, NEW c, c.kind \in AnswerKinds, queue' = queue \o <<c>>,
         c.kind = "uninstalled" => AllSystem'
  PROVE  OneAnswer'
<1> DEFINE cs == <<c>>  q == queue \o cs
<1>1. IsSeq(cs) /\ Len(cs) = 1 /\ cs[1] = c
  BY ShortSeq
<1>2. Len(queue) \in Nat
  BY SeqIs
<1>3. queue' = q
  OBVIOUS
<1> HIDE DEF cs
<1>4. /\ Len(q) = Len(queue) + 1
      /\ \A i \in 1 .. Len(queue) + 1 :
           q[i] = IF i <= Len(queue) THEN queue[i] ELSE cs[i - Len(queue)]
  BY <1>1, Joined
<1> HIDE DEF q
<1> DEFINE k == Len(queue) + 1
<1>5. k \in 1 .. Len(q) /\ q[k] = c
  BY <1>1, <1>2, <1>4
<1>6. \A j \in 1 .. Len(q) : q[j].kind \in AnswerKinds => j = k
  BY <1>2, <1>4 DEF NoAnswer
<1> HIDE DEF k
<1>7. /\ k \in 1 .. Len(queue') /\ queue'[k].kind \in AnswerKinds
      /\ queue'[k].kind = "uninstalled" => AllSystem'
      /\ \A j \in 1 .. Len(queue') : queue'[j].kind \in AnswerKinds => j = k
  BY <1>3, <1>5, <1>6
<1> QED BY <1>7, Zenon DEF OneAnswer

(* The worker's turn leaves the answer, or takes it.                       *)
LEMMA QuietTaken ==
  ASSUME IsSeq(queue), NEW kind, Take(kind)
  PROVE  /\ NoAnswer => NoAnswer' /\ kind \notin AnswerKinds
         /\ (kind \notin AnswerKinds /\ (AllSystem => AllSystem') /\ OneAnswer) => OneAnswer'
         /\ kind \in AnswerKinds /\ OneAnswer => NoAnswer'
<1>1. /\ Len(queue) \in Nat /\ 1 \in 1 .. Len(queue) /\ Len(queue') = Len(queue) - 1
      /\ queue[1].kind = kind
      /\ \A i \in 1 .. Len(queue') : i + 1 \in 1 .. Len(queue) /\ queue'[i] = queue[i + 1]
  BY QueueTaken
<1>2. NoAnswer => NoAnswer' /\ kind \notin AnswerKinds
  BY <1>1 DEF NoAnswer
<1>3. ASSUME kind \notin AnswerKinds, AllSystem => AllSystem', OneAnswer PROVE OneAnswer'
  <2>1. PICK i \in 1 .. Len(queue) :
          /\ queue[i].kind \in AnswerKinds /\ (queue[i].kind = "uninstalled" => AllSystem)
          /\ \A j \in 1 .. Len(queue) : queue[j].kind \in AnswerKinds => j = i
    BY <1>3, Zenon DEF OneAnswer
  <2>2. i # 1
    BY <1>1, <1>3, <2>1
  <2> DEFINE k == i - 1
  <2>3. k \in 1 .. Len(queue') /\ queue'[k] = queue[i]
    BY <1>1, <2>1, <2>2
  <2>4. \A j \in 1 .. Len(queue') : queue'[j].kind \in AnswerKinds => j = k
    BY <1>1, <2>1
  <2> HIDE DEF k
  <2>5. queue'[k].kind \in AnswerKinds /\ (queue'[k].kind = "uninstalled" => AllSystem')
    BY <1>3, <2>1, <2>3
  <2> QED BY <2>3, <2>4, <2>5, Zenon DEF OneAnswer
<1>4. ASSUME kind \in AnswerKinds, OneAnswer PROVE NoAnswer'
  <2>1. PICK i \in 1 .. Len(queue) :
          \A j \in 1 .. Len(queue) : queue[j].kind \in AnswerKinds => j = i
    BY <1>4, Zenon DEF OneAnswer
  <2>2. i = 1
    BY <1>1, <1>4, <2>1
  <2>3. \A j \in 1 .. Len(queue') : queue'[j].kind \notin AnswerKinds
    BY <1>1, <2>1, <2>2
  <2> QED BY <2>3 DEF NoAnswer
<1> QED BY <1>2, <1>3, <1>4

(* A step that neither asks nor is told leaves the service to whom it is.  *)
LEMMA ServiceStays ==
  ASSUME ServiceInv, UNCHANGED <<alive, installing, prompts>>, NoAnswer => NoAnswer',
         installing => (OneAnswer => OneAnswer') /\ (AllSystem => AllSystem')
  PROVE  ServiceInv'
<1>1. /\ \A i, u : Prompts(i, u)' <=> Prompts(i, u)
      /\ HasFields(prompts, {"install", "uninstall"})' <=> HasFields(prompts, {"install", "uninstall"})
  BY DEF Prompts
<1>2. CASE alive /\ ~installing
  <2>1. HasFields(prompts, {"install", "uninstall"}) /\ Prompts(0, 0) /\ NoAnswer
    BY <1>2, Zenon DEF ServiceInv
  <2>2. HasFields(prompts, {"install", "uninstall"})' /\ Prompts(0, 0)' /\ NoAnswer' /\ ~installing'
    BY <1>1, <1>2, <2>1
  <2> QED BY <2>2, Zenon DEF ServiceInv
<1>3. CASE alive /\ installing
  <2>1. /\ HasFields(prompts, {"install", "uninstall"})
        /\ \/ Prompts(1, 0) /\ NoAnswer
           \/ Prompts(0, 1) /\ NoAnswer /\ AllSystem
           \/ Prompts(0, 0) /\ OneAnswer
    BY <1>3, Zenon DEF ServiceInv
  <2>2. /\ HasFields(prompts, {"install", "uninstall"})' /\ installing'
        /\ \/ Prompts(1, 0)' /\ NoAnswer'
           \/ Prompts(0, 1)' /\ NoAnswer' /\ AllSystem'
           \/ Prompts(0, 0)' /\ OneAnswer'
    BY <1>1, <1>3, <2>1
  <2> QED BY <2>2, Zenon DEF ServiceInv
<1>4. CASE ~alive
  BY <1>4 DEF ServiceInv
<1> QED BY <1>2, <1>3, <1>4

(* Asking counts one more prompt, answering one less.                      *)
LEMMA PromptsAre ==
  ASSUME HasFields(prompts, {"install", "uninstall"}), NEW i \in Nat, NEW u \in Nat, Prompts(i, u)
  PROVE  /\ prompts' = [prompts EXCEPT !.install = @ + 1] =>
              HasFields(prompts', {"install", "uninstall"}) /\ Prompts(i + 1, u)'
         /\ prompts' = [prompts EXCEPT !.uninstall = @ + 1] =>
              HasFields(prompts', {"install", "uninstall"}) /\ Prompts(i, u + 1)'
         /\ prompts' = [prompts EXCEPT !["install"] = @ - 1] =>
              HasFields(prompts', {"install", "uninstall"}) /\ Prompts(i - 1, u)'
         /\ prompts' = [prompts EXCEPT !["uninstall"] = @ - 1] =>
              HasFields(prompts', {"install", "uninstall"}) /\ Prompts(i, u - 1)'
BY DEF HasFields, Prompts

(* The administrator's answer takes the place of its prompt.               *)
LEMMA ServiceAnswered ==
  ASSUME IsSeq(queue), ServiceInv, alive, Answer
  PROVE  ServiceInv'
<1>1. PICK what \in {"install", "uninstall"}, ok \in BOOLEAN :
        /\ prompts[what] > 0
        /\ prompts' = [prompts EXCEPT ![what] = @ - 1]
        /\ Send(<<[kind |-> IF what = "install" THEN "installed" ELSE "uninstalled"]>>)
        /\ UNCHANGED <<alive, config, installing>>
  BY Zenon DEF Answer
<1> DEFINE c == [kind |-> IF what = "install" THEN "installed" ELSE "uninstalled"]
<1>2. queue' = queue \o <<c>> /\ alive' /\ (installing' <=> installing)
  BY <1>1, Zenon DEF Send
<1>3. /\ HasFields(prompts, {"install", "uninstall"})
      /\ ~installing => Prompts(0, 0) /\ NoAnswer
      /\ installing => \/ Prompts(1, 0) /\ NoAnswer
                       \/ Prompts(0, 1) /\ NoAnswer /\ AllSystem
                       \/ Prompts(0, 0) /\ OneAnswer
  BY Zenon DEF ServiceInv
<1>4. ~Prompts(0, 0)
  BY <1>1 DEF Prompts
<1>5. AllSystem => AllSystem'
  BY <1>1 DEF AllSystem
<1>6. CASE installing /\ Prompts(1, 0) /\ NoAnswer
  <2>1. what = "install"
    BY <1>1, <1>6 DEF Prompts
  <2>2. c.kind = "installed"
    BY <2>1
  <2> HIDE DEF c
  <2>3. OneAnswer'
    <3>1. c.kind \in AnswerKinds /\ c.kind # "uninstalled"
      BY <2>2 DEF AnswerKinds
    <3> QED BY <1>2, <1>6, <3>1, AnswerGiven
  <2>4. HasFields(prompts', {"install", "uninstall"}) /\ Prompts(0, 0)'
    <3>1. prompts' = [prompts EXCEPT !["install"] = @ - 1]
      BY <1>1, <2>1
    <3>2. 1 - 1 = 0 /\ 1 \in Nat /\ 0 \in Nat
      OBVIOUS
    <3>3. HasFields(prompts', {"install", "uninstall"}) /\ Prompts(1 - 1, 0)'
      BY <1>3, <1>6, <3>1, <3>2, PromptsAre
    <3> QED BY <3>2, <3>3
  <2>5. installing'
    BY <1>2, <1>6
  <2> QED BY <2>3, <2>4, <2>5, Zenon DEF ServiceInv
<1>7. CASE installing /\ Prompts(0, 1) /\ NoAnswer /\ AllSystem
  <2>1. what = "uninstall"
    BY <1>1, <1>7 DEF Prompts
  <2>2. c.kind = "uninstalled"
    BY <2>1
  <2> HIDE DEF c
  <2>3. OneAnswer'
    <3>1. c.kind \in AnswerKinds /\ AllSystem'
      BY <2>2, <1>5, <1>7 DEF AnswerKinds
    <3> QED BY <1>2, <1>7, <3>1, AnswerGiven
  <2>4. HasFields(prompts', {"install", "uninstall"}) /\ Prompts(0, 0)'
    <3>1. prompts' = [prompts EXCEPT !["uninstall"] = @ - 1]
      BY <1>1, <2>1
    <3>2. 1 - 1 = 0 /\ 1 \in Nat /\ 0 \in Nat
      OBVIOUS
    <3>3. HasFields(prompts', {"install", "uninstall"}) /\ Prompts(0, 1 - 1)'
      BY <1>3, <1>7, <3>1, <3>2, PromptsAre
    <3> QED BY <3>2, <3>3
  <2>5. installing'
    BY <1>2, <1>7
  <2> QED BY <2>3, <2>4, <2>5, Zenon DEF ServiceInv
<1> QED BY <1>3, <1>4, <1>6, <1>7

(* The service passes from hand to hand.                                   *)
LEMMA ServiceKept ==
  ASSUME SettingsInv, ServiceInv, InterfaceStep \/ WorkerStep \/ Answer \/ Die
  PROVE  ServiceInv'
<1>0. IsSeq(queue) /\ IsConfig(config)
  BY Zenon DEF SettingsInv
<1>1. CASE InterfaceStep
  <2>1. UNCHANGED <<alive, config, installing, prompts>>
    BY <1>1, InterfaceKeeps
  <2>2. PICK cs : UserStep(cs)
    BY <1>1, InterfaceSends
  <2>3. Sent(cs) /\ \A i \in 1 .. Len(cs) : cs[i].kind \notin AnswerKinds
    BY <2>2, Zenon DEF UserStep, Allowed
  <2>4. AllSystem => AllSystem'
    BY <2>1 DEF AllSystem
  <2>5. (NoAnswer => NoAnswer') /\ (OneAnswer => OneAnswer')
    BY <1>0, <2>3, <2>4, QuietSent
  <2> QED BY <2>1, <2>4, <2>5, ServiceStays
<1>2. CASE Answer
  <2>1. CASE alive
    BY <1>0, <1>2, <2>1, ServiceAnswered
  <2>2. CASE ~alive
    <3>0. alive' = alive
      BY <1>2, Zenon DEF Answer
    <3>1. ~alive'
      BY <2>2, <3>0
    <3> QED BY <3>1, Zenon DEF ServiceInv
  <2> QED BY <2>1, <2>2
<1>3. CASE Die
  <2>1. ~alive'
    BY <1>3, Zenon DEF Die
  <2> QED BY <2>1, Zenon DEF ServiceInv
<1>4. ASSUME NEW kind, kind \notin AnswerKinds, Take(kind), UNCHANGED <<alive, installing, prompts>>,
             installing => (AllSystem => AllSystem')
      PROVE  ServiceInv'
  <2>1. NoAnswer => NoAnswer'
    BY <1>0, <1>4, QuietTaken
  <2>2. installing => (OneAnswer => OneAnswer')
    BY <1>0, <1>4, QuietTaken
  <2> QED BY <1>4, <2>1, <2>2, ServiceStays
<1>5. /\ "configure" \notin AnswerKinds /\ "policy" \notin AnswerKinds /\ "tuning" \notin AnswerKinds
      /\ "reset" \notin AnswerKinds /\ "uninstall" \notin AnswerKinds
      /\ "install" \notin AnswerKinds /\ "retry" \notin AnswerKinds
      /\ "installed" \in AnswerKinds /\ "uninstalled" \in AnswerKinds
  BY DEF AnswerKinds
<1>6. config' = Returned => AllSystem'
  <2> DEFINE r == Returned
  <2>1. \A f \in Fans : r.fans[f].mode = "system"
    BY <1>0, ReturnedIs
  <2> HIDE DEF r
  <2>2. config' = r => AllSystem'
    BY <2>1 DEF AllSystem
  <2> QED BY <2>2 DEF r
<1>7. config' = config => (AllSystem => AllSystem')
  BY DEF AllSystem
<1>8. CASE TakesSetting
  <2>1. /\ Take("configure") /\ UNCHANGED <<alive, installing, prompts>>
        /\ \A f \in Fans : config'.fans[f] = config.fans[f] \/ config'.fans[f] = queue[1].setting
        /\ installing => config' = config \/ queue[1].setting.mode = "system"
    BY <1>8, Zenon DEF TakesSetting
  <2>2. installing => (AllSystem => AllSystem')
    <3>1. CASE config' = config
      BY <1>7, <3>1
    <3>2. CASE queue[1].setting.mode = "system"
      BY <2>1, <3>2 DEF AllSystem
    <3> QED BY <2>1, <3>1, <3>2
  <2> QED BY <1>4, <1>5, <2>1, <2>2
<1>9. CASE TakesSmart
  <2>1. /\ Take("policy") \/ Take("tuning")
        /\ config'.fans = config.fans /\ UNCHANGED <<alive, installing, prompts>>
    BY <1>9, Zenon DEF TakesSmart
  <2>2. AllSystem => AllSystem'
    BY <2>1 DEF AllSystem
  <2> QED BY <1>4, <1>5, <2>1, <2>2
<1>10. CASE Reset
  <2>1. Take("reset") /\ config' = Returned /\ UNCHANGED <<alive, installing, prompts>>
    BY <1>10, Zenon DEF Reset
  <2> QED BY <1>4, <1>5, <1>6, <2>1
<1>11. CASE Retry
  <2>1. Take("retry") /\ config' = config /\ UNCHANGED <<alive, installing, prompts>>
    BY <1>11, Zenon DEF Retry
  <2> QED BY <1>4, <1>5, <1>7, <2>1
<1>12. CASE ServeUninstall
  <2>1. Take("uninstall") /\ alive' = alive /\ alive
    BY <1>12, Zenon DEF ServeUninstall, Take
  <2>2. CASE installing
    <3>1. config' = config /\ UNCHANGED <<installing, prompts>>
      BY <1>12, <2>2, Zenon DEF ServeUninstall
    <3> QED BY <1>4, <1>5, <1>7, <2>1, <3>1
  <2>3. CASE ~installing
    <3>1. /\ config' = Returned /\ installing'
          /\ prompts' = [prompts EXCEPT !.uninstall = @ + 1]
      BY <1>12, <2>3, Zenon DEF ServeUninstall
    <3>2. HasFields(prompts, {"install", "uninstall"}) /\ Prompts(0, 0) /\ NoAnswer
      BY <2>1, <2>3, Zenon DEF ServiceInv
    <3>3. NoAnswer'
      BY <1>0, <2>1, <3>2, QuietTaken
    <3>4. 0 + 1 = 1 /\ 0 \in Nat
      OBVIOUS
    <3>5. HasFields(prompts', {"install", "uninstall"}) /\ Prompts(0, 0 + 1)'
      BY <3>1, <3>2, <3>4, PromptsAre
    <3>6. HasFields(prompts, {"install", "uninstall"})' /\ Prompts(0, 1)'
      BY <3>4, <3>5
    <3> QED BY <1>6, <2>1, <3>1, <3>3, <3>6, Zenon DEF ServiceInv
  <2> QED BY <2>2, <2>3
<1>13. CASE ServeInstall
  <2>1. Take("install") /\ alive' = alive /\ alive /\ config' = config
    BY <1>13, Zenon DEF ServeInstall, Take
  <2>2. CASE installing
    <3>1. UNCHANGED <<installing, prompts>>
      BY <1>13, <2>2, Zenon DEF ServeInstall
    <3> QED BY <1>4, <1>5, <1>7, <2>1, <3>1
  <2>3. CASE ~installing
    <3>1. installing' /\ prompts' = [prompts EXCEPT !.install = @ + 1]
      BY <1>13, <2>3, Zenon DEF ServeInstall
    <3>2. HasFields(prompts, {"install", "uninstall"}) /\ Prompts(0, 0) /\ NoAnswer
      BY <2>1, <2>3, Zenon DEF ServiceInv
    <3>3. NoAnswer'
      BY <1>0, <2>1, <3>2, QuietTaken
    <3>4. 0 + 1 = 1 /\ 0 \in Nat
      OBVIOUS
    <3>5. HasFields(prompts', {"install", "uninstall"}) /\ Prompts(0 + 1, 0)'
      BY <3>1, <3>2, <3>4, PromptsAre
    <3>6. HasFields(prompts, {"install", "uninstall"})' /\ Prompts(1, 0)'
      BY <3>4, <3>5
    <3> QED BY <2>1, <3>1, <3>3, <3>6, Zenon DEF ServiceInv
  <2> QED BY <2>2, <2>3
<1>14. CASE Installed \/ Uninstalled
  <2>1. PICK kind \in AnswerKinds : Take(kind)
    BY <1>5, <1>14, Zenon DEF Installed, Uninstalled
  <2>2. alive /\ alive' = alive /\ ~installing' /\ prompts' = prompts
    BY <1>14, Zenon DEF Installed, Uninstalled, Take
  <2>3. ~NoAnswer
    <3>1. NoAnswer => kind \notin AnswerKinds
      BY <1>0, <2>1, QuietTaken
    <3> QED BY <2>1, <3>1
  <2>4. HasFields(prompts, {"install", "uninstall"}) /\ Prompts(0, 0) /\ OneAnswer
    BY <2>2, <2>3, Zenon DEF ServiceInv
  <2>5. NoAnswer'
    BY <1>0, <2>1, <2>4, QuietTaken
  <2>6. HasFields(prompts, {"install", "uninstall"})' /\ Prompts(0, 0)'
    BY <2>2, <2>4 DEF Prompts
  <2> QED BY <2>2, <2>5, <2>6, Zenon DEF ServiceInv
<1>15. CASE Publishes
  <2>1. UNCHANGED <<alive, queue, config, installing, prompts>>
    BY <1>15, Zenon DEF Publishes
  <2>2. (NoAnswer => NoAnswer') /\ (OneAnswer => OneAnswer') /\ (AllSystem => AllSystem')
    BY <2>1 DEF NoAnswer, OneAnswer, AllSystem
  <2> QED BY <2>1, <2>2, ServiceStays
<1>16. WorkerStep => TakesSetting \/ TakesSmart \/ TakesOther \/ Publishes
  BY WorkerSteps
<1>17. CASE TakesOther
  <2>1. Reset \/ ServeUninstall \/ ServeInstall \/ Installed \/ Uninstalled \/ Retry
    BY <1>17, Zenon DEF TakesOther
  <2> QED BY <2>1, <1>10, <1>11, <1>12, <1>13, <1>14
<1> QED BY <1>1, <1>2, <1>3, <1>8, <1>9, <1>15, <1>16, <1>17

-----------------------------------------------------------------------------
(* The panel's preference and the form's draft.                            *)

NoRetry == \A i \in 1 .. Len(queue) : queue[i].kind # "retry"

(* Other commands are no retry.                                            *)
LEMMA RetrySent ==
  ASSUME IsSeq(queue), NEW cs, Sent(cs), \A i \in 1 .. Len(cs) : cs[i].kind # "retry", NoRetry
  PROVE  NoRetry'
<1>1. \A i \in 1 .. Len(queue') :
        \/ i \in 1 .. Len(queue) /\ queue'[i] = queue[i]
        \/ i - Len(queue) \in 1 .. Len(cs) /\ queue'[i] = cs[i - Len(queue)]
  BY QueueSent
<1> QED BY <1>1 DEF NoRetry

(* The worker takes no retry where none was sent.                          *)
LEMMA RetryTaken ==
  ASSUME IsSeq(queue), NEW kind, Take(kind), NoRetry
  PROVE  NoRetry' /\ kind # "retry"
<1>1. /\ 1 \in 1 .. Len(queue) /\ queue[1].kind = kind
      /\ \A i \in 1 .. Len(queue') : i + 1 \in 1 .. Len(queue) /\ queue'[i] = queue[i + 1]
  BY QueueTaken
<1> QED BY <1>1 DEF NoRetry

FoundFields == {"discovered", "machine", "fans", "unranged"}

(* The draft in the session of the preference, and in the others.          *)
PreferDraft ==
  /\ NoRetry
  /\ published.found.discovered => found.discovered
  /\ form # <<>> => published.found.discovered
  /\ form # <<>> /\ ~touched /\ reply # "ok" => form[1].bias = config.bias
  /\ form # <<>> /\ ~touched /\ reply = "ok" /\ save[1].by = "panel" =>
       form[1].bias \in {save[1].previous, config.bias}

OtherDraft ==
  /\ save # <<>> => save[1].asked.bias = config.bias
  /\ form # <<>> => form[1].bias = config.bias

(* The invariant by sessions, now and after a step.                        *)
LEMMA PreferIs ==
  PreferInv <=> /\ published.config.bias = config.bias /\ HasFields(found, FoundFields)
                /\ save # <<>> /\ reply # "ok" => save[1].previous = config.bias
                /\ session = "preference" => PreferDraft
                /\ session # "preference" => OtherDraft
BY Zenon DEF PreferInv, PreferDraft, OtherDraft, NoRetry, FoundFields

(* The same after a step.                                                  *)
LEMMA PreferIsNext ==
  PreferInv' <=> /\ published'.config.bias = config'.bias /\ HasFields(found', FoundFields)
                 /\ save' # <<>> /\ reply' # "ok" => save'[1].previous = config'.bias
                 /\ session' = "preference" => PreferDraft'
                 /\ session' # "preference" => OtherDraft'
BY Zenon DEF PreferInv, PreferDraft, OtherDraft, NoRetry, FoundFields

(* A step that leaves form and slot and what is in force.                  *)
LEMMA PreferStays ==
  ASSUME PreferInv, UNCHANGED <<smart, session>>,
         reply' = reply \/ (reply # "ok" /\ reply' # "ok"),
         published'.config.bias = config'.bias, config'.bias = config.bias,
         HasFields(found', FoundFields),
         session = "preference" => /\ NoRetry => NoRetry'
                                   /\ published'.found.discovered => found'.discovered
                                   /\ published.found.discovered => published'.found.discovered
  PROVE  PreferInv'
<1>1. form' = form /\ save' = save /\ (touched' <=> touched) /\ session' = session
  BY Zenon DEF smart
<1>2. /\ save # <<>> /\ reply # "ok" => save[1].previous = config.bias
      /\ session = "preference" => PreferDraft
      /\ session # "preference" => OtherDraft
  BY PreferIs, Zenon
<1>3. save' # <<>> /\ reply' # "ok" => save'[1].previous = config'.bias
  BY <1>1, <1>2
<1>4. session' = "preference" => PreferDraft'
  <2> SUFFICES ASSUME session = "preference" PROVE PreferDraft'
    BY <1>1
  <2>1. PreferDraft
    BY <1>2
  <2>2. /\ NoRetry' /\ (published'.found.discovered => found'.discovered)
        /\ form' # <<>> => published'.found.discovered
    <3>1. NoRetry /\ (form # <<>> => published.found.discovered)
      BY <2>1, Zenon DEF PreferDraft
    <3>2. /\ NoRetry => NoRetry'
          /\ published'.found.discovered => found'.discovered
          /\ published.found.discovered => published'.found.discovered
      OBVIOUS
    <3>3. form' # <<>> => form # <<>>
      BY <1>1
    <3> QED BY <3>1, <3>2, <3>3, Zenon
  <2>3. /\ form' # <<>> /\ ~touched' /\ reply' # "ok" => form'[1].bias = config'.bias
        /\ form' # <<>> /\ ~touched' /\ reply' = "ok" /\ save'[1].by = "panel" =>
             form'[1].bias \in {save'[1].previous, config'.bias}
    BY <1>1, <2>1 DEF PreferDraft
  <2> QED BY <2>2, <2>3, Zenon DEF PreferDraft
<1>5. session' # "preference" => OtherDraft'
  BY <1>1, <1>2 DEF OtherDraft
<1> QED BY <1>3, <1>4, <1>5, PreferIsNext, Zenon

(* An edit of the form, and a save that is asked for.                      *)
LEMMA PreferEdited ==
  ASSUME SettingsInv, SaveInv, PreferInv, FormStep
  PROVE  PreferInv'
<1>1. /\ UNCHANGED <<config, found, published, session>> /\ session \in FormSessions
      /\ \/ UNCHANGED <<queue, reply, save>> /\ Edited
         \/ (\E b : Asked("panel", Tuning(b))) /\ SameDraft /\ session = "preference"
         \/ (\E t, c : Asked("form", Policy(form[1].bias, t, c))) /\ SameDraft /\ form # <<>>
  BY Zenon DEF FormStep, worker
<1>2. /\ published.config.bias = config.bias /\ HasFields(found, FoundFields)
      /\ save # <<>> /\ reply # "ok" => save[1].previous = config.bias
      /\ session = "preference" => PreferDraft
      /\ session # "preference" => OtherDraft
  BY PreferIs, Zenon
<1>3. ASSUME session = "preference"
      PROVE  /\ NoRetry' /\ (published'.found.discovered => found'.discovered)
             /\ form # <<>> => published'.found.discovered
             /\ form # <<>> /\ ~touched /\ reply # "ok" => form[1].bias = config.bias
  <2>1. /\ NoRetry /\ (published.found.discovered => found.discovered)
        /\ form # <<>> => published.found.discovered
        /\ form # <<>> /\ ~touched /\ reply # "ok" => form[1].bias = config.bias
    BY <1>2, <1>3, Zenon DEF PreferDraft
  <2>2. NoRetry'
    <3>1. IsSeq(queue)
      BY Zenon DEF SettingsInv
    <3>2. CASE queue' = queue
      BY <2>1, <3>2 DEF NoRetry
    <3>3. PICK cs : UserStep(cs)
      BY InterfaceSends, Zenon DEF InterfaceStep
    <3>4. Sent(cs) /\ \A i \in 1 .. Len(cs) : cs[i].kind # "retry"
      BY <1>3, <3>3, Zenon DEF UserStep, Allowed
    <3> QED BY <2>1, <3>1, <3>4, RetrySent
  <2> QED BY <1>1, <2>1, <2>2
<1>4. CASE UNCHANGED <<queue, reply, save>> /\ Edited
  <2>1. /\ reply' = reply /\ save' = save
        /\ \/ SameDraft
           \/ form # <<>> /\ form' # <<>> /\ touched' /\ session = "preference"
           \/ /\ form # <<>> /\ form' # <<>>
              /\ published.found.discovered /\ form'[1].bias = published.config.bias
    BY <1>4, Zenon DEF Edited
  <2>2. form' # <<>> => form # <<>>
    BY <2>1, Zenon DEF SameDraft
  <2>3. save' # <<>> /\ reply' # "ok" => save'[1].previous = config'.bias
    BY <1>1, <1>2, <2>1
  <2>4. ASSUME session = "preference" PROVE PreferDraft'
    <3>1. CASE SameDraft
      <4>1. (touched' <=> touched) /\ (form # <<>> => form'[1].bias = form[1].bias)
        BY <3>1, Zenon DEF SameDraft
      <4>2. form # <<>> /\ ~touched /\ reply = "ok" /\ save[1].by = "panel" =>
              form[1].bias \in {save[1].previous, config.bias}
        BY <1>2, <2>4, Zenon DEF PreferDraft
      <4>3. /\ form' # <<>> /\ ~touched' /\ reply' # "ok" => form'[1].bias = config'.bias
            /\ form' # <<>> /\ ~touched' /\ reply' = "ok" /\ save'[1].by = "panel" =>
                 form'[1].bias \in {save'[1].previous, config'.bias}
        BY <1>1, <1>3, <2>1, <2>2, <2>4, <4>1, <4>2
      <4> QED BY <1>3, <2>2, <2>4, <4>3, Zenon DEF PreferDraft
    <3>2. CASE touched'
      BY <1>3, <2>2, <2>4, <3>2, Zenon DEF PreferDraft
    <3>3. CASE form' # <<>> /\ form'[1].bias = published.config.bias
      <4>1. form'[1].bias = config'.bias
        BY <1>1, <1>2, <3>3
      <4>2. form'[1].bias \in {save'[1].previous, config'.bias}
        BY <4>1
      <4> QED BY <1>3, <2>2, <2>4, <4>1, <4>2, Zenon DEF PreferDraft
    <3> QED BY <2>1, <3>1, <3>2, <3>3
  <2>5. ASSUME session # "preference" PROVE OtherDraft'
    <3>1. OtherDraft
      BY <1>2, <2>5
    <3>2. form' # <<>> => form'[1].bias = form[1].bias \/ form'[1].bias = published.config.bias
      BY <2>1, <2>2, <2>5, Zenon DEF SameDraft
    <3> QED BY <1>1, <1>2, <2>1, <2>2, <3>1, <3>2 DEF OtherDraft
  <2> QED BY <1>1, <1>2, <2>3, <2>4, <2>5, PreferIsNext
<1>5. ASSUME NEW by, NEW a, Asked(by, a), SameDraft,
             session # "preference" => a.bias = form[1].bias /\ form # <<>>
      PROVE  PreferInv'
  <2> DEFINE p == published.config.bias  s == [by |-> by, previous |-> p, asked |-> a]
  <2>1. save = <<>> /\ reply' = "waiting" /\ save' = <<s>>
    BY <1>5, Zenon DEF Asked
  <2>2. save'[1].previous = p /\ save'[1].asked = a /\ save' # <<>>
    BY <2>1
  <2>3. reply # "ok"
    BY <2>1 DEF SaveInv
  <2>4. /\ (touched' <=> touched) /\ (form' # <<>> => form # <<>>)
        /\ form # <<>> => form'[1].bias = form[1].bias
    BY <1>5, Zenon DEF SameDraft
  <2>5. save'[1].previous = config'.bias
    BY <1>1, <1>2, <2>2
  <2>6. ASSUME session = "preference" PROVE PreferDraft'
    <3>1. form' # <<>> /\ ~touched' => form'[1].bias = config'.bias
      BY <1>1, <1>3, <2>3, <2>4, <2>6
    <3>2. reply' # "ok"
      BY <2>1
    <3> QED BY <1>3, <2>4, <2>6, <3>1, <3>2, Zenon DEF PreferDraft
  <2>7. ASSUME session # "preference" PROVE OtherDraft'
    <3>1. form # <<>> => form[1].bias = config.bias
      BY <1>2, <2>7, Zenon DEF OtherDraft
    <3> QED BY <1>1, <1>5, <2>2, <2>4, <2>7, <3>1 DEF OtherDraft
  <2> QED BY <1>1, <1>2, <2>5, <2>6, <2>7, PreferIsNext
<1>6. ASSUME NEW b, Asked("panel", Tuning(b)), SameDraft, session = "preference" PROVE PreferInv'
  <2> DEFINE a == Tuning(b)  by == "panel"
  <2>1. Asked(by, a)
    BY <1>6
  <2> HIDE DEF a, by
  <2> QED BY <1>5, <1>6, <2>1
<1>7. ASSUME NEW t, NEW c, Asked("form", Policy(form[1].bias, t, c)), SameDraft, form # <<>>
      PROVE  PreferInv'
  <2> DEFINE a == Policy(form[1].bias, t, c)  by == "form"
  <2>1. Asked(by, a) /\ a.bias = form[1].bias
    BY <1>7 DEF Policy
  <2> HIDE DEF a, by
  <2> QED BY <1>5, <1>7, <2>1
<1> QED BY <1>1, <1>4, <1>6, <1>7

(* A tick takes the answer and lets the draft follow.                      *)
LEMMA PreferRefreshed ==
  ASSUME SettingsInv, SaveInv, FormInv, PreferInv, session \in FormSessions,
         UNCHANGED <<config, found, published, session>>, RefreshSmart,
         session = "preference" => (NoRetry => NoRetry')
  PROVE  PreferInv'
<1>1. /\ published.config.bias = config.bias /\ HasFields(found, FoundFields)
      /\ save # <<>> /\ reply # "ok" => save[1].previous = config.bias
      /\ session = "preference" => PreferDraft
      /\ session # "preference" => OtherDraft
  BY PreferIs, Zenon
<1>2. /\ save' = (IF Answered THEN <<>> ELSE save) /\ reply' = (IF Answered THEN "none" ELSE reply)
      /\ touched' <=> (touched /\ ~(/\ Answered /\ reply = "ok" /\ save[1].by = "form"
                                    /\ published.found.discovered))
  BY Zenon DEF RefreshSmart
<1>3. /\ form = <<>> =>
           \/ form' = <<>> /\ ~published.found.discovered
           \/ /\ form' # <<>> /\ published.found.discovered
              /\ form'[1].bias = published.config.bias
      /\ form # <<>> => form' # <<>> /\ form'[1].bias = PolledBias
  BY SmartRefreshed
<1>4. reply' # "ok"
  BY <1>2 DEF Answered
<1>5. save' # <<>> /\ reply' # "ok" => save'[1].previous = config'.bias
  BY <1>1, <1>2 DEF Answered
<1>6. reply = "ok" =>
        /\ save # <<>> /\ save[1].by \in {"form", "panel"} /\ save[1].asked.bias = config.bias
  BY DEF SaveInv, IsSave, Holds
<1>7. PolledBias = form[1].bias \/ PolledBias = config.bias
  BY <1>1, <1>6 DEF PolledBias
<1>8. ASSUME session = "preference" PROVE PreferDraft'
  <2>1. /\ NoRetry /\ (published.found.discovered => found.discovered)
        /\ form # <<>> => published.found.discovered
        /\ form # <<>> /\ ~touched /\ reply # "ok" => form[1].bias = config.bias
        /\ form # <<>> /\ ~touched /\ reply = "ok" /\ save[1].by = "panel" =>
             form[1].bias \in {save[1].previous, config.bias}
    BY <1>1, <1>8, Zenon DEF PreferDraft
  <2>2. form' # <<>> => published.found.discovered
    BY <1>3, <2>1
  <2>3. form' # <<>> /\ ~touched' => form'[1].bias = config.bias
    <3> SUFFICES ASSUME form' # <<>>, ~touched' PROVE form'[1].bias = config.bias
      OBVIOUS
    <3>1. CASE form = <<>>
      BY <1>1, <1>3, <3>1
    <3>2. CASE form # <<>> /\ reply # "ok"
      <4>1. ~touched
        BY <1>2, <3>2, Zenon
      <4>2. PolledBias = form[1].bias
        BY <3>2, Zenon DEF PolledBias
      <4> QED BY <1>3, <2>1, <3>2, <4>1, <4>2
    <3>3. CASE form # <<>> /\ reply = "ok" /\ save[1].by = "panel"
      <4>1. ~touched
        <5>1. save[1].by # "form"
          BY <3>3
        <5> QED BY <1>2, <5>1, Zenon
      <4>2. PolledBias = IF form[1].bias = save[1].previous THEN save[1].asked.bias ELSE form[1].bias
        BY <3>3, Zenon DEF PolledBias
      <4> QED BY <1>3, <1>6, <2>1, <3>3, <4>1, <4>2
    <3>4. CASE form # <<>> /\ reply = "ok" /\ save[1].by # "panel"
      <4>1. PolledBias = published.config.bias
        BY <2>1, <3>4, Zenon DEF PolledBias
      <4> QED BY <1>1, <1>3, <3>4, <4>1
    <3> QED BY <3>1, <3>2, <3>3, <3>4
  <2>4. /\ NoRetry' /\ (published'.found.discovered => found'.discovered)
        /\ form' # <<>> => published'.found.discovered
        /\ form' # <<>> /\ ~touched' => form'[1].bias = config'.bias
    BY <1>8, <2>1, <2>2, <2>3
  <2> QED BY <1>4, <2>4, Zenon DEF PreferDraft
<1>9. ASSUME session # "preference" PROVE OtherDraft'
  <2>1. /\ save # <<>> => save[1].asked.bias = config.bias
        /\ form # <<>> => form[1].bias = config.bias
    BY <1>1, <1>9, Zenon DEF OtherDraft
  <2>2. save' # <<>> => save'[1].asked.bias = config'.bias
    BY <1>2, <2>1
  <2>3. form' # <<>> => form'[1].bias = config'.bias
    BY <1>1, <1>3, <1>7, <2>1
  <2> QED BY <2>2, <2>3, Zenon DEF OtherDraft
<1> QED BY <1>1, <1>5, <1>8, <1>9, PreferIsNext

(* No step parts the two views of the preference.                          *)
LEMMA PreferKept ==
  ASSUME SettingsInv, SaveInv, FormInv, PreferInv,
         InterfaceStep \/ ((WorkerStep \/ Answer \/ Die) /\ Outside)
  PROVE  PreferInv'
<1>0. /\ published.config.bias = config.bias /\ HasFields(found, FoundFields)
      /\ save # <<>> /\ reply # "ok" => save[1].previous = config.bias
      /\ session = "preference" => PreferDraft
      /\ session # "preference" => OtherDraft
  BY PreferIs, Zenon
<1>1. /\ IsSeq(queue) /\ HasFields(published, {"config", "installing", "ready", "owed", "found"})
  BY Zenon DEF SettingsInv
<1>2. session = "preference" => NoRetry /\ (published.found.discovered => found.discovered)
  BY <1>0, Zenon DEF PreferDraft
<1>3. ASSUME InterfaceStep
      PROVE  /\ UNCHANGED <<alive, config, found, published, session>>
             /\ session = "preference" => (NoRetry => NoRetry')
  <2>1. UNCHANGED <<alive, config, found, published, session>>
    BY <1>3, InterfaceKeeps
  <2>2. PICK cs : UserStep(cs)
    BY <1>3, InterfaceSends
  <2>3. Sent(cs) /\ (session = "preference" => \A i \in 1 .. Len(cs) : cs[i].kind # "retry")
    BY <2>2, Zenon DEF UserStep, Allowed
  <2> QED BY <1>1, <2>1, <2>3, RetrySent
<1>4. CASE DeskStep \/ EditorStep
  <2>1. UNCHANGED <<smart, reply>>
    BY <1>4, Zenon DEF DeskStep, EditorStep
  <2>2. InterfaceStep
    BY <1>4, Zenon DEF InterfaceStep
  <2> QED BY <1>0, <1>2, <1>3, <2>1, <2>2, PreferStays
<1>5. CASE RefreshStep
  <2>1. InterfaceStep
    BY <1>5, Zenon DEF InterfaceStep
  <2>2. CASE UNCHANGED <<smart, reply>>
    BY <1>0, <1>2, <1>3, <2>1, <2>2, PreferStays
  <2>3. CASE session \in FormSessions /\ RefreshSmart
    BY <1>3, <2>1, <2>3, PreferRefreshed
  <2> QED BY <1>5, <2>2, <2>3, Zenon DEF RefreshStep
<1>6. CASE FormStep
  BY <1>6, PreferEdited
<1>7. CASE Answer /\ Outside
  <2>1. PICK c : /\ c.kind \in AnswerKinds /\ Sent(<<c>>)
                 /\ UNCHANGED <<alive, config, found, reply, published>>
    BY <1>7, AnswerIs, Zenon DEF AnswerSent
  <2> DEFINE cs == <<c>>
  <2>2. Len(cs) = 1 /\ cs[1] = c /\ Sent(cs)
    BY <2>1, ShortSeq
  <2> HIDE DEF cs
  <2>3. \A i \in 1 .. Len(cs) : cs[i].kind # "retry"
    BY <2>1, <2>2 DEF AnswerKinds
  <2>4. NoRetry => NoRetry'
    BY <1>1, <2>2, <2>3, RetrySent
  <2>5. UNCHANGED <<smart, session>>
    BY <1>7, Zenon DEF Outside
  <2> QED BY <1>0, <1>2, <2>1, <2>4, <2>5, PreferStays
<1>8. CASE Die /\ Outside
  <2>1. /\ queue' = <<>> /\ UNCHANGED <<config, found, published>>
        /\ reply' = IF reply = "waiting" THEN "closed" ELSE reply
    BY <1>8, Zenon DEF Die
  <2>2. NoRetry'
    BY <2>1, ShortSeq DEF NoRetry
  <2>3. UNCHANGED <<smart, session>>
    BY <1>8, Zenon DEF Outside
  <2>4. reply' = reply \/ (reply # "ok" /\ reply' # "ok")
    BY <2>1
  <2> QED BY <1>0, <1>2, <2>1, <2>2, <2>3, <2>4, PreferStays
<1>9. CASE TakesSetting /\ Outside
  <2>1. /\ Take("configure") /\ config'.bias = config.bias
        /\ UNCHANGED <<found, reply, published>>
    BY <1>9, Zenon DEF TakesSetting
  <2>2. NoRetry => NoRetry'
    BY <1>1, <2>1, RetryTaken
  <2>3. UNCHANGED <<smart, session>>
    BY <1>9, Zenon DEF Outside
  <2> QED BY <1>0, <1>2, <2>1, <2>2, <2>3, PreferStays
<1>10. CASE TakesOther /\ Outside
  <2>1. PICK kind \in OtherKinds :
          /\ Take(kind) /\ config'.bias = config.bias /\ UNCHANGED <<reply, published>>
          /\ found' = found \/ (kind = "retry" /\ \E machine :
                        found' = [found EXCEPT !.discovered = FALSE, !.machine = @ \/ machine])
    BY <1>10, Zenon DEF TakesOther
  <2>2. NoRetry => NoRetry' /\ kind # "retry"
    BY <1>1, <2>1, RetryTaken
  <2>3. HasFields(found', FoundFields)
    BY <1>0, <2>1 DEF HasFields, FoundFields
  <2>4. UNCHANGED <<smart, session>>
    BY <1>10, Zenon DEF Outside
  <2>5. session = "preference" =>
          /\ NoRetry => NoRetry'
          /\ published'.found.discovered => found'.discovered
          /\ published.found.discovered => published'.found.discovered
    <3> SUFFICES ASSUME session = "preference"
                 PROVE  /\ NoRetry' /\ (published'.found.discovered => found'.discovered)
                        /\ published.found.discovered => published'.found.discovered
      BY Zenon
    <3>1. found' = found /\ published' = published /\ NoRetry'
      BY <1>2, <2>1, <2>2
    <3> QED BY <1>2, <3>1
  <2> QED BY <1>0, <1>2, <2>1, <2>3, <2>4, <2>5, PreferStays
<1>11. CASE Publishes /\ Outside
  <2>1. /\ queue' = queue /\ config' = config /\ reply' = reply
        /\ published'.config = config /\ published'.found = found'
        /\ \E outage \in BOOLEAN : found' = Sampled(outage)
    BY <1>11, Zenon DEF Publishes
  <2>2. HasFields(found', FoundFields) /\ (found.discovered => found'.discovered)
    BY <1>0, <2>1 DEF HasFields, FoundFields, Sampled
  <2>3. NoRetry => NoRetry'
    BY <2>1 DEF NoRetry
  <2>4. UNCHANGED <<smart, session>>
    BY <1>11, Zenon DEF Outside
  <2>5. session = "preference" =>
          /\ NoRetry => NoRetry'
          /\ published'.found.discovered => found'.discovered
          /\ published.found.discovered => published'.found.discovered
    BY <1>2, <2>1, <2>2, <2>3
  <2>6. published'.config.bias = config'.bias /\ config'.bias = config.bias
    BY <2>1
  <2> QED BY <2>1, <2>2, <2>4, <2>5, <2>6, PreferStays
<1>12. CASE TakesSmart /\ Outside
  <2>1. /\ Take("policy") \/ Take("tuning")
        /\ published' = [published EXCEPT !.config = config']
        /\ \/ reply' = "ok" /\ Holds(config', queue[1])
           \/ reply' = "error" /\ config' = config
        /\ found' = found
    BY <1>12, Zenon DEF TakesSmart
  <2>2. published'.config = config' /\ published'.found = published.found
    BY <1>1, <2>1 DEF HasFields
  <2>3. form' = form /\ save' = save /\ (touched' <=> touched) /\ session' = session
    BY <1>12, Zenon DEF Outside, smart
  <2>4. PICK kind \in SmartKinds : Take(kind)
    BY <2>1 DEF SmartKinds
  <2>5. ~NoSmart
    <3>1. NoSmart => kind \notin SmartKinds
      BY <1>1, <2>4, PlainTaken
    <3> QED BY <3>1
  <2>6. save # <<>> /\ reply = "waiting" /\ OneSmart(save[1].asked)
    BY <2>5, Zenon DEF SaveInv
  <2> DEFINE a == save[1].asked
  <2>7. OneSmart(a)
    BY <2>6
  <2> HIDE DEF a
  <2>8. queue[1] = a
    BY <1>1, <2>4, <2>7, PlainTaken
  <2>9. reply' = "ok" => config'.bias = a.bias
    BY <2>1, <2>8 DEF Holds
  <2>10. reply # "ok" /\ save[1].previous = config.bias
    BY <1>0, <2>6
  <2>11. save' # <<>> /\ reply' # "ok" => save'[1].previous = config'.bias
    BY <2>1, <2>3, <2>10
  <2>12. ASSUME session = "preference" PROVE PreferDraft'
    <3>1. NoRetry'
      BY <1>1, <1>2, <2>4, <2>12, RetryTaken
    <3>2. published'.found.discovered => found'.discovered
      BY <1>2, <2>1, <2>2, <2>12
    <3>3. form' # <<>> => published'.found.discovered
      <4>1. form # <<>> => published.found.discovered
        BY <1>0, <2>12, Zenon DEF PreferDraft
      <4> QED BY <2>2, <2>3, <4>1
    <3>4. form # <<>> /\ ~touched => form[1].bias = config.bias
      BY <1>0, <2>10, <2>12, Zenon DEF PreferDraft
    <3>5. form' # <<>> /\ ~touched' /\ reply' # "ok" => form'[1].bias = config'.bias
      BY <2>1, <2>3, <3>4
    <3>6. form' # <<>> /\ ~touched' => form'[1].bias \in {save'[1].previous, config'.bias}
      BY <2>3, <2>10, <3>4
    <3> QED BY <3>1, <3>2, <3>3, <3>5, <3>6, Zenon DEF PreferDraft
  <2>13. ASSUME session # "preference" PROVE OtherDraft'
    <3>1. a.bias = config.bias /\ (form # <<>> => form[1].bias = config.bias)
      BY <1>0, <2>6, <2>13 DEF OtherDraft, a
    <3>2. config'.bias = config.bias
      BY <2>1, <2>9, <3>1
    <3>3. save'[1].asked = a
      BY <2>3 DEF a
    <3> QED BY <2>3, <3>1, <3>2, <3>3 DEF OtherDraft
  <2>14. published'.config.bias = config'.bias /\ HasFields(found', FoundFields)
    BY <1>0, <2>1, <2>2
  <2> QED BY <2>3, <2>11, <2>12, <2>13, <2>14, PreferIsNext
<1>13. WorkerStep => TakesSetting \/ TakesSmart \/ TakesOther \/ Publishes
  BY WorkerSteps
<1> QED BY <1>4, <1>5, <1>6, <1>7, <1>8, <1>9, <1>10, <1>11, <1>12, <1>13, Zenon DEF InterfaceStep

-----------------------------------------------------------------------------
(* The numbers of the gestures.                                            *)

PendingNext(by) ==
  /\ by[2] \in Nat /\ by[2] <= gestures'
  /\ by[1] = "panel" /\ panel'.pending # <<>> => by[2] <= panel'.pending[1].at
  /\ by[1] = "page" /\ page'.pending # <<>> => by[2] <= page'.pending[1].at

(* The invariant after a step, with the primes where they belong.          *)
LEMMA OrderInvIs ==
  OrderInv' <=>
    /\ gestures' \in Nat
    /\ panel'.pending # <<>> => panel'.pending[1].at \in Nat /\ panel'.pending[1].at <= gestures'
    /\ page'.pending # <<>> => page'.pending[1].at \in Nat /\ page'.pending[1].at <= gestures'
    /\ \A f \in Fans : PendingNext(config'.fans[f].by)
    /\ \A i \in 1 .. Len(queue') : queue'[i].kind = "configure" =>
         /\ PendingNext(queue'[i].setting.by)
         /\ \A f \in Fans : Follows(config'.fans[f].by, queue'[i].setting.by)
         /\ \A j \in 1 .. i : queue'[j].kind = "configure" =>
              Follows(queue'[j].setting.by, queue'[i].setting.by)
BY Zenon DEF OrderInv, PendingAt, PendingNext

(* A setting that is there already keeps its place in the order.           *)
LEMMA OlderStays ==
  ASSUME gestures \in Nat, NEW by, PendingAt(by), NEW cs, NEW p, NEW q, Orders(cs, p, q)
  PROVE  /\ PendingNext(by) /\ Follows(by, <<"panel", p>>) /\ Follows(by, <<"page", q>>)
<1>1. /\ by[2] \in Nat /\ by[2] <= gestures
      /\ by[1] = "panel" /\ panel.pending # <<>> => by[2] <= panel.pending[1].at
      /\ by[1] = "page" /\ page.pending # <<>> => by[2] <= page.pending[1].at
  BY Zenon DEF PendingAt
<1>2. /\ gestures' \in Nat /\ gestures <= gestures'
      /\ p = gestures' \/ (panel.pending # <<>> /\ p = panel.pending[1].at)
      /\ q = gestures' \/ (page.pending # <<>> /\ q = page.pending[1].at)
      /\ panel'.pending # panel.pending /\ panel'.pending # <<>> => panel'.pending[1].at = gestures'
      /\ page'.pending # page.pending /\ page'.pending # <<>> => page'.pending[1].at = gestures'
  BY Zenon DEF Orders, Numbered
<1>3. by[2] <= gestures'
  BY <1>1, <1>2
<1>4. /\ by[1] = "panel" /\ panel'.pending # <<>> => by[2] <= panel'.pending[1].at
      /\ by[1] = "page" /\ page'.pending # <<>> => by[2] <= page'.pending[1].at
  BY <1>1, <1>2, <1>3
<1>5. PendingNext(by)
  BY <1>1, <1>3, <1>4 DEF PendingNext
<1>6. /\ by[1] = "panel" => by[2] <= p
      /\ by[1] = "page" => by[2] <= q
  BY <1>1, <1>2, <1>3
<1> QED BY <1>5, <1>6 DEF Follows

(* A setting that is sent has its place at the end of the order.           *)
LEMMA NewerIs ==
  ASSUME NEW cs, NEW p, NEW q, Orders(cs, p, q)
  PROVE  /\ p \in Nat /\ q \in Nat
         /\ \A by : By(by, "panel", p, panel'.pending) => PendingNext(by) /\ by = <<"panel", p>>
         /\ \A by : By(by, "page", q, page'.pending) => PendingNext(by) /\ by = <<"page", q>>
<1>1. p \in Nat /\ p <= gestures' /\ q \in Nat /\ q <= gestures'
  BY Zenon DEF Orders, Numbered
<1>2. ASSUME NEW by, By(by, "panel", p, panel'.pending)
      PROVE  PendingNext(by) /\ by = <<"panel", p>>
  <2>1. by[1] = "panel" /\ by[2] = p /\ by = <<"panel", p>>
        /\ (panel'.pending # <<>> => p <= panel'.pending[1].at)
    BY <1>2 DEF By
  <2> QED BY <1>1, <2>1 DEF PendingNext
<1>3. ASSUME NEW by, By(by, "page", q, page'.pending)
      PROVE  PendingNext(by) /\ by = <<"page", q>>
  <2>1. by[1] = "page" /\ by[2] = q /\ by = <<"page", q>>
        /\ (page'.pending # <<>> => q <= page'.pending[1].at)
    BY <1>3 DEF By
  <2> QED BY <1>1, <2>1 DEF PendingNext
<1> QED BY <1>1, <1>2, <1>3

(* What is sent joins the channel in order.                                *)
LEMMA OrderSent ==
  ASSUME OrderInv, IsSeq(queue), config' = config, NEW cs, Sent(cs),
         NEW p, NEW q, Orders(cs, p, q)
  PROVE  OrderInv'
<1> DEFINE B(i) == queue[i].setting.by  N(i) == queue'[i].setting.by
           New(i) == N(i) = <<"panel", p>> \/ N(i) = <<"page", q>>
<1>1. /\ gestures \in Nat
      /\ panel.pending # <<>> => panel.pending[1].at \in Nat /\ panel.pending[1].at <= gestures
      /\ page.pending # <<>> => page.pending[1].at \in Nat /\ page.pending[1].at <= gestures
      /\ \A f \in Fans : PendingAt(config.fans[f].by)
      /\ \A i \in 1 .. Len(queue) : queue[i].kind = "configure" =>
           /\ PendingAt(B(i))
           /\ \A f \in Fans : Follows(config.fans[f].by, B(i))
           /\ \A j \in 1 .. i : queue[j].kind = "configure" => Follows(B(j), B(i))
  BY Zenon DEF OrderInv
<1>2. /\ gestures' \in Nat /\ gestures <= gestures' /\ p \in Nat /\ q \in Nat
      /\ panel'.pending # panel.pending /\ panel'.pending # <<>> => panel'.pending[1].at = gestures'
      /\ page'.pending # page.pending /\ page'.pending # <<>> => page'.pending[1].at = gestures'
      /\ \A i \in 1 .. Len(cs) : cs[i].kind = "configure" =>
           \/ By(cs[i].setting.by, "panel", p, panel'.pending)
           \/ By(cs[i].setting.by, "page", q, page'.pending)
  BY Zenon DEF Orders, Numbered
<1>3. /\ panel'.pending # <<>> => panel'.pending[1].at \in Nat /\ panel'.pending[1].at <= gestures'
      /\ page'.pending # <<>> => page'.pending[1].at \in Nat /\ page'.pending[1].at <= gestures'
  BY <1>1, <1>2
<1>4. ASSUME NEW by, PendingAt(by)
      PROVE  PendingNext(by) /\ Follows(by, <<"panel", p>>) /\ Follows(by, <<"page", q>>)
  BY <1>1, <1>4, OlderStays
<1>5. \A f \in Fans : /\ PendingNext(config'.fans[f].by)
                      /\ Follows(config'.fans[f].by, <<"panel", p>>)
                      /\ Follows(config'.fans[f].by, <<"page", q>>)
  BY <1>1, <1>4
<1>6. /\ Len(queue) \in Nat /\ Len(queue') \in Nat
      /\ \A i \in 1 .. Len(queue') :
           \/ i \in 1 .. Len(queue) /\ queue'[i] = queue[i]
           \/ i - Len(queue) \in 1 .. Len(cs) /\ queue'[i] = cs[i - Len(queue)]
      /\ \A i \in 1 .. Len(queue) : queue'[i] = queue[i]
  BY QueueSent
<1>6a. /\ \A by : By(by, "panel", p, panel'.pending) => PendingNext(by) /\ by = <<"panel", p>>
       /\ \A by : By(by, "page", q, page'.pending) => PendingNext(by) /\ by = <<"page", q>>
  BY NewerIs, Zenon
<1>7. ASSUME NEW i \in 1 .. Len(queue'), queue'[i].kind = "configure"
      PROVE  /\ PendingNext(N(i))
             /\ \/ i \in 1 .. Len(queue) /\ queue[i].kind = "configure" /\ N(i) = B(i)
                \/ i \notin 1 .. Len(queue) /\ New(i)
  <2>1. CASE i \in 1 .. Len(queue)
    <3>1. queue[i].kind = "configure" /\ N(i) = B(i)
      BY <1>6, <1>7, <2>1
    <3>2. PendingAt(B(i))
      BY <1>1, <2>1, <3>1
    <3>3. PendingNext(B(i))
      BY <1>4, <3>2
    <3> QED BY <2>1, <3>1, <3>3
  <2>2. CASE i \notin 1 .. Len(queue)
    <3> DEFINE k == i - Len(queue)
    <3>1. k \in 1 .. Len(cs) /\ queue'[i] = cs[k]
      BY <1>6, <2>2
    <3>2. PICK by : by = N(i)
      OBVIOUS
    <3>3. By(by, "panel", p, panel'.pending) \/ By(by, "page", q, page'.pending)
      BY <1>2, <1>7, <3>1, <3>2
    <3>4. PendingNext(by) /\ (by = <<"panel", p>> \/ by = <<"page", q>>)
      BY <1>6a, <3>3
    <3> QED BY <2>2, <3>2, <3>4
  <2> QED BY <2>1, <2>2
<1>8. ASSUME NEW i \in 1 .. Len(queue'), queue'[i].kind = "configure", NEW f \in Fans
      PROVE  Follows(config'.fans[f].by, N(i))
  <2>1. CASE i \in 1 .. Len(queue) /\ queue[i].kind = "configure" /\ N(i) = B(i)
    BY <1>1, <2>1
  <2>2. CASE New(i)
    BY <1>5, <2>2
  <2> QED BY <1>7, <1>8, <2>1, <2>2
<1>9. ASSUME NEW i \in 1 .. Len(queue'), queue'[i].kind = "configure",
             NEW j \in 1 .. i, queue'[j].kind = "configure"
      PROVE  Follows(N(j), N(i))
  <2>0. j \in 1 .. Len(queue')
    BY <1>6
  <2>1. CASE i \in 1 .. Len(queue)
    <3>1. j \in 1 .. Len(queue)
      BY <1>6, <2>1
    <3>2. queue[i].kind = "configure" /\ N(i) = B(i) /\ queue[j].kind = "configure" /\ N(j) = B(j)
      BY <1>6, <1>9, <2>1, <3>1
    <3> QED BY <1>1, <2>1, <3>2
  <2>2. CASE i \notin 1 .. Len(queue) /\ j \in 1 .. Len(queue)
    <3>1. New(i)
      BY <1>7, <1>9, <2>2
    <3>2. queue[j].kind = "configure" /\ N(j) = B(j)
      BY <1>6, <1>9, <2>2
    <3>3. PendingAt(B(j))
      BY <1>1, <2>2, <3>2
    <3>4. Follows(B(j), <<"panel", p>>) /\ Follows(B(j), <<"page", q>>)
      BY <1>4, <3>3
    <3> QED BY <3>1, <3>2, <3>4
  <2>3. CASE i \notin 1 .. Len(queue) /\ j \notin 1 .. Len(queue)
    <3>1. New(i) /\ New(j)
      BY <1>7, <1>9, <2>0, <2>3
    <3> HIDE DEF N
    <3>2. p <= p /\ q <= q
      BY <1>2
    <3> QED BY <3>1, <3>2 DEF Follows
  <2> QED BY <2>1, <2>2, <2>3
<1> HIDE DEF New
<1>10. \A i \in 1 .. Len(queue') : queue'[i].kind = "configure" =>
        /\ PendingNext(N(i))
        /\ \A f \in Fans : Follows(config'.fans[f].by, N(i))
        /\ \A j \in 1 .. i : queue'[j].kind = "configure" => Follows(N(j), N(i))
  BY <1>7, <1>8, <1>9
<1> QED BY <1>2, <1>3, <1>5, <1>10, OrderInvIs, Zenon

(* Commands that set no fan, from a gesture that leaves the sliders.       *)
LEMMA QuietOrders ==
  ASSUME gestures \in Nat, gestures' \in Nat, gestures <= gestures', UNCHANGED <<panel, page>>,
         NEW cs, \A i \in 1 .. Len(cs) : cs[i].kind # "configure"
  PROVE  Orders(cs, gestures', gestures')
<1>1. Numbered(gestures', panel.pending, panel'.pending)
      /\ Numbered(gestures', page.pending, page'.pending)
  BY DEF Numbered
<1> QED BY <1>1, Zenon DEF Orders

(* A fan takes the setting at the head of the channel, or keeps its own.   *)
LEMMA OrderTaken ==
  ASSUME OrderInv, IsSeq(queue), NEW kind, Take(kind), UNCHANGED <<panel, page, gestures>>,
         \A f \in Fans : \/ config'.fans[f].by = config.fans[f].by
                         \/ kind = "configure" /\ config'.fans[f].by = queue[1].setting.by
  PROVE  OrderInv' /\ \A f \in Fans : Follows(config.fans[f].by, config'.fans[f].by)
<1> DEFINE B(i) == queue[i].setting.by  C(f) == config.fans[f].by  D(f) == config'.fans[f].by
<1>1. /\ gestures \in Nat
      /\ panel.pending # <<>> => panel.pending[1].at \in Nat /\ panel.pending[1].at <= gestures
      /\ page.pending # <<>> => page.pending[1].at \in Nat /\ page.pending[1].at <= gestures
      /\ \A f \in Fans : PendingAt(C(f))
      /\ \A i \in 1 .. Len(queue) : queue[i].kind = "configure" =>
           /\ PendingAt(B(i))
           /\ \A f \in Fans : Follows(C(f), B(i))
           /\ \A j \in 1 .. i : queue[j].kind = "configure" => Follows(B(j), B(i))
  BY Zenon DEF OrderInv
<1>2. /\ Len(queue) \in Nat /\ 1 \in 1 .. Len(queue) /\ queue[1].kind = kind
      /\ \A i \in 1 .. Len(queue') : i + 1 \in 1 .. Len(queue) /\ queue'[i] = queue[i + 1]
  BY QueueTaken
<1>3. \A f \in Fans : D(f) = C(f) \/ (kind = "configure" /\ D(f) = B(1))
  OBVIOUS
<1>4. \A by : PendingAt(by) <=> PendingNext(by)
  <2>1. panel' = panel /\ page' = page /\ gestures' = gestures
    OBVIOUS
  <2> QED BY <2>1, Zenon DEF PendingAt, PendingNext
<1>5. ASSUME NEW f \in Fans PROVE PendingNext(D(f)) /\ Follows(C(f), D(f))
  <2>1. CASE D(f) = C(f)
    <3>1. PendingAt(C(f))
      BY <1>1
    <3>2. C(f)[2] \in Nat
      BY <3>1, Zenon DEF PendingAt
    <3>3. Follows(C(f), C(f))
      BY <3>2 DEF Follows
    <3> QED BY <1>4, <2>1, <3>1, <3>3, Zenon
  <2>2. CASE kind = "configure" /\ D(f) = B(1)
    <3>1. PendingAt(B(1)) /\ Follows(C(f), B(1))
      BY <1>1, <1>2, <2>2
    <3> QED BY <1>4, <2>2, <3>1, Zenon
  <2> QED BY <1>3, <2>1, <2>2
<1>6. ASSUME NEW i \in 1 .. Len(queue'), queue'[i].kind = "configure"
      PROVE  /\ PendingNext(B(i + 1)) /\ queue'[i].setting.by = B(i + 1)
             /\ \A f \in Fans : Follows(D(f), B(i + 1))
             /\ \A j \in 1 .. i : queue'[j].kind = "configure" =>
                  Follows(queue'[j].setting.by, B(i + 1))
  <2> DEFINE k == i + 1
  <2>1. k \in 1 .. Len(queue) /\ queue'[i] = queue[k] /\ queue[k].kind = "configure" /\ 1 \in 1 .. k
    BY <1>2, <1>6
  <2>2. /\ PendingAt(B(k))
        /\ \A f \in Fans : Follows(C(f), B(k))
        /\ \A j \in 1 .. k : queue[j].kind = "configure" => Follows(B(j), B(k))
    BY <1>1, <2>1
  <2>3. PendingNext(B(k))
    BY <1>4, <2>2
  <2>4. ASSUME NEW f \in Fans PROVE Follows(D(f), B(k))
    <3>1. CASE D(f) = C(f)
      BY <2>2, <3>1
    <3>2. CASE kind = "configure" /\ D(f) = B(1)
      BY <1>2, <2>1, <2>2, <3>2
    <3> QED BY <1>3, <3>1, <3>2
  <2>5. ASSUME NEW j \in 1 .. i, queue'[j].kind = "configure"
        PROVE  Follows(queue'[j].setting.by, B(k))
    <3>1. j \in 1 .. Len(queue') /\ j + 1 \in 1 .. k
      BY <1>2
    <3>2. queue'[j] = queue[j + 1]
      BY <1>2, <3>1
    <3> QED BY <2>2, <2>5, <3>1, <3>2
  <2> QED BY <2>1, <2>3, <2>4, <2>5
<1>7. \A i \in 1 .. Len(queue') : queue'[i].kind = "configure" =>
        /\ PendingNext(queue'[i].setting.by)
        /\ \A f \in Fans : Follows(D(f), queue'[i].setting.by)
        /\ \A j \in 1 .. i : queue'[j].kind = "configure" =>
             Follows(queue'[j].setting.by, queue'[i].setting.by)
  BY <1>6
<1>8. /\ gestures' \in Nat
      /\ panel'.pending # <<>> => panel'.pending[1].at \in Nat /\ panel'.pending[1].at <= gestures'
      /\ page'.pending # <<>> => page'.pending[1].at \in Nat /\ page'.pending[1].at <= gestures'
  BY <1>1
<1> QED BY <1>5, <1>7, <1>8, OrderInvIs, Zenon

(* What has been saved before comes before every gesture.                  *)
LEMMA DiskOrders ==
  ASSUME DiskInv', session' = "editor", gestures' \in Nat
  PROVE  OrderInv'
<1>1. /\ \A f \in Fans : config'.fans[f].by = Disk
      /\ \A i \in 1 .. Len(queue') : queue'[i].kind = "configure" => queue'[i].setting.by = Disk
      /\ panel'.pending = <<>> /\ page'.pending = <<>>
  BY Zenon DEF DiskInv
<1>2. Follows(Disk, Disk)
  BY DEF Follows, Disk
<1>3. PendingNext(Disk)
  BY <1>1 DEF PendingNext, Disk
<1>4. \A i \in 1 .. Len(queue') : \A j \in 1 .. i : j \in 1 .. Len(queue')
  OBVIOUS
<1>5. \A i \in 1 .. Len(queue') : queue'[i].kind = "configure" =>
        /\ PendingNext(queue'[i].setting.by)
        /\ \A f \in Fans : Follows(config'.fans[f].by, queue'[i].setting.by)
        /\ \A j \in 1 .. i : queue'[j].kind = "configure" =>
             Follows(queue'[j].setting.by, queue'[i].setting.by)
  <2> SUFFICES ASSUME NEW i \in 1 .. Len(queue'), queue'[i].kind = "configure"
               PROVE  /\ PendingNext(queue'[i].setting.by)
                      /\ \A f \in Fans : Follows(config'.fans[f].by, queue'[i].setting.by)
                      /\ \A j \in 1 .. i : queue'[j].kind = "configure" =>
                           Follows(queue'[j].setting.by, queue'[i].setting.by)
    OBVIOUS
  <2>1. queue'[i].setting.by = Disk
    BY <1>1
  <2>2. \A j \in 1 .. i : queue'[j].kind = "configure" => queue'[j].setting.by = Disk
    BY <1>1, <1>4
  <2> QED BY <1>1, <1>2, <1>3, <2>1, <2>2
<1> QED BY <1>1, <1>3, <1>5, OrderInvIs

(* No step puts an earlier setting over a later one.                       *)
LEMMA OrderKept ==
  ASSUME SettingsInv, DiskInv, OrderInv,
         InterfaceStep \/ ((WorkerStep \/ Answer \/ Die) /\ Outside)
  PROVE  OrderInv' /\ \A f \in Fans : Follows(config.fans[f].by, config'.fans[f].by)
<1>1. /\ gestures \in Nat /\ \A f \in Fans : PendingAt(config.fans[f].by)
      /\ panel.pending # <<>> => panel.pending[1].at \in Nat /\ panel.pending[1].at <= gestures
      /\ page.pending # <<>> => page.pending[1].at \in Nat /\ page.pending[1].at <= gestures
  BY Zenon DEF OrderInv
<1>2. IsSeq(queue)
  BY Zenon DEF SettingsInv
<1>3. config' = config => \A f \in Fans : Follows(config.fans[f].by, config'.fans[f].by)
  <2>1. \A f \in Fans : config.fans[f].by[2] \in Nat
    BY <1>1, Zenon DEF PendingAt
  <2> QED BY <2>1 DEF Follows
<1>4. ASSUME config' = config, UNCHANGED <<panel, page>>, gestures' \in Nat, gestures <= gestures',
             NEW cs, Sent(cs), \A i \in 1 .. Len(cs) : cs[i].kind # "configure"
      PROVE  OrderInv'
  <2>1. Orders(cs, gestures', gestures')
    BY <1>1, <1>4, QuietOrders
  <2> DEFINE g == gestures'
  <2>2. Orders(cs, g, g)
    BY <2>1
  <2> HIDE DEF g
  <2> QED BY <1>2, <1>4, <2>2, OrderSent
<1>5. CASE DeskStep \/ RefreshStep
  <2>1. PICK cs : UserStep(cs) /\ \E p, q : Orders(cs, p, q)
    BY <1>5, Zenon DEF DeskStep, RefreshStep
  <2>2. PICK p, q : Orders(cs, p, q)
    BY <2>1
  <2>3. Sent(cs) /\ config' = config
    BY <2>1, Zenon DEF UserStep, worker
  <2>4. OrderInv'
    BY <1>2, <2>2, <2>3, OrderSent
  <2> QED BY <1>3, <2>3, <2>4
<1>6. CASE FormStep
  <2>1. PICK cs : UserStep(cs) /\ \A i \in 1 .. Len(cs) : cs[i].kind # "configure"
    BY <1>6, FormSends
  <2>2. Sent(cs) /\ config' = config
    BY <2>1, Zenon DEF UserStep, worker
  <2>3. panel' = panel /\ page' = page /\ gestures' = gestures + 1
    BY <1>6, Zenon DEF FormStep, desk
  <2>4. gestures' \in Nat /\ gestures <= gestures'
    BY <1>1, <2>3
  <2>5. OrderInv'
    BY <1>4, <2>1, <2>2, <2>3, <2>4
  <2> QED BY <1>3, <2>2, <2>5
<1>7. CASE EditorStep
  <2>1. config' = config /\ session' = "editor"
    BY <1>7, InterfaceKeeps, Zenon DEF InterfaceStep, EditorStep
  <2>2. gestures' \in Nat
    <3>1. gestures' \in {gestures, gestures + 1}
      BY <1>7, Zenon DEF EditorStep
    <3> QED BY <1>1, <3>1
  <2>3. DiskInv'
    BY DiskKept
  <2>4. OrderInv'
    BY <2>1, <2>2, <2>3, DiskOrders
  <2> QED BY <1>3, <2>1, <2>4
<1>8. Outside => panel' = panel /\ page' = page /\ gestures' = gestures
  BY Zenon DEF Outside, desk
<1>9. CASE Answer /\ Outside
  <2>1. PICK c : c.kind \in AnswerKinds /\ Sent(<<c>>) /\ config' = config
    BY <1>9, AnswerIs, Zenon DEF AnswerSent
  <2> DEFINE cs == <<c>>
  <2>2. Len(cs) = 1 /\ cs[1] = c /\ Sent(cs)
    BY <2>1, ShortSeq
  <2>3. c.kind # "configure"
    BY <2>1 DEF AnswerKinds
  <2> HIDE DEF cs
  <2>4. \A i \in 1 .. Len(cs) : cs[i].kind # "configure"
    BY <2>2, <2>3
  <2>5. OrderInv'
    BY <1>1, <1>4, <1>8, <1>9, <2>1, <2>2, <2>4
  <2> QED BY <1>3, <2>1, <2>5
<1>10. CASE Die /\ Outside
  <2>1. queue' = <<>> /\ config' = config
    BY <1>10, Zenon DEF Die
  <2>2. Len(queue') = 0
    BY <2>1, ShortSeq
  <2>3. \A f \in Fans : PendingNext(config'.fans[f].by)
    BY <1>1, <1>8, <1>10, <2>1, Zenon DEF PendingAt, PendingNext
  <2>4. \A i \in 1 .. Len(queue') : FALSE
    BY <2>2
  <2>5. OrderInv'
    BY <1>1, <1>8, <1>10, <2>3, <2>4, OrderInvIs
  <2> QED BY <1>3, <2>1, <2>5
<1>11. CASE TakesSetting /\ Outside
  <2>1. /\ Take("configure")
        /\ \A f \in Fans : config'.fans[f] = config.fans[f] \/ config'.fans[f] = queue[1].setting
    BY <1>11, Zenon DEF TakesSetting
  <2>2. \A f \in Fans : \/ config'.fans[f].by = config.fans[f].by
                        \/ config'.fans[f].by = queue[1].setting.by
    BY <2>1
  <2> QED BY <1>2, <1>8, <1>11, <2>1, <2>2, OrderTaken
<1>12. CASE TakesSmart /\ Outside
  <2>1. (Take("policy") \/ Take("tuning")) /\ config'.fans = config.fans
    BY <1>12, Zenon DEF TakesSmart
  <2>2. \A f \in Fans : config'.fans[f].by = config.fans[f].by
    BY <2>1
  <2> QED BY <1>2, <1>8, <1>12, <2>1, <2>2, OrderTaken
<1>13. CASE TakesOther /\ Outside
  <2>1. PICK kind \in OtherKinds :
          Take(kind) /\ \A f \in Fans : config'.fans[f].by = config.fans[f].by
    BY <1>13, Zenon DEF TakesOther
  <2> QED BY <1>2, <1>8, <1>13, <2>1, OrderTaken
<1>14. CASE Publishes /\ Outside
  <2>1. queue' = queue /\ config' = config
    BY <1>14, Zenon DEF Publishes
  <2> DEFINE cs == <<>>
  <2>2. Sent(cs) /\ Len(cs) = 0
    BY <2>1, ShortSeq, Zenon DEF Sent
  <2> HIDE DEF cs
  <2>3. \A i \in 1 .. Len(cs) : cs[i].kind # "configure"
    BY <2>2
  <2>4. OrderInv'
    BY <1>1, <1>4, <1>8, <1>14, <2>1, <2>2, <2>3
  <2> QED BY <1>3, <2>1, <2>4
<1>15. WorkerStep => TakesSetting \/ TakesSmart \/ TakesOther \/ Publishes
  BY WorkerSteps
<1> QED BY <1>5, <1>6, <1>7, <1>9, <1>10, <1>11, <1>12, <1>13, <1>14, <1>15, Zenon
        DEF InterfaceStep

-----------------------------------------------------------------------------
(* The invariant of the interface and the worker.                          *)

UiInv ==
  /\ SettingsInv /\ DiskInv /\ ServiceInv /\ SaveInv
  /\ FormInv /\ PreferInv /\ EditorInv /\ DeskInv /\ OrderInv

(* The invariant holds where a session starts.                             *)
LEMMA InitUiInv == UiInit => UiInv
<1> SUFFICES ASSUME UiInit PROVE UiInv
  OBVIOUS
<1>1. /\ session \in Sessions /\ gestures = 0
      /\ form = <<>> /\ save = <<>> /\ editor = <<>> /\ before = <<>>
      /\ panel = [pending |-> <<>>, enabled |-> FALSE, custom |-> FALSE, slider |-> DefaultPercent]
      /\ page = [pending |-> <<>>, enabled |-> FALSE, fixed |-> {},
                 slider |-> [f \in Fans |-> DefaultPercent]]
      /\ \E c \in Saved[session] : Start(c)
  BY Zenon DEF UiInit
<1>2. /\ alive = TRUE /\ config \in Saved[session] /\ installing = FALSE
      /\ found \in [discovered : BOOLEAN, machine : BOOLEAN, fans : BOOLEAN, unranged : Unranged]
      /\ queue = <<>> /\ reply = "none" /\ prompts = Nobody
      /\ published = [config |-> config, installing |-> installing, ready |-> ready,
                      owed |-> owed, found |-> found]
  BY <1>1, Zenon DEF Start
<1>3. /\ IsConfig(config) /\ Measured(config.calibration)
      /\ \A f \in Fans : config.fans[f].by = Disk
  BY <1>1, <1>2, SavedAssumption, Zenon DEF Disk
<1>4. IsSeq(queue) /\ Len(queue) = 0 /\ \A i \in 1 .. Len(queue) : FALSE
  <2>1. queue = <<>>
    BY <1>2
  <2>2. IsSeq(queue) /\ Len(queue) = 0
    BY <2>1, ShortSeq
  <2> QED BY <2>2
<1>5. /\ published.config = config /\ published.found = found
      /\ HasFields(published, {"config", "installing", "ready", "owed", "found"})
  BY <1>2 DEF HasFields
<1>6. panel.pending = <<>> /\ page.pending = <<>>
  BY <1>1
<1>7. SettingsInv
  BY <1>3, <1>4, <1>5, Zenon DEF SettingsInv
<1>8. DiskInv
  BY <1>3, <1>4, <1>5, <1>6, Zenon DEF DiskInv, Seen
<1>9. ServiceInv
  <2>1. HasFields(prompts, {"install", "uninstall"}) /\ Prompts(0, 0)
    BY <1>2 DEF Nobody, HasFields, Prompts
  <2> QED BY <1>2, <1>4, <2>1, Zenon DEF ServiceInv, NoAnswer
<1>10. SaveInv
  BY <1>1, <1>2, <1>4, Zenon DEF SaveInv, NoSmart
<1>11. FormInv
  BY <1>1, Zenon DEF FormInv
<1>12. PreferInv
  <2>1. HasFields(found, FoundFields)
    BY <1>2 DEF HasFields, FoundFields
  <2> QED BY <1>1, <1>4, <1>5, <2>1, Zenon DEF PreferInv, FoundFields
<1>13. EditorInv
  BY <1>1, Zenon DEF EditorInv, UndoRestores
<1>14. DeskInv
  <2>1. HasFields(panel, {"pending", "enabled", "custom", "slider"})
    BY <1>1 DEF HasFields
  <2> DEFINE d == DefaultPercent
  <2>2. page = [pending |-> <<>>, enabled |-> FALSE, fixed |-> {}, slider |-> [f \in Fans |-> d]]
    BY <1>1
  <2> HIDE DEF d
  <2>3. HasFields(page, {"pending", "enabled", "fixed", "slider"}) /\ page.fixed = {}
    BY <2>2 DEF HasFields
  <2>4. page.fixed \subseteq Fans
    BY <2>3
  <2> QED BY <1>6, <2>1, <2>3, <2>4, Zenon DEF DeskInv
<1>15. OrderInv
  <2>1. PendingAt(Disk)
    BY <1>1, <1>6 DEF PendingAt, Disk
  <2>2. gestures \in Nat
    BY <1>1
  <2> QED BY <1>3, <1>4, <1>6, <2>1, <2>2, Zenon DEF OrderInv
<1> QED BY <1>7, <1>8, <1>9, <1>10, <1>11, <1>12, <1>13, <1>14, <1>15, Zenon DEF UiInv

(* It stands while nothing happens.                                        *)
LEMMA UiInvStays == UiInv /\ UNCHANGED uiVars => UiInv'
<1> SUFFICES ASSUME UiInv, UNCHANGED uiVars PROVE UiInv'
  OBVIOUS
<1>0. /\ SettingsInv /\ DiskInv /\ ServiceInv /\ SaveInv
      /\ FormInv /\ PreferInv /\ EditorInv /\ DeskInv /\ OrderInv
  BY Zenon DEF UiInv
<1>1. UNCHANGED <<worker, channel, smart, curve, desk, session, gestures>>
  BY Zenon DEF uiVars
<1>2. /\ (alive' <=> alive) /\ config' = config /\ (installing' <=> installing) /\ found' = found
      /\ queue' = queue /\ reply' = reply /\ prompts' = prompts /\ published' = published
      /\ form' = form /\ save' = save /\ (touched' <=> touched)
      /\ editor' = editor /\ before' = before /\ panel' = panel /\ page' = page
      /\ session' = session /\ gestures' = gestures
  BY <1>1, Zenon DEF worker, channel, smart, curve, desk
<1>3. Outside
  BY <1>1, Zenon DEF Outside
<1>4. SettingsInv'
  BY <1>0, <1>2, Zenon DEF SettingsInv
<1>5. DiskInv'
  BY <1>0, <1>2, Zenon DEF DiskInv, Seen
<1>6. ServiceInv'
  BY <1>0, <1>2, Zenon DEF ServiceInv, Prompts, NoAnswer, OneAnswer, AllSystem
<1>7. SaveInv'
  BY <1>0, <1>2, Zenon DEF SaveInv, NoSmart, OneSmart, Answered
<1>8. PreferInv'
  BY <1>0, <1>2, Zenon DEF PreferInv
<1>9. FormInv' /\ EditorInv' /\ DeskInv'
  BY <1>0, <1>3, FormKept, EditorKept, DeskKept
<1>10. OrderInv'
  BY <1>0, <1>2, Zenon DEF OrderInv, PendingAt
<1> QED BY <1>4, <1>5, <1>6, <1>7, <1>8, <1>9, <1>10, Zenon DEF UiInv

(* No step of the user, the timer, the worker or a thread breaks it.       *)
LEMMA UiInvKept == UiInv /\ [UiNext]_uiVars => UiInv'
<1> SUFFICES ASSUME UiInv, UiNext PROVE UiInv'
  BY UiInvStays, Zenon
<1>0. /\ SettingsInv /\ DiskInv /\ ServiceInv /\ SaveInv
      /\ FormInv /\ PreferInv /\ EditorInv /\ DeskInv /\ OrderInv
  BY Zenon DEF UiInv
<1>1. InterfaceStep \/ ((WorkerStep \/ Answer \/ Die) /\ Outside)
  BY <1>0, UiSteps
<1>2. SettingsInv'
  BY <1>0, <1>1, SettingsKept
<1>3. DiskInv'
  BY <1>0, <1>1, DiskKept
<1>4. ServiceInv'
  BY <1>0, <1>1, ServiceKept
<1>5. SaveInv'
  BY <1>0, <1>1, SaveKept
<1>6. FormInv'
  BY <1>0, <1>1, FormKept
<1>7. PreferInv'
  BY <1>0, <1>1, PreferKept
<1>8. EditorInv'
  BY <1>0, <1>1, EditorKept
<1>9. DeskInv'
  BY <1>0, <1>1, DeskKept
<1>10. OrderInv'
  BY <1>0, <1>1, OrderKept
<1> QED BY <1>2, <1>3, <1>4, <1>5, <1>6, <1>7, <1>8, <1>9, <1>10, Zenon DEF UiInv

(* It always holds.                                                        *)
LEMMA UiInvHolds == UiSpec => []UiInv
<1> QED BY InitUiInv, UiInvKept, PTL DEF UiSpec

(* The control service is changed by one hand at a time: of the threads    *)
(* that wait for an administrator and the answers in the channel there is  *)
(* exactly one where the worker is `installing`, and none otherwise; and   *)
(* while a removal is on its way no fan is in a custom mode.               *)
LEMMA OneHand ==
  ASSUME SettingsInv, ServiceInv
  PROVE  ServiceChangesAlone
<1> DEFINE Where(kind) == { i \in DOMAIN queue : queue[i].kind = kind }
<1>1. \A kind : Count(kind) = Cardinality(Where(kind))
  BY DEF Count
<1>2. DOMAIN queue = 1 .. Len(queue)
  BY SeqIs, Zenon DEF SettingsInv
<1>3. Cardinality({}) = 0 /\ \A i : Cardinality({i}) = 1
  BY FS_EmptySet, FS_Singleton
<1>4. ASSUME NoAnswer PROVE Count("installed") = 0 /\ Count("uninstalled") = 0
  <2>1. Where("installed") = {} /\ Where("uninstalled") = {}
    BY <1>2, <1>4 DEF NoAnswer, AnswerKinds
  <2> QED BY <1>1, <1>3, <2>1
<1>5. ASSUME OneAnswer
      PROVE  \/ Count("installed") = 1 /\ Count("uninstalled") = 0
             \/ Count("installed") = 0 /\ Count("uninstalled") = 1 /\ AllSystem
  <2>1. PICK i \in 1 .. Len(queue) :
          /\ queue[i].kind \in AnswerKinds /\ (queue[i].kind = "uninstalled" => AllSystem)
          /\ \A j \in 1 .. Len(queue) : queue[j].kind \in AnswerKinds => j = i
    BY <1>5, Zenon DEF OneAnswer
  <2>2. CASE queue[i].kind = "installed"
    <3>1. Where("installed") = {i} /\ Where("uninstalled") = {}
      BY <1>2, <2>1, <2>2 DEF AnswerKinds
    <3> QED BY <1>1, <1>3, <3>1
  <2>3. CASE queue[i].kind = "uninstalled"
    <3>1. Where("installed") = {} /\ Where("uninstalled") = {i}
      BY <1>2, <2>1, <2>3 DEF AnswerKinds
    <3> QED BY <1>1, <1>3, <2>1, <2>3, <3>1
  <2> QED BY <2>1, <2>2, <2>3 DEF AnswerKinds
<1> DEFINE a == Count("installed")  r == Count("uninstalled")
<1>6. NoAnswer => a = 0 /\ r = 0
  BY <1>4
<1>7. OneAnswer => (a = 1 /\ r = 0) \/ (a = 0 /\ r = 1 /\ AllSystem)
  BY <1>5
<1> HIDE DEF a, r
<1>8. alive => /\ ~installing => Prompts(0, 0) /\ NoAnswer
               /\ installing => \/ Prompts(1, 0) /\ NoAnswer
                                \/ Prompts(0, 1) /\ NoAnswer /\ AllSystem
                                \/ Prompts(0, 0) /\ OneAnswer
  BY Zenon DEF ServiceInv
<1> DEFINE x == prompts.install  y == prompts.uninstall
<1>9. \A i, u : Prompts(i, u) <=> x = i /\ y = u
  BY DEF Prompts
<1> HIDE DEF x, y
<1>10. ASSUME alive, installing
       PROVE  x + y + a + r = 1 /\ (y + r > 0 => AllSystem)
  <2>1. CASE Prompts(1, 0) /\ NoAnswer
    BY <1>6, <1>9, <2>1
  <2>2. CASE Prompts(0, 1) /\ NoAnswer /\ AllSystem
    BY <1>6, <1>9, <2>2
  <2>3. CASE Prompts(0, 0) /\ OneAnswer
    <3>1. x = 0 /\ y = 0 /\ ((a = 1 /\ r = 0) \/ (a = 0 /\ r = 1 /\ AllSystem))
      BY <1>7, <1>9, <2>3
    <3> QED BY <3>1
  <2> QED BY <1>8, <1>10, <2>1, <2>2, <2>3
<1>11. ASSUME alive, ~installing
       PROVE  x + y + a + r = 0 /\ ~(y + r > 0)
  <2>1. x = 0 /\ y = 0 /\ a = 0 /\ r = 0
    BY <1>6, <1>8, <1>9, <1>11
  <2> QED BY <2>1
<1>12. OneAuthorisation
  <2>1. alive => x + y + a + r = IF installing THEN 1 ELSE 0
    BY <1>10, <1>11
  <2> QED BY <2>1, Zenon DEF OneAuthorisation, a, r, x, y
<1>13. RemovalIsClean
  <2>1. alive /\ y + r > 0 => AllSystem
    BY <1>10, <1>11
  <2> QED BY <2>1, Zenon DEF RemovalIsClean, AllSystem, r, y
<1> QED BY <1>12, <1>13, Zenon DEF ServiceChangesAlone

(* Whatever was pressed on the panel, in the settings and on a notice, and *)
(* however often, one administrator at a time is asked to install or to    *)
(* remove the helper, and a removal finds every fan back under the system. *)
THEOREM ServiceIsChangedAlone == UiSpec => []ServiceChangesAlone
<1>1. UiInv => ServiceChangesAlone
  BY OneHand, Zenon DEF UiInv
<1> QED BY <1>1, UiInvHolds, PTL

(* A save that was acknowledged is in the snapshot the form is rebuilt     *)
(* from: the worker publishes before it answers.                           *)
THEOREM ConfirmedSaveIsPublished == UiSpec => []ConfirmedIsPublished
<1>1. UiInv => ConfirmedIsPublished
  <2> SUFFICES ASSUME SaveInv PROVE ConfirmedIsPublished
    BY Zenon DEF UiInv
  <2>1. save # <<>> => IsSave(save[1]) /\ (reply = "ok" => Holds(published.config, save[1].asked))
    BY Zenon DEF SaveInv
  <2>2. save # <<>> => (save[1].by = "form" => save[1].asked.kind = "policy")
    BY <2>1 DEF IsSave
  <2> QED BY <2>1, <2>2, Zenon DEF ConfirmedIsPublished, Holds
<1> QED BY <1>1, UiInvHolds, PTL

(* Every calibration on its way to the worker was measured on the sensor   *)
(* it names, and every curve is valid in the unit of its source.           *)
THEOREM CommandsMeanWhatIsShown == UiSpec => []SentIsMeant
<1>1. UiInv => SentIsMeant
  <2> SUFFICES ASSUME SettingsInv PROVE SentIsMeant
    BY Zenon DEF UiInv
  <2>1. \A i \in 1 .. Len(queue) : IsCommand(queue[i])
    BY Zenon DEF SettingsInv
  <2>2. DOMAIN queue = 1 .. Len(queue)
    BY SeqIs, Zenon DEF SettingsInv
  <2>3. CalibrationIsMeasured
    BY <2>1, <2>2, Zenon DEF CalibrationIsMeasured, IsCommand
  <2>4. SavedCurvesHold
    <3> SUFFICES ASSUME NEW i \in 1 .. Len(queue), queue[i].kind = "configure",
                        queue[i].setting.curve # <<>>
                 PROVE  /\ ValidCurve(queue[i].setting.curve[1])
                        /\ queue[i].setting.curve[1].unit = Unit(queue[i].setting.curve[1].key)
      BY <2>2, Zenon DEF SavedCurvesHold
    <3>1. IsSaved(queue[i].setting)
      BY <2>1, Zenon DEF IsCommand
    <3> QED BY <3>1, Zenon DEF IsSaved, IsSetting, IsCurve
  <2> QED BY <2>3, <2>4, Zenon DEF SentIsMeant
<1> QED BY <1>1, UiInvHolds, PTL

(* The top of the editor's undo stack is what its window showed when it    *)
(* was recorded, after any sequence of edits and with the stack full.      *)
THEOREM UndoGoesBack == UiSpec => []UndoRestores
<1>1. UiInv => UndoRestores
  BY Zenon DEF UiInv, EditorInv
<1> QED BY <1>1, UiInvHolds, PTL

(* No setting in force is replaced by one the user asked for earlier on    *)
(* the same surface, whatever sliders were pending when it was chosen.     *)
THEOREM LastWordIsKept == UiSpec => LastWordStands
<1> DEFINE Kept == \A f \in Fans : LET old == config.fans[f].by new == config'.fans[f].by
                                   IN old[1] = new[1] => old[2] <= new[2]
<1>1. UiInv /\ [UiNext]_uiVars => Kept \/ UNCHANGED uiVars
  <2> SUFFICES ASSUME UiInv, UiNext PROVE Kept
    OBVIOUS
  <2>1. /\ SettingsInv /\ DiskInv /\ EditorInv /\ FormInv /\ DeskInv /\ OrderInv
    BY Zenon DEF UiInv
  <2>2. InterfaceStep \/ ((WorkerStep \/ Answer \/ Die) /\ Outside)
    BY <2>1, UiSteps
  <2>3. \A f \in Fans : Follows(config.fans[f].by, config'.fans[f].by)
    BY <2>1, <2>2, OrderKept
  <2> QED BY <2>3, Zenon DEF Follows
<1>2. UiInv /\ [UiNext]_uiVars => [Kept]_uiVars
  BY <1>1
<1> QED BY <1>2, UiInvHolds, PTL DEF UiSpec, LastWordStands

(* The panel's save leaves a draft that shows anything but the value it    *)
(* replaces.                                                               *)
LEMMA DraftStays ==
  ASSUME SettingsInv, SaveInv, FormInv, form # <<>>, form' # <<>>,
         save # <<>>, save' = <<>>, save[1].by = "panel", form[1].bias # save[1].previous,
         InterfaceStep \/ Outside
  PROVE  form'[1].bias = form[1].bias
<1>1. CASE smart' = smart
  BY <1>1 DEF smart
<1>2. CASE FormStep
  <2>1. save' = save \/ \E by, c : Asked(by, c)
    BY <1>2, Zenon DEF FormStep
  <2>2. save' # <<>>
    BY <2>1 DEF Asked
  <2> QED BY <2>2
<1>3. CASE RefreshStep
  <2>1. smart' = smart \/ (session \in FormSessions /\ RefreshSmart)
    BY <1>3, Zenon DEF RefreshStep
  <2>2. ASSUME session \in FormSessions, RefreshSmart PROVE form'[1].bias = form[1].bias
    <3>1. session' = session
      BY <1>3, InterfaceKeeps, Zenon DEF InterfaceStep
    <3>2. form'[1].bias = PolledBias
      BY <2>2, <3>1, SmartRefreshed
    <3>3. save[1].by # "form"
      OBVIOUS
    <3>4. reply # "ok" => PolledBias = form[1].bias
      BY Zenon DEF PolledBias
    <3>5. reply = "ok" => PolledBias = form[1].bias
      BY Zenon DEF PolledBias
    <3> QED BY <3>2, <3>4, <3>5
  <2> QED BY <1>1, <2>1, <2>2
<1> QED BY <1>1, <1>2, <1>3, Zenon DEF InterfaceStep, DeskStep, EditorStep, Outside

(* Where no save is on its way a draft the user has not touched is what is *)
(* in force, and the panel's save replaces no draft the user has moved.    *)
THEOREM PreferencesStayInStep == UiSpec => PreferencesAgree
<1> DEFINE Agree ==
      form # <<>> /\ form' # <<>> =>
        /\ ~touched' /\ save' = <<>> /\ alive' => form'[1].bias = config'.bias
        /\ (save # <<>> /\ save' = <<>> /\ save[1].by = "panel"
            /\ form[1].bias # save[1].previous) => form'[1].bias = form[1].bias
<1>1. UiInv /\ UiInv' /\ [UiNext]_uiVars => Agree \/ UNCHANGED uiVars
  <2> SUFFICES ASSUME UiInv, UiInv', UiNext, form # <<>>, form' # <<>>
               PROVE  Agree
    BY Zenon
  <2>1. /\ SettingsInv /\ DiskInv /\ EditorInv /\ FormInv /\ DeskInv /\ OrderInv
        /\ SaveInv /\ SaveInv' /\ PreferInv'
    BY Zenon DEF UiInv
  <2>2. InterfaceStep \/ ((WorkerStep \/ Answer \/ Die) /\ Outside)
    BY <2>1, UiSteps
  <2>3. ASSUME ~touched', save' = <<>> PROVE form'[1].bias = config'.bias
    <3>1. reply' = "none"
      BY <2>1, <2>3, Zenon DEF SaveInv
    <3>2. CASE session' = "preference"
      <4>1. PreferDraft'
        BY <2>1, <3>2, PreferIsNext
      <4> QED BY <2>3, <3>1, <4>1, Zenon DEF PreferDraft
    <3>3. CASE session' # "preference"
      <4>1. OtherDraft'
        BY <2>1, <3>3, PreferIsNext
      <4> QED BY <4>1, Zenon DEF OtherDraft
    <3> QED BY <3>2, <3>3
  <2>4. ASSUME save # <<>>, save' = <<>>, save[1].by = "panel", form[1].bias # save[1].previous
        PROVE  form'[1].bias = form[1].bias
    BY <2>1, <2>2, <2>4, DraftStays
  <2> QED BY <2>3, <2>4, Zenon
<1>2. UiInv /\ UiInv' /\ [UiNext]_uiVars => [Agree]_uiVars
  BY <1>1
<1> QED BY <1>2, UiInvHolds, PTL DEF UiSpec, PreferencesAgree

-----------------------------------------------------------------------------
(* The installer, for every set of versions: the installed helper is       *)
(* whole, only a helper of this app's version is commanded, and removal    *)
(* leaves no fan in forced mode.  One inductive invariant serves the three.*)


(* A job is at a step, and only this app removes a helper.                 *)
JobOK ==
  /\ job = None <=> step = None
  /\ job = "uninstall" => bundle = Current

(* A connection leads to the daemon that runs, and is used for commands    *)
(* only if that is of the right version.                                   *)
ConnectionOK ==
  /\ reached # None => reached = daemon
  /\ call = None => reached = None
  /\ call \in {"accepted", "late"} => reached \in {Current, None}

(* From the end of the wait to the bootstrap there is no service.          *)
StoppedSteps == {"clear", "tool", "plist", "bootstrap",
                 "unlist", "delete", "unlink", "rmdir", "confirm"}
StoppedOK == step \in StoppedSteps => service = "absent"

(* What is moved to TOOL_PATH has been verified; the plist comes after the *)
(* executable, and goes before it.                                         *)
FilesOK ==
  /\ AtStep("install", "verify") => staged \in Versions \cup {Damaged}
  /\ AtStep("install", "stop") \/ AtStep("install", "wait")
       \/ AtStep("install", "clear") \/ AtStep("install", "tool") => staged \in Versions
  /\ AtStep("install", "plist") => tool \in Versions
  /\ AtStep("uninstall", "delete") => ~plist

(* During a removal the app sends nothing new, and after the confirmed     *)
(* reset nothing it sent before is left to be executed.                    *)
RemovalOK ==
  job = "uninstall" =>
    /\ call \in {None, "late"}
    /\ step \notin {"look", "reset"} => ~forced /\ reached = None

IInv ==
  /\ TypeOK
  /\ HelperIsWhole /\ OnlyCompatibleIsCommanded /\ RemovedIsHandedBack
  /\ JobOK /\ ConnectionOK /\ StoppedOK /\ FilesOK /\ RemovalOK

-----------------------------------------------------------------------------

(* The invariant holds initially.                                          *)
LEMMA InitIInv == Init => IInv
<1> SUFFICES ASSUME Init PROVE IInv
  OBVIOUS
<1>1. plist \in BOOLEAN /\ (plist => tool # None) /\ runtime \in BOOLEAN
  BY Zenon DEF Init
<1>2. forced \in BOOLEAN /\ ~forced
  BY Zenon DEF Init
<1>3. /\ tool \in Versions \cup {None} /\ staged = None /\ sockets = {}
      /\ service \in {"loaded", "absent"} /\ daemon = None
      /\ job = None /\ bundle = Current /\ step = None /\ left = 0 /\ verdict = None
      /\ call = None /\ reached = None /\ obeyed = {}
  BY DEF Init
<1> QED
  BY <1>1, <1>2, <1>3, VersionsAssumption, AttemptsAssumption
  DEF IInv, TypeOK, HelperIsWhole, RunsWhatIsInstalled, ServiceIsRunnable,
      OnlyCompatibleIsCommanded, RemovedIsHandedBack, JobOK, ConnectionOK, StoppedOK,
      StoppedSteps, FilesOK, RemovalOK, AtStep, Steps, None, Damaged

(* A daemon that starts or ends, and a restart of the machine, may hand the *)
(* fans back, and force none.                                              *)
LEMMA FansFall ==
  ASSUME forced \in BOOLEAN, StartDaemon \/ ExitDaemon \/ Restart
  PROVE  forced' \in BOOLEAN /\ (forced' => forced)
<1>1. forced' \in {forced, FALSE}
  <2>1. CASE StartDaemon
    BY <2>1, Zenon DEF StartDaemon
  <2>2. CASE ExitDaemon
    BY <2>2, Zenon DEF ExitDaemon
  <2>3. CASE Restart
    BY <2>3, Zenon DEF Restart
  <2> QED
    BY <2>1, <2>2, <2>3
<1>2. CASE forced' = forced
  BY <1>2
<1>3. CASE forced' = FALSE
  BY <1>3, Zenon
<1> QED
  BY <1>1, <1>2, <1>3

(* No step of a daemon, the app, a script or the machine breaks it.        *)
LEMMA NextIInv == IInv /\ [Next]_vars => IInv'
<1> SUFFICES ASSUME IInv, [Next]_vars PROVE IInv'
  OBVIOUS
<1> USE VersionsAssumption, AttemptsAssumption
    DEF IInv, TypeOK, HelperIsWhole, RunsWhatIsInstalled, ServiceIsRunnable,
        OnlyCompatibleIsCommanded, RemovedIsHandedBack, JobOK, ConnectionOK, StoppedOK,
        StoppedSteps, FilesOK, RemovalOK, AtStep, Steps, None, Damaged,
        disk, system, run, client
<1>1. CASE StartDaemon
  <2>1. forced' \in BOOLEAN /\ (forced' => forced)
    BY <1>1, FansFall
  <2>2. sockets' \subseteq {"secure", "legacy"}
    BY <1>1 DEF StartDaemon, Endpoint
  <2>3. /\ service = "loaded" /\ daemon = None /\ tool # None /\ daemon' \in {daemon, tool}
        /\ UNCHANGED <<tool, staged, plist, runtime, service, run, client>>
    BY <1>1, Zenon DEF StartDaemon
  <2> QED
    BY <2>1, <2>2, <2>3
<1>2. CASE ExitDaemon
  <2>1. forced' \in BOOLEAN /\ (forced' => forced)
    BY <1>2, FansFall
  <2>2. /\ sockets' \subseteq sockets /\ Gone
        /\ UNCHANGED <<tool, staged, plist, runtime, service, run>>
    BY <1>2 DEF ExitDaemon, Gone
  <2> QED
    BY <2>1, <2>2 DEF Gone
<1>3. CASE KillDaemon
  BY <1>3 DEF KillDaemon, Gone
<1>4. CASE ForgetService
  BY <1>4 DEF ForgetService
<1>5. CASE Expire
  <2>1. forced' \in BOOLEAN /\ ~forced'
    BY <1>5, Zenon DEF Expire
  <2>2. UNCHANGED <<disk, service, daemon, run, client>>
    BY <1>5, Zenon DEF Expire
  <2> QED
    BY <2>1, <2>2
<1>6. CASE Restart
  <2>1. forced' \in BOOLEAN /\ (forced' => forced)
    BY <1>6, FansFall
  <2>2. /\ service' \in {"loaded", "absent"} /\ daemon' = None
        /\ sockets' \subseteq sockets
        /\ job' = None /\ step' = None /\ left' = 0 /\ verdict' = None /\ bundle' = Current
        /\ call' = None /\ reached' = None
        /\ UNCHANGED <<tool, staged, plist, runtime, obeyed>>
    BY <1>6 DEF Restart
  <2> QED
    BY <2>1, <2>2
<1>7. CASE Connect
  BY <1>7 DEF Connect, Answers
<1>8. CASE Negotiate
  BY <1>8 DEF Negotiate, HangUp
<1>9. CASE Command
  BY <1>9 DEF Command, HangUp
<1>10. CASE GiveUp
  BY <1>10 DEF GiveUp, HangUp
<1>11. CASE StopService
  BY <1>11 DEF StopService
<1>12. CASE Wait
  BY <1>12 DEF Wait, Goto, End
<1>13. CASE Directories
  BY <1>13 DEF Directories, Goto
<1>14. CASE Stage
  BY <1>14 DEF Stage, Goto
<1>15. CASE Verify
  BY <1>15 DEF Verify, Proceed, Goto, End
<1>16. CASE ClearSockets
  BY <1>16 DEF ClearSockets, Goto
<1>17. CASE ReplaceTool
  BY <1>17 DEF ReplaceTool, Goto
<1>18. CASE ReplacePlist
  BY <1>18 DEF ReplacePlist, Goto
<1>19. CASE Bootstrap
  BY <1>19 DEF Bootstrap
<1>20. CASE Poll
  BY <1>20 DEF Poll, End, Compatible, Answers
<1>21. CASE Look
  BY <1>21 DEF Look, Goto, End, Absent
<1>22. CASE ResetFirst
  <2> DEFINE confirmed == Compatible(Current) /\ (call = "late" => reached = None)
  <2>1. /\ AtStep("uninstall", "reset")
        /\ Proceed(confirmed, "authorize")
        /\ UNCHANGED <<disk, service, daemon, client>>
    BY <1>22, Zenon DEF ResetFirst
  <2>2. forced' \in BOOLEAN /\ (forced' => forced) /\ (confirmed => ~forced')
    BY <1>22, Zenon DEF ResetFirst
  <2> HIDE DEF confirmed
  <2>3. CASE confirmed
    <3>1. call = "late" => reached = None
      BY <2>3, Zenon DEF confirmed
    <3> QED
      BY <2>1, <2>2, <2>3, <3>1 DEF Proceed, Goto
  <2>4. CASE ~confirmed
    BY <2>1, <2>2, <2>4 DEF Proceed, End
  <2> QED
    BY <2>3, <2>4
<1>23. CASE Inspect
  BY <1>23 DEF Inspect, Goto
<1>24. CASE ClearLegacy
  BY <1>24 DEF ClearLegacy, Goto
<1>25. CASE RemovePlist
  BY <1>25 DEF RemovePlist, Goto
<1>26. CASE RemoveTool
  BY <1>26 DEF RemoveTool, Goto
<1>27. CASE RemoveSocket
  BY <1>27 DEF RemoveSocket, Goto
<1>28. CASE RemoveRuntime
  BY <1>28 DEF RemoveRuntime, Proceed, Goto, End
<1>29. CASE Confirm
  BY <1>29 DEF Confirm, End, Absent
<1>30. CASE Authorize
  BY <1>30 DEF Authorize, Goto
<1>31. CASE Fail
  BY <1>31 DEF Fail, End
<1>32. ASSUME NEW v \in Versions \ Legacy, Install(v) PROVE IInv'
  BY <1>32 DEF Install
<1>33. CASE Uninstall
  BY <1>33 DEF Uninstall
<1>34. CASE UNCHANGED vars
  BY <1>34 DEF vars
<1> QED
  BY <1>1, <1>2, <1>3, <1>4, <1>5, <1>6, <1>7, <1>8, <1>9, <1>10, <1>11,
     <1>12, <1>13, <1>14, <1>15, <1>16, <1>17, <1>18, <1>19, <1>20, <1>21,
     <1>22, <1>23, <1>24, <1>25, <1>26, <1>27, <1>28, <1>29, <1>30, <1>31,
     <1>32, <1>33, <1>34
  DEF Next, System, Client, Script

(* The three properties follow from the invariant.                         *)
THEOREM Invariance == Safety => []IInv
<1> QED
  BY InitIInv, NextIInv, PTL DEF Safety

(* A running helper is the one that is installed, and launchd never finds  *)
(* a service whose executable is missing or damaged, whatever is           *)
(* interrupted.                                                            *)
THEOREM HelperStaysWhole == Safety => []HelperIsWhole
<1>1. IInv => HelperIsWhole
  BY DEF IInv
<1> QED
  BY <1>1, Invariance, PTL

(* No helper of another version executes a command of this app.            *)
THEOREM OthersAreNotCommanded == Safety => []OnlyCompatibleIsCommanded
<1>1. IInv => OnlyCompatibleIsCommanded
  BY DEF IInv
<1> QED
  BY <1>1, Invariance, PTL

(* Without a helper there is no fan it would have to hand back.            *)
THEOREM RemovalHandsBack == Safety => []RemovedIsHandedBack
<1>1. IInv => RemovedIsHandedBack
  BY DEF IInv
<1> QED
  BY <1>1, Invariance, PTL
=============================================================================
