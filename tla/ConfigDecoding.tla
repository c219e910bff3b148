--------------------------- MODULE ConfigDecoding ---------------------------
(***************************************************************************)
(* What is made of a stored configuration (Config::from_json in            *)
(* crates/fan-core/src/config.rs): of the file of this app, of version 1   *)
(* or 2, and of that of the earlier Swift app.  The file is edited by      *)
(* hand and by other programs, and what is decoded drives fans at the next *)
(* start, so parts that are damaged are repaired one by one: never so that *)
(* a fan is driven that was not, and never at the cost of other parts.     *)
(* ConfigStore models what is done with the result.                        *)
(*                                                                         *)
(* A document is an array (of the Swift app), an object or neither.        *)
(* Whatever is written in a place is a string: "absent", "broken" where    *)
(* the type does not decode it, or a class of values.                      *)
(***************************************************************************)
EXTENDS Naturals, Sequences

CONSTANT Names   \* of curves

ASSUME NamesAssumption == {"", "-"} \cap Names = {}

MaxFans == 10

SystemMode == [is |-> "automatic", arg |-> "-"]
NoCurve    == [id |-> "-", points |-> "none"]

Modes ==
  [is : {"automatic", "adaptive", "absent", "broken"}, arg : {"-"}]
    \cup [is : {"manual"}, arg : {"zero", "spins", "tooFast", "tooLarge"}]
    \cup [is : {"curve"}, arg : {""} \cup Names]

(* A curve; "legacy" is the default of the Swift app, point by point.      *)
Curves ==
  {NoCurve}
    \cup [id : {""} \cup Names, points : {"own", "legacy", "balanced", "invalid", "broken"}]

Documents ==
  [shape   : {"array", "object", "neither"},
   length  : {"fits", "tooLong"},
   version : 1 .. 3,
   tuning  : {"absent", "default", "own", "invalid", "broken"},
   policy  : {"absent", "default", "own", "invalid", "broken"},
   fans    : Seq([id : 0 .. 300, mode : Modes, curve : Curves])]

-----------------------------------------------------------------------------
(* Validity.                                                               *)

(* Curve::validate. *)
ValidCurve(curve) == curve.id \in Names /\ curve.points \in {"own", "legacy", "balanced"}

(* FanConfig::validate. *)
ValidFan(fan) ==
  /\ fan.id <= 9
  /\ fan.curve = NoCurve \/ ValidCurve(fan.curve)
  /\ fan.mode.is = "manual" => fan.mode.arg = "spins"
  /\ fan.mode.is = "curve" => fan.curve # NoCurve /\ fan.curve.id = fan.mode.arg

(* The ids of a configuration are few and differ.                          *)
Numbered(fans) ==
  /\ Len(fans) <= MaxFans
  /\ \A i, j \in DOMAIN fans : fans[i].id = fans[j].id => i = j

(* Config::validate. *)
Valid(config) ==
  /\ config.tuning # "invalid" /\ config.policy # "invalid"
  /\ Numbered(config.fans) /\ \A i \in DOMAIN config.fans : ValidFan(config.fans[i])

-----------------------------------------------------------------------------
(* Decoding.                                                               *)

(* The Codable enums of Swift: what is neither a speed nor a curve becomes *)
(* automatic, with a warning.                                              *)
LegacyMode(mode) ==
  IF mode.is = "curve" \/ (mode.is = "manual" /\ mode.arg # "tooLarge") THEN mode
  ELSE SystemMode

LegacyFan(fan) == [fan EXCEPT !.mode = LegacyMode(fan.mode)]

LegacyFails(fan) == fan.id > 9 \/ fan.curve.points = "broken"

(* What serde makes of a fan.                                              *)
CurrentFan(fan) == [fan EXCEPT !.mode = IF fan.mode.is = "absent" THEN SystemMode ELSE fan.mode]

CurrentFails(fan) ==
  \/ fan.id > 255 \/ fan.mode.is = "broken" \/ fan.curve.points = "broken"
  \/ fan.mode.is = "manual" /\ fan.mode.arg = "tooLarge"

(* migrate_legacy_default: the curve keeps its id.                         *)
Migrated(curve) ==
  IF curve.points = "legacy" THEN [curve EXCEPT !.points = "balanced"] ELSE curve

(* The last loop of from_json, over a fan with its curve migrated.         *)
Restored(fan) ==
  IF ValidFan(fan) THEN fan
  ELSE [fan EXCEPT !.mode  = SystemMode,
                   !.curve = IF ValidCurve(fan.curve) THEN fan.curve ELSE NoCurve]

Repaired(fan) == Restored([fan EXCEPT !.curve = Migrated(fan.curve)])

(* The surface calibrations and the preferences: their damage costs them   *)
(* alone.                                                                  *)
Decodes(doc) ==
  /\ doc.length = "fits"
  /\ \/ doc.shape = "array"  /\ \A i \in DOMAIN doc.fans : ~LegacyFails(doc.fans[i])
     \/ doc.shape = "object" /\ \A i \in DOMAIN doc.fans : ~CurrentFails(doc.fans[i])
                             /\ doc.version \in 1 .. 2 /\ doc.policy # "broken"

FansRead(doc) == [i \in DOMAIN doc.fans |->
  IF doc.shape = "array" THEN LegacyFan(doc.fans[i]) ELSE CurrentFan(doc.fans[i])]

OrDefault(doc, part) ==
  IF doc.shape = "array" \/ part \in {"absent", "invalid", "broken"} THEN "default" ELSE part

Config(doc) ==
  [fans   |-> [i \in DOMAIN doc.fans |-> Repaired(FansRead(doc)[i])],
   tuning |-> OrDefault(doc, doc.tuning), policy |-> OrDefault(doc, doc.policy)]

Accepted(doc) == Decodes(doc) /\ Valid(Config(doc))

(* ConfigLoad::migrated: something of the file is not kept as it is, so    *)
(* that it is rewritten.                                                   *)
IsMigrated(doc) ==
  \/ doc.shape = "array" \/ doc.version = 1
  \/ doc.tuning \in {"invalid", "broken"} \/ doc.policy = "invalid"
  \/ \E i \in DOMAIN doc.fans : Repaired(FansRead(doc)[i]) # FansRead(doc)[i]

(* to_json, of a valid configuration.                                      *)
Encoded(config) ==
  [shape |-> "object", length |-> "fits", version |-> 2,
   tuning |-> config.tuning, policy |-> config.policy, fans |-> config.fans]
=============================================================================
