----------------------------- MODULE SmcValues -----------------------------
(***************************************************************************)
(* The values of SMC registers (KeyValue and validated_rpm in              *)
(* crates/fan-platform/src/smc.rs): how bytes are read as a number, how a  *)
(* target is limited to what the fan reports of itself, and how it is      *)
(* written.  Smc relies on it where it says that a target that was written *)
(* lies within the live bounds.                                            *)
(*                                                                         *)
(* Numbers are counted in 256ths of a unit: the resolution of sp78, finer  *)
(* than that of fpe2.  A float is taken to hold such a number exactly; the *)
(* targets it is given are whole and below 2^24, which an f32 does.        *)
(***************************************************************************)
EXTENDS Integers

(* A KeyValue: kind and shift are its type ("fp" with shift 2 is fpe2,     *)
(* "sp" with 8 is sp78), width the bytes the type needs, size those it has,*)
(* raw the integer in them, of a float the number itself.                  *)
Kinds == {"ui", "flt", "fp", "sp", "unknown"}

Unit       == 256
MaximumRpm == 16383

Fails == [ok |-> FALSE, value |-> 0]
Is(x) == [ok |-> TRUE, value |-> x]

(* Of a shift. *)
Scale == [s \in 0 .. 8 |-> CASE s = 0 -> 256 [] s = 1 -> 128 [] s = 2 -> 64 [] s = 3 -> 32
                             [] s = 4 -> 16 [] s = 5 -> 8 [] s = 6 -> 4 [] s = 7 -> 2 [] s = 8 -> 1]

Signed(raw) == IF raw < 32768 THEN raw ELSE raw - 65536

(* KeyValue::numeric: an integer counts units, a float any number, and the *)
(* fixed point types, signed (sp) or not (fp), the fractions of their      *)
(* shift, up to 8 of its 15.                                               *)
Factor(v) == IF v.kind = "flt" THEN 1 ELSE IF v.kind = "ui" THEN Unit ELSE Scale[v.shift]

Numeric(v) ==
  IF v.size \notin 1 .. 32 \/ v.size < v.width \/ v.kind = "unknown" THEN Fails
  ELSE Is((IF v.kind = "sp" THEN Signed(v.raw) ELSE v.raw) * Factor(v))

(* KeyValue::set_rpm: only flt and fpe2, of just their size.               *)
MaySetRpm(v, rpm) ==
  \/ v.kind = "flt" /\ v.size = 4
  \/ v.kind = "fp" /\ v.shift = 2 /\ v.size = 2 /\ rpm <= MaximumRpm

SetRpm(v, rpm) ==
  [v EXCEPT !.raw = IF v.kind = "flt" THEN rpm * Unit ELSE (rpm * 4) % 65536]

(* read_mode: 3 is the mode in which thermalmonitord controls the fan.     *)
Mode(v) ==
  IF v.size # 1 \/ v.kind # "ui" \/ v.width # 1 THEN "error"
  ELSE CASE v.raw \in {0, 3} -> "automatic" [] v.raw = 1 -> "forced" [] OTHER -> "error"

(* valid_fan_count: a whole number, of which ten fans are used.            *)
FanCount(value) ==
  IF value < 0 \/ value % Unit # 0 THEN Fails
  ELSE Is(IF value >= 10 * Unit THEN 10 ELSE value \div Unit)

Floor(x)   == x \div Unit
Ceiling(x) == (x + Unit - 1) \div Unit

(* valid_bounds: some whole speed lies between them.                       *)
ValidBounds(min, max) ==
  /\ min >= 0 /\ min < max /\ max <= MaximumRpm * Unit
  /\ Ceiling(min) <= Floor(max)

(* validated_rpm: a request is moved into the bounds, never refused for    *)
(* being outside them.                                                     *)
ValidatedRpm(request, min, max) ==
  IF request < 0 \/ ~ValidBounds(min, max) THEN Fails
  ELSE Is(IF request < Ceiling(min) THEN Ceiling(min)
          ELSE IF request > Floor(max) THEN Floor(max)
          ELSE request)
=============================================================================
