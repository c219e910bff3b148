-------------------------------- MODULE Smc --------------------------------
(***************************************************************************)
(* The SMC driver of the helper (crates/fan-platform/src/smc.rs): how a    *)
(* fan is taken from the firmware, given a target, and handed back, over a *)
(* transport every read and write of which may fail, and against firmware  *)
(* that takes fans back, moves the targets of its own fans and, on some    *)
(* models, forces fans when the test register is released.                 *)
(*                                                                         *)
(* The callers hold the mutex of the helper, so one operation runs at a    *)
(* time; between two of its accesses only the firmware moves.  A loop of   *)
(* verified writes is a stage that may repeat and that may give up.  Modes *)
(* 0 and 3 are "automatic", 1 is forced; an unknown encoding is an error   *)
(* of the read.                                                            *)
(***************************************************************************)
EXTENDS Naturals, FiniteSets, SmcTransport

CONSTANTS
  Fans,        \* 0 .. FNum - 1
  NoFan,
  Operations,  \* the operations the helper is asked for
  Quirks       \* what some models have: "testless" no test register Ftst,
               \* "reforces" firmware that forces fans when it is released

ASSUME NoFanAssumption == NoFan \notin Fans
ASSUME OperationsAssumption ==
  Operations \subseteq {"setRpm", "setForced", "setAutomatic", "resetAll"}
ASSUME QuirksAssumption == Quirks \subseteq {"testless", "reforces"}

VARIABLES
  quirks,    \* those of this machine
  \* registers
  mode,      \* fans whose mode register says forced
  test,      \* Ftst # 0
  unsafe,    \* fans whose target register is outside their live range
  \* Smc
  forced,    \* forced
  known,     \* known_fans
  cooling,   \* fans with an entry of unlock_attempts younger than 30 s
  \* the operation
  op, fan,   \* the operation in progress and its fan
  at,        \* where it is
  todo,      \* fans reset_all has yet to hand back
  errors,    \* it has met an error
  cancelled, \* the cancellation check says so
  result     \* the answer of the last operation

registers == <<mode, test, unsafe>>
caches    == <<forced, known, cooling>>
process   == <<op, fan, at, todo, errors, cancelled, result>>
vars      == <<quirks, registers, caches, process>>

Custom == {"setRpm", "setForced"}
Stages == {"idle", "entry", "first", "test", "again", "target", "confirm", "done",
           "read", "write", "verify", "release", "clear", "resetTest", "attest"}

TypeOK ==
  /\ quirks \subseteq Quirks
  /\ mode \subseteq Fans /\ test \in BOOLEAN /\ unsafe \subseteq Fans
  /\ forced \subseteq known /\ known \in {{}, Fans} /\ cooling \subseteq known
  /\ op \in Operations \cup {"none"} /\ fan \in Fans \cup {NoFan}
  /\ at \in Stages /\ todo \subseteq Fans
  /\ errors \in BOOLEAN /\ cancelled \in BOOLEAN
  /\ result \in {"ok", "failed", "uncertain"}

Idle == at = "idle"

HasTest == "testless" \notin quirks

Init ==
  /\ quirks \in { q \in SUBSET Quirks : "reforces" \in q => "testless" \notin q }
  /\ mode \in SUBSET Fans /\ test \in {FALSE, HasTest}
  /\ unsafe \in SUBSET Fans
  /\ forced = {} /\ known = {} /\ cooling = {}
  /\ op = "none" /\ fan = NoFan /\ at = "idle" /\ todo = {}
  /\ errors = FALSE /\ cancelled = FALSE /\ result = "ok"

-----------------------------------------------------------------------------
(* Accesses.                                                               *)

(* One write of mode 1 with its read-back: not obeyed, or obeyed, and then *)
(* perhaps too late for the read-back; `confirmed` when that shows it.     *)
PutForced(f, confirmed) ==
  \/ mode' = mode \cup {f}
  \/ ~confirmed /\ UNCHANGED mode

(* One write of mode 0.                                                    *)
PutAutomatic(f, confirmed) ==
  \/ mode' = mode \ {f}
  \/ ~confirmed /\ UNCHANGED mode

(* Writes of 0 to Ftst, verified or not.                                   *)
ReleaseTest(confirmed) ==
  \/ /\ test' = FALSE
     /\ mode' \in IF "reforces" \in quirks THEN { mode \cup S : S \in SUBSET Fans } ELSE {mode}
  \/ ~confirmed /\ UNCHANGED <<test, mode>>

Continue(stage) ==
  /\ at' = stage
  /\ UNCHANGED <<op, fan, todo, errors, cancelled, result>>

(* The operation returns.                                                  *)
Finish(r) ==
  /\ op' = "none" /\ fan' = NoFan /\ at' = "idle" /\ todo' = {}
  /\ errors' = FALSE /\ cancelled' = FALSE /\ result' = r

(* Mutated form: the error is returned at once.                            *)
FallBackMissing == Finish("failed")

(* `?` in set_rpm_inner, or in the closure of set_fan_mode: the fan is     *)
(* handed back before the error is returned.                               *)
FallBack ==
  /\ at' = "read" /\ errors' = TRUE
  /\ UNCHANGED <<op, fan, todo, cancelled, result>>

(* check_control_active.                                                   *)
MayControl == ~cancelled

-----------------------------------------------------------------------------
(* Calls.                                                                  *)

(* check_id, at the head of set_fan_rpm and set_fan_mode: it fails before  *)
(* anything is touched, or makes every fan known.                          *)
Call(o, f) ==
  /\ Idle /\ o \in Operations \ {"resetAll"}
  /\ \/ /\ known' = Fans
        /\ op' = o /\ fan' = f
        /\ at' = IF o \in Custom THEN "entry" ELSE "read"
        /\ cancelled' \in BOOLEAN
        /\ UNCHANGED <<todo, errors, result>>
     \/ /\ result' = "uncertain"
        /\ UNCHANGED <<known, op, fan, at, todo, errors, cancelled>>
  /\ UNCHANGED <<registers, forced, cooling>>

(* reset_all: a fan count that cannot be read is an error, but the fans    *)
(* known before are handed back all the same.                              *)
CallReset ==
  /\ Idle /\ "resetAll" \in Operations
  /\ op' = "resetAll" /\ fan' = NoFan
  /\ \/ known' = Fans /\ errors' = FALSE
     \/ known' = known /\ errors' = TRUE
  /\ todo' = known' \cup forced
  /\ at' = IF todo' = {} THEN "resetTest" ELSE "read"
  /\ UNCHANGED <<registers, forced, cooling, cancelled, result>>

(* The fan automatic() is about: of the operation, or the next of reset_all. *)
Subject == IF op = "resetAll" THEN CHOOSE f \in todo : TRUE ELSE fan

-----------------------------------------------------------------------------
(* Taking a fan.                                                           *)

(* set_rpm_inner up to the unlock: cancellation, the live bounds and the   *)
(* mode may end it.  A fan the firmware took from us may be unlocked at    *)
(* once; otherwise two unlocks are 30 s apart.                             *)
Enter ==
  /\ at = "entry" /\ op = "setRpm"
  /\ \/ FallBack /\ UNCHANGED caches
     \/ /\ MayControl /\ fan \in mode
        /\ forced' = forced \cup {fan}
        /\ Continue("target") /\ UNCHANGED <<cooling, known>>
     \/ /\ MayControl /\ fan \notin mode
        /\ forced' = forced \ {fan}
        /\ fan \in forced \/ fan \notin cooling
        /\ cooling' = cooling \cup {fan}
        /\ Continue("first")
        /\ UNCHANGED known
  /\ UNCHANGED registers

(* set_fan_mode(Forced): the target the fan has is checked first.          *)
EnterForced ==
  /\ at = "entry" /\ op = "setForced"
  /\ \/ FallBack
     \/ MayControl /\ fan \notin unsafe /\ Continue("first")
  /\ UNCHANGED <<caches, registers>>

(* set_fan_mode is done, set_rpm_inner goes on to the target.              *)
Unlocked ==
  /\ forced' = forced \cup {fan}
  /\ Continue(IF op = "setForced" THEN "done" ELSE "target")

(* unlock: one write of the mode; then, where there is Ftst, the test      *)
(* register is set, and the mode written again.                            *)
UnlockFirst ==
  /\ at = "first"
  /\ \/ MayControl /\ PutForced(fan, TRUE) /\ Unlocked
     \/ /\ MayControl /\ PutForced(fan, FALSE)
        /\ \E got \in ReadOptional(HasTest) :
             IF got = "error" THEN FallBack
             ELSE Continue(IF got = "some" /\ ~test THEN "test" ELSE "again")
        /\ UNCHANGED forced
     \/ FallBack /\ UNCHANGED <<mode, forced>>
  /\ UNCHANGED <<test, unsafe, known, cooling>>

UnlockTest ==
  /\ at = "test"
  /\ \/ MayControl /\ test' = TRUE /\ Continue("again")
     \/ test' \in {test, TRUE} /\ FallBack
  /\ UNCHANGED <<mode, unsafe, caches>>

UnlockAgain ==
  /\ at = "again"
  /\ \/ MayControl /\ PutForced(fan, TRUE) /\ Unlocked
     \/ /\ MayControl /\ PutForced(fan, FALSE) /\ UNCHANGED forced
        /\ Continue("again")
     \/ FallBack /\ UNCHANGED <<mode, forced>>
  /\ UNCHANGED <<test, unsafe, known, cooling>>

(* The target, with its verified writes.                                   *)
WriteTarget ==
  /\ at = "target"
  /\ \/ MayControl /\ unsafe' = unsafe \ {fan} /\ Continue("confirm")
     \/ unsafe' \in {unsafe, unsafe \ {fan}} /\ FallBack
  /\ UNCHANGED <<mode, test, caches>>

(* The mode is read again: "hardware reset fan mode during write".         *)
Confirm ==
  /\ at = "confirm"
  /\ \/ fan \in mode /\ MayControl /\ Finish("ok")
     \/ FallBack
  /\ UNCHANGED <<registers, caches>>

ForcedModeSet ==
  /\ at = "done" /\ Finish("ok")
  /\ UNCHANGED <<registers, caches>>

-----------------------------------------------------------------------------
(* automatic(): handing a fan back.                                        *)

(* It returns to set_fan_mode, to set_fan_rpm's fallback, or to reset_all. *)
HandedBack(ok) ==
  CASE op = "resetAll" ->
         /\ errors' = (errors \/ ~ok)
         /\ todo' = todo \ {Subject}
         /\ at' = IF todo' = {} THEN "resetTest" ELSE "read"
         /\ UNCHANGED <<op, fan, cancelled, result>>
    [] op = "setAutomatic" -> Finish(IF ok THEN "ok" ELSE "uncertain")
    [] OTHER -> Finish(IF ok THEN "failed" ELSE "uncertain")

ReadMode ==
  /\ at = "read"
  /\ \/ "some" \in Read(TRUE) /\ Continue(IF Subject \in mode THEN "write" ELSE "verify")
     \/ "error" \in Read(TRUE) /\ HandedBack(FALSE)
  /\ UNCHANGED <<registers, caches>>

WriteMode ==
  /\ at = "write"
  /\ \/ PutAutomatic(Subject, TRUE) /\ Continue("verify")
     \/ PutAutomatic(Subject, FALSE) /\ Continue("write")
     \/ PutAutomatic(Subject, FALSE) /\ HandedBack(FALSE)
  /\ UNCHANGED <<test, unsafe, caches>>

VerifyMode ==
  /\ at = "verify"
  /\ \/ /\ Subject \notin mode
        /\ forced' = forced \ {Subject}
        /\ Continue("release")
     \/ HandedBack(FALSE) /\ UNCHANGED forced
  /\ UNCHANGED <<registers, known, cooling>>

(* Mutated form: the cache is asked which fans are forced.                 *)
ReleaseByCache ==
  /\ at = "release"
  /\ \/ (forced # {} \/ ~test) /\ HandedBack(TRUE)
     \/ forced = {} /\ test /\ Continue("clear")
     \/ HandedBack(FALSE)
  /\ UNCHANGED <<registers, caches>>

(* release_test_if_all_automatic.                                          *)
Release ==
  /\ at = "release"
  /\ \/ mode # {} /\ HandedBack(TRUE)
     \/ /\ mode = {}
        /\ \E got \in ReadOptional(HasTest) :
             IF got = "some" /\ test THEN Continue("clear") ELSE HandedBack(got # "error")
     \/ HandedBack(FALSE)
  /\ UNCHANGED <<registers, caches>>

ClearTest ==
  /\ at = "clear"
  /\ \/ ReleaseTest(TRUE) /\ HandedBack(TRUE)
     \/ ReleaseTest(FALSE) /\ HandedBack(FALSE)
  /\ UNCHANGED <<unsafe, caches>>

(* The end of reset_all: Ftst, then every fan once more.                   *)
ResetTest ==
  /\ at = "resetTest" /\ at' = "attest"
  /\ \E got \in ReadOptional(HasTest) :
       IF got = "some" /\ test
         THEN \E ok \in BOOLEAN : ReleaseTest(ok) /\ errors' = (errors \/ ~ok)
         ELSE UNCHANGED <<test, mode>> /\ errors' = (errors \/ got = "error")
  /\ UNCHANGED <<unsafe, caches, op, fan, todo, cancelled, result>>

(* Every mode is read again after Ftst: the release may have forced a fan. *)
Attest ==
  /\ at = "attest"
  /\ \/ ~errors /\ mode \cap (known \cup forced) = {} /\ Finish("ok")
     \/ Finish("failed")
  /\ cooling' = {}
  /\ UNCHANGED <<registers, forced, known>>

-----------------------------------------------------------------------------
(* The environment.                                                        *)

(* thermalmonitord takes a fan back, or a reset of the machine does.       *)
FirmwareTakes(f) ==
  /\ f \in mode /\ mode' = mode \ {f}
  /\ UNCHANGED <<test, unsafe, caches, process>>

(* The target of an automatic fan is the firmware's.                       *)
FirmwareAims(f) ==
  /\ f \notin mode
  /\ unsafe' = (IF f \in unsafe THEN unsafe \ {f} ELSE unsafe \cup {f})
  /\ UNCHANGED <<mode, test, caches, process>>

(* 30 s have passed since the unlock of a fan.                             *)
CoolDown(f) ==
  /\ f \in cooling /\ cooling' = cooling \ {f}
  /\ UNCHANGED <<registers, forced, known, process>>

(* The peer ends or loses the console, or a signal arrives.                *)
Cancel ==
  /\ op \in Custom /\ ~cancelled /\ cancelled' = TRUE
  /\ UNCHANGED <<registers, caches, op, fan, at, todo, errors, result>>

(* The daemon dies; the next one opens the SMC anew.                       *)
Restart ==
  /\ forced' = {} /\ known' = {} /\ cooling' = {}
  /\ op' = "none" /\ fan' = NoFan /\ at' = "idle" /\ todo' = {}
  /\ errors' = FALSE /\ cancelled' = FALSE /\ result' = "uncertain"
  /\ UNCHANGED registers

Environment ==
  \/ \E f \in Fans : FirmwareTakes(f) \/ FirmwareAims(f) \/ CoolDown(f)
  \/ Cancel \/ Restart

Take     == Enter \/ EnterForced \/ UnlockFirst \/ UnlockTest \/ UnlockAgain
            \/ WriteTarget \/ Confirm \/ ForcedModeSet
Give     == ReadMode \/ WriteMode \/ VerifyMode \/ Release \/ ClearTest
            \/ ResetTest \/ Attest

Next ==
  /\ \/ \E o \in Operations, f \in Fans : Call(o, f)
     \/ CallReset
     \/ Take \/ Give
     \/ Environment
  /\ UNCHANGED quirks

Spec == Init /\ [][Next]_vars

-----------------------------------------------------------------------------
(* Properties.                                                             *)

Answers(o, r) == op = o /\ op' = "none" /\ result' = r

(* The driver keeps its contract with the helper: what its answers say of  *)
(* the modes is true, and nothing but a custom operation forces a fan.     *)
Contract == INSTANCE SmcContract WITH
  forcedFans <- mode, call <- op, about <- fan, faithful <- "reforces" \notin quirks
ContractKept == Contract!Spec

(* set_fan_rpm confirms only a fan that is in forced mode with the target  *)
(* it wrote, whatever the firmware did during the unlock.                  *)
TargetIsSet == [][Answers("setRpm", "ok") => fan \in mode' /\ fan \notin unsafe']_vars

(* reset_all confirms only when every fan is automatic and the test        *)
(* register is released, also on firmware that forces fans at the release; *)
(* the hand-back of the last forced fan releases it, too.                  *)
TestIsReleased ==
  [][/\ Answers("resetAll", "ok") => mode' = {} /\ ~test'
     /\ Answers("setAutomatic", "ok") => mode' # {} \/ ~test']_vars

(* What the driver confirms is in force.                                   *)
ConfirmedIsInForce == TargetIsSet /\ TestIsReleased
=============================================================================
