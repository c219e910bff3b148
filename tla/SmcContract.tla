---------------------------- MODULE SmcContract ----------------------------
(***************************************************************************)
(* What the helper relies on when it calls the SMC driver (smc.rs): which  *)
(* fans a call may force, and what its answer says of the mode registers.  *)
(* Smc implements it.                                                      *)
(***************************************************************************)
CONSTANTS Fans, NoFan

VARIABLES
  forcedFans,  \* fans whose mode register says forced
  call,        \* the operation in progress, "none" between two
  about,       \* the fan it was called for, NoFan for all of them
  result,      \* its answer: "ok", "failed", or "uncertain"
  faithful     \* the firmware obeys at once and forces no fan by itself

vars == <<forcedFans, call, about, result, faithful>>

Custom  == {"setRpm", "setForced"}
Calls   == Custom \cup {"setAutomatic", "resetAll"}
Results == {"ok", "failed", "uncertain"}

Init ==
  /\ forcedFans \in SUBSET Fans /\ call = "none" /\ about = NoFan /\ result = "ok"
  /\ faithful \in BOOLEAN

Begin(op, f) ==
  /\ call = "none"
  /\ call' = op /\ about' = f
  /\ UNCHANGED <<forcedFans, result>>

(* Only a custom operation forces a fan, and only its own; firmware that   *)
(* is not faithful may force any.                                          *)
Force ==
  /\ \/ call \in Custom /\ forcedFans' = forcedFans \cup {about}
     \/ ~faithful /\ forcedFans' \in SUBSET Fans
  /\ UNCHANGED <<call, about, result>>

(* Every operation may return fans to the system; so may the firmware, at  *)
(* any time.                                                               *)
Return ==
  /\ forcedFans' \in SUBSET forcedFans
  /\ UNCHANGED <<call, about, result>>

(* "ok" of a reset attests that every fan is the system's; on faithful     *)
(* firmware "ok" of a single hand-back, and "failed" of a custom write,    *)
(* attest it of their fan.  "uncertain" attests nothing.                   *)
Attested(r) ==
  CASE call = "resetAll" -> r = "ok" => forcedFans' = {}
    [] call = "setAutomatic" -> r = "ok" /\ faithful => about \notin forcedFans'
    [] call \in Custom -> r = "failed" /\ faithful => about \notin forcedFans'

Answer(r) ==
  /\ call # "none"
  /\ forcedFans' \in IF faithful THEN SUBSET forcedFans ELSE SUBSET Fans
  /\ Attested(r)
  /\ call' = "none" /\ about' = NoFan /\ result' = r

(* An error before anything was tried, or the process dies.                *)
GiveUp == call' = "none" /\ about' = NoFan /\ result' = "uncertain" /\ UNCHANGED forcedFans

Next ==
  /\ \/ \E op \in Calls, f \in Fans \cup {NoFan} : Begin(op, f)
     \/ Force \/ Return \/ GiveUp
     \/ \E r \in Results : Answer(r)
  /\ UNCHANGED faithful

Spec == Init /\ [][Next]_vars
=============================================================================
