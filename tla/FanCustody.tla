----------------------------- MODULE FanCustody -----------------------------
(***************************************************************************)
(* What the privileged helper promises about its fans, whoever asks: they  *)
(* are in the custody of one process, of nobody, or of a recovery that has *)
(* not confirmed a hand-back.  In nobody's custody every fan is automatic, *)
(* and only a confirmed hand-back puts them there.                         *)
(***************************************************************************)
CONSTANTS
  Peers,       \* processes that may take custody
  Nobody,      \* no custodian: the firmware has every fan
  Recovery,    \* a hand-back is owed and no process may drive a fan
  Fans

VARIABLES
  custodian,
  forced       \* fans not left to the firmware

vars == <<custodian, forced>>

Custodians == Peers \cup {Nobody, Recovery}

Init == custodian = Recovery /\ forced \in SUBSET Fans

Take(p) ==
  /\ custodian = Nobody
  /\ custodian' = p
  /\ UNCHANGED forced

Drive(p) ==
  /\ custodian = p
  /\ forced' \in SUBSET Fans
  /\ UNCHANGED custodian

(* The firmware returns some of the fans.                                  *)
Subside ==
  /\ forced' \in SUBSET forced
  /\ UNCHANGED custodian

HandBack ==
  /\ forced' = {}
  /\ custodian' = Nobody

(* A hand-back that fails may disturb any fan.                             *)
Lose ==
  /\ forced' \in SUBSET Fans
  /\ custodian' = Recovery

Next ==
  \/ \E p \in Peers : Take(p) \/ Drive(p)
  \/ Subside \/ HandBack \/ Lose

Spec == Init /\ [][Next]_vars

(* Fans nobody has custody of are the firmware's.                          *)
UncustodiedIsAutomatic == custodian = Nobody => forced = {}

=============================================================================
