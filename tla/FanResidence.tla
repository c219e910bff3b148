---------------------------- MODULE FanResidence ----------------------------
(***************************************************************************)
(* History of FanController for a fan the curve may stop: for how long the *)
(* confirmed target has said that the fan is off, or that it was started   *)
(* from a stop.  controller.rs keeps times of its own for this (off_since, *)
(* run_since), stamps them when a write is acknowledged and clears them in *)
(* four other places; the history here follows the confirmed target alone. *)
(***************************************************************************)
EXTENDS FanController

VARIABLES
  stopAge,   \* ticks since the target became 0, or None
  runAge     \* ticks since it left 0, or None

historyVars == <<vars, stopAge, runAge>>

Older(age, limit) == IF age = None \/ age >= limit THEN age ELSE age + 1

(* The configuration "automatic" and a confirmed hand-back end both.       *)
Forgets == applied' = None \/ mode' = "automatic"

HistoryInit == Init /\ stopAge = None /\ runAge = None

HistoryNext ==
  /\ Next
  /\ IF Forgets THEN stopAge' = None /\ runAge' = None
     ELSE IF applied' = 0 /\ applied # 0 THEN stopAge' = 0 /\ runAge' = None
     ELSE IF applied = 0 /\ applied' > 0 THEN stopAge' = None /\ runAge' = 0
     ELSE IF timer' # timer /\ Tick
     THEN /\ stopAge' = Older(stopAge, OffResidence)
          /\ runAge' = Older(runAge, RunResidence)
     ELSE UNCHANGED <<stopAge, runAge>>

HistorySpec == HistoryInit /\ [][HistoryNext]_historyVars /\ Fairness

(* On a sample that is not urgent, the curve alone (no new configuration   *)
(* waiting to be applied) starts a fan only OffResidence after it stopped, *)
(* and stops it only RunResidence after it was started from a stop.        *)
ResidenceIsKept ==
  [][Emits /\ mode = "curve" /\ pending'.rpm # None /\ alarm' = None /\ ~dirty =>
       /\ applied = 0 /\ pending'.rpm > 0 => stopAge = None \/ stopAge >= OffResidence
       /\ pending'.rpm = 0 /\ applied > 0 => runAge = None \/ runAge >= RunResidence
    ]_historyVars
=============================================================================
