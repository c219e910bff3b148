------------------------------- MODULE Worker -------------------------------
(***************************************************************************)
(* The control worker of the app (crates/fan-app/src/worker.rs): one       *)
(* thread that takes commands, samples, lets the controller decide, sends  *)
(* its actions to the helper one by one, and hands every fan back when     *)
(* anything went wrong.  What is hard is the hand-back barrier `Handback`: *)
(* it must outlive lost replies, abandoned batches, sleep, wake, and an    *)
(* installer that runs beside the worker.                                  *)
(*                                                                         *)
(* The controller is abstracted to the fans it drives, the actions it has  *)
(* issued and not seen answered, and an arbitrary choice of new ones (see  *)
(* FanController).  The helper is abstracted to the fans it has forced for *)
(* this app and to its right to hand them back at any time (see            *)
(* HelperEngine): when a lease runs out, it sleeps, restarts, or another   *)
(* process asks.  Requests keep CallContract, as HelperCalls does: one     *)
(* whose client gave up is executed before any later one is answered.      *)
(* Firmware that forces fans by itself is left to HelperEngine and Smc.    *)
(***************************************************************************)
EXTENDS FiniteSets

CONSTANT Fans

ASSUME FansAssumption == {"nothing", "release"} \cap Fans = {}   \* see late

VARIABLES
  at,         \* the phase of the loop of `run`
  \* Handback
  active,     \* active
  controlled, \* controlled
  later,      \* next_retry lies in the future
  hold,       \* hold_until does
  \* the rest of `run`
  ready, paused, installing,
  batch,      \* the actions left in the batch: a kind for every fan
  \* Controller
  custom,     \* fans whose configuration is not automatic
  pending,    \* fans with an action in status.pending
  \* the thread that installs or removes the helper
  installer,
  \* the helper
  helper,     \* "up" or "absent"
  forced,     \* fans in forced mode for this app
  late,       \* a request that is executed after its client gave up: a fan
              \* whose RPM is set, "release" for any other, or "nothing"
  \* history
  debt,       \* fans with an unconfirmed write since the last confirmed reset
  released    \* the user asked for a reset and for no custom mode since

handback   == <<active, controlled, later, hold>>
controller == <<custom, pending>>
service    == <<helper, forced, late>>
history    == <<debt, released>>
vars == <<at, handback, ready, paused, installing, batch, controller, installer,
          service, history>>

Takeovers == {"rpm", "emergency"}
Kinds     == Takeovers \cup {"automatic", "none"}
Phases    == {"receive", "sample", "batch", "heartbeat", "handback", "stopped", "gone"}
NoBatch   == [f \in Fans |-> "none"]

TypeOK ==
  /\ at \in Phases
  /\ active \in BOOLEAN /\ controlled \in BOOLEAN /\ later \in BOOLEAN /\ hold \in BOOLEAN
  /\ ready \in BOOLEAN /\ paused \in BOOLEAN /\ installing \in BOOLEAN
  /\ batch \in [Fans -> Kinds] /\ (at # "batch" => batch = NoBatch)
  /\ custom \subseteq Fans /\ pending \subseteq Fans
  /\ { f \in Fans : batch[f] # "none" } \subseteq pending
  /\ installer \in {"none", "reset", "remove", "removed", "install", "installed"}
  /\ installing = (installer # "none")
  /\ helper \in {"up", "absent"} /\ forced \subseteq Fans
  /\ late \in Fans \cup {"nothing", "release"}
  /\ debt \subseteq Fans /\ released \in BOOLEAN

(* A start: nothing is known of the helper, and the fans of an earlier     *)
(* process of the app are handed back by its end of lease.                 *)
Init ==
  /\ at = "receive"
  /\ active = FALSE /\ controlled = FALSE /\ later = FALSE /\ hold = FALSE
  /\ ready = FALSE /\ paused = FALSE /\ installing = FALSE
  /\ batch = NoBatch
  /\ custom \in SUBSET Fans /\ pending = {}
  /\ installer = "none"
  /\ helper \in {"up", "absent"} /\ forced = {} /\ late = "nothing"
  /\ debt = {} /\ released = FALSE

-----------------------------------------------------------------------------
(* Requests.                                                               *)

(* An installed helper executes a call, and `late` is no stray before it.  *)
Answers == helper = "up" /\ late = "nothing"

(* reset_all of HelperClient: confirmed, not sent, refused, or given up.   *)
AskReset(ok) ==
  /\ UNCHANGED helper
  /\ \/ ok /\ Answers /\ forced' = {} /\ UNCHANGED late
     \/ ~ok /\ UNCHANGED <<forced, late>>
     \/ ~ok /\ Answers /\ forced' \in SUBSET forced /\ late' \in {"nothing", "release"}

(* set_fan_rpm of HelperClient.  A refusal may have forced the fan, or     *)
(* returned it.                                                            *)
AskRpm(f, ok) ==
  /\ UNCHANGED helper
  /\ \/ ok /\ Answers /\ forced' = forced \cup {f} /\ UNCHANGED late
     \/ ~ok /\ UNCHANGED <<forced, late>>
     \/ /\ ~ok /\ Answers
        /\ forced' \in {forced, forced \cup {f}, forced \ {f}} /\ late' \in {"nothing", f}

(* set_fan_mode(Automatic) of HelperClient.                                *)
AskAutomatic(f, ok) ==
  /\ UNCHANGED helper
  /\ \/ ok /\ Answers /\ forced' = forced \ {f} /\ UNCHANGED late
     \/ ~ok /\ UNCHANGED <<forced, late>>
     \/ ~ok /\ Answers /\ forced' \in {forced, forced \ {f}} /\ late' \in {"nothing", "release"}

-----------------------------------------------------------------------------
(* Handback.                                                               *)

(* require: the next pass of the loop tries a reset at once.               *)
Require == active' = TRUE /\ later' = FALSE

(* acknowledge_reset, and controller.resume() where it confirms.           *)
Acknowledge(ok) ==
  /\ active' = ~ok /\ later' = ~ok
  /\ controlled' = (controlled /\ ~ok)
  /\ debt' = (IF ok THEN {} ELSE debt)

Resume(ok) == pending' = IF ok THEN {} ELSE pending

TakeBack(ok) == AskReset(ok) /\ Acknowledge(ok) /\ Resume(ok) /\ UNCHANGED <<hold, custom>>

-----------------------------------------------------------------------------
(* Commands.                                                               *)

Receive(next) == at = "receive" /\ at' = next

(* Configure, through `configure`: a custom mode is saved before it is     *)
(* applied, the automatic mode is applied whether it can be saved or not,  *)
(* and neither replaces an action under way.                               *)
ConfigureCustom(f) ==
  \/ installing /\ Receive("receive") /\ UNCHANGED <<controller, history>>
  \/ /\ ~installing /\ Receive("sample")
     /\ \/ custom' = custom \cup {f} /\ released' = FALSE
        \/ UNCHANGED <<custom, released>>                       \* not saved
     /\ UNCHANGED <<pending, debt>>

ConfigureAutomatic(f) ==
  /\ Receive("sample")
  /\ custom' = custom \ {f}
  /\ UNCHANGED <<pending, history>>

Configure(f) ==
  /\ ConfigureCustom(f) \/ ConfigureAutomatic(f)
  /\ UNCHANGED <<handback, ready, paused, installing, batch, installer, service>>

(* ConfigurePolicy, ConfigureTuning: a new policy drops the actions the    *)
(* old one asked for; those of an abandoned batch are all there can be.    *)
ConfigurePolicy ==
  /\ Receive("sample")
  /\ pending' \in IF installing THEN {pending} ELSE {pending, {}}
  /\ UNCHANGED <<custom, handback, ready, paused, installing, batch, installer, service, history>>

(* Mutated form: a configuration that cannot be saved is not applied.      *)
ResetPersistsFirst ==
  /\ Receive("sample")
  /\ custom' \in {custom, {}} /\ released' = TRUE
  /\ Require
  /\ UNCHANGED <<controlled, hold, pending, debt>>
  /\ UNCHANGED <<ready, paused, installing, batch, installer, service>>

(* Reset: every fan automatic in memory, saved or not.                     *)
Reset ==
  /\ Receive("sample")
  /\ custom' = {} /\ released' = TRUE
  /\ Require
  /\ UNCHANGED <<controlled, hold, pending, debt>>
  /\ UNCHANGED <<ready, paused, installing, batch, installer, service>>

Uninstall ==
  /\ ~installing
  /\ Receive("sample")
  /\ custom' = {} /\ released' = TRUE
  /\ installing' = TRUE /\ installer' = "reset"
  /\ \E ok \in BOOLEAN : AskReset(ok) /\ Acknowledge(ok) /\ Resume(ok)
  /\ UNCHANGED <<hold, ready, paused, batch>>

Uninstalled ==
  /\ installer = "removed"
  /\ Receive("sample")
  /\ installing' = FALSE /\ installer' = "none" /\ ready' = FALSE
  /\ UNCHANGED <<handback, paused, batch, controller, service, history>>

Install ==
  /\ ~installing
  /\ Receive("sample")
  /\ installing' = TRUE /\ installer' = "install"
  /\ UNCHANGED <<handback, ready, paused, batch, controller, service, history>>

Installed ==
  /\ installer = "installed"
  /\ Receive("sample")
  /\ installing' = FALSE /\ installer' = "none"
  /\ UNCHANGED <<handback, ready, paused, batch, controller, service, history>>

(* Sleep: an app that neither drives a fan nor owes a hand-back answers at *)
(* once, and forgets its hold; any other waits for the helper.             *)
Sleep ==
  /\ Receive("sample")
  /\ paused' = TRUE
  /\ \/ /\ ~controlled /\ ~active
        /\ later' = FALSE /\ hold' = FALSE /\ Resume(TRUE)
        /\ UNCHANGED <<active, controlled, custom, debt, service>>
     \/ /\ controlled \/ active
        /\ \E ok \in BOOLEAN : TakeBack(ok)
  /\ UNCHANGED <<ready, installing, batch, installer, released>>

(* Mutated form: the barrier is made anew with the controller.             *)
WakeForgets ==
  /\ Receive("sample")
  /\ paused' = FALSE
  /\ pending' = {}
  /\ active' = FALSE /\ controlled' = FALSE /\ later' = FALSE /\ hold' = FALSE
  /\ UNCHANGED <<custom, ready, installing, batch, installer, service, history>>

(* Wake: a new controller, with the old configuration and the old barrier. *)
Wake ==
  /\ Receive("sample")
  /\ paused' = FALSE
  /\ pending' = {}
  /\ UNCHANGED <<custom, handback, ready, installing, batch, installer, service, history>>

Shutdown ==
  /\ Receive("stopped")
  /\ IF controlled \/ active
       THEN \E ok \in BOOLEAN : AskReset(ok) /\ Acknowledge(ok)
       ELSE UNCHANGED <<active, controlled, later, service, debt>>
  /\ UNCHANGED <<hold, controller, ready, paused, installing, batch, installer, released>>

(* The senders are gone: one reset is tried, whose answer nobody awaits.   *)
Disconnected ==
  /\ Receive("gone")
  /\ IF controlled \/ active THEN \E ok \in BOOLEAN : AskReset(ok) ELSE UNCHANGED service
  /\ UNCHANGED <<handback, controller, ready, paused, installing, batch, installer, history>>

(* No command, or one that concerns only what is shown.                    *)
Timeout ==
  /\ Receive("sample")
  /\ UNCHANGED <<handback, ready, paused, installing, batch, controller, installer,
                 service, history>>

Command ==
  \/ \E f \in Fans : Configure(f)
  \/ ConfigurePolicy \/ Reset
  \/ Uninstall \/ Uninstalled \/ Install \/ Installed
  \/ Sleep \/ Wake \/ Shutdown \/ Disconnected

-----------------------------------------------------------------------------
(* A sample and its batch of actions.                                      *)

(* What update() may answer: nothing for a fan whose action is pending,    *)
(* and a target only for a fan that is not left to the system.             *)
Decisions ==
  { b \in [Fans -> Kinds] :
      \A f \in Fans : /\ f \in pending => b[f] = "none"
                      /\ b[f] \in Takeovers => f \in custom }

NotSampled ==
  /\ at = "sample" /\ at' = "heartbeat"
  /\ UNCHANGED <<handback, ready, paused, installing, batch, controller, installer,
                 service, history>>

(* The helper is asked for its status; an app that drives fans and does    *)
(* not find it ready owes a hand-back.                                     *)
Sample ==
  /\ at = "sample" /\ ~paused
  /\ ready' \in {FALSE, Answers}
  /\ IF ~ready' /\ controlled /\ ~active THEN Require ELSE UNCHANGED <<active, later>>
  /\ batch' \in Decisions
  /\ pending' = pending \cup { f \in Fans : batch'[f] # "none" }
  /\ at' = "batch"
  /\ UNCHANGED <<controlled, hold, paused, installing, custom, installer, service, history>>

Done(f) == batch' = [batch EXCEPT ![f] = "none"] /\ pending' = pending \ {f}

(* Mutated form: the batch goes on after a failure.                        *)
TurnAnyway(f) == at = "batch" /\ batch[f] # "none"

(* "A complete reset must be confirmed before any saved custom intent is   *)
(* resumed": nothing of the batch is looked at while a hand-back is owed.  *)
Turn(f) == at = "batch" /\ batch[f] # "none" /\ ~active

Held(f) == hold /\ batch[f] = "rpm"

(* After a failed write only an emergency takes a fan over.                *)
Defer(f) ==
  /\ Turn(f) /\ Held(f) /\ Done(f)
  /\ UNCHANGED <<at, handback, ready, paused, installing, custom, installer, service, history>>

(* action_allowed, but for the age of the sample, which may pass meanwhile. *)
Allowed(f) == ready /\ (batch[f] \in Takeovers => ~installing)

Refuse(f) ==
  /\ Turn(f) /\ ~Held(f)
  /\ ~Allowed(f) \/ batch[f] \in Takeovers
  /\ Done(f)
  /\ UNCHANGED <<at, handback, ready, paused, installing, custom, installer, service, history>>

(* record_write: an answer that does not confirm calls for a hand-back.    *)
RecordWrite(f, ok) ==
  IF ok THEN UNCHANGED <<active, later, hold, debt>>
        ELSE Require /\ hold' = TRUE /\ debt' = debt \cup {f}

Write(f) ==
  /\ Turn(f) /\ ~Held(f) /\ Allowed(f)
  /\ controlled' = (controlled \/ batch[f] \in Takeovers)
  /\ \E ok \in BOOLEAN :
       /\ IF batch[f] = "automatic" THEN AskAutomatic(f, ok) ELSE AskRpm(f, ok)
       /\ RecordWrite(f, ok)
  /\ Done(f)
  /\ UNCHANGED <<at, ready, paused, installing, custom, installer, released>>

(* The batch is done or, its actions still pending, abandoned.             *)
EndBatch ==
  /\ at = "batch" /\ (active \/ batch = NoBatch)
  /\ at' = "heartbeat" /\ batch' = NoBatch
  /\ UNCHANGED <<handback, ready, paused, installing, controller, installer, service, history>>

-----------------------------------------------------------------------------
(* The rest of the loop.                                                   *)

(* Every 2 s, and never while a hand-back is owed: the lease must run out. *)
HeartbeatFails ==
  /\ ~paused /\ ready /\ ~active
  /\ ready' = FALSE
  /\ IF controlled THEN Require ELSE UNCHANGED <<active, later>>

Heartbeat ==
  /\ at = "heartbeat" /\ at' = "handback"
  /\ UNCHANGED <<ready, active, later>> \/ HeartbeatFails
  /\ UNCHANGED <<controlled, hold, paused, installing, batch, controller, installer,
                 service, history>>

Due == active /\ ~later

(* Mutated forms: the hand-back waits for a helper that answers; and the   *)
(* actions of an abandoned batch are left pending.                         *)
HandBackWhenReady ==
  /\ at = "handback" /\ at' = "receive"
  /\ IF Due /\ ready
       THEN \E ok \in BOOLEAN : TakeBack(ok)
       ELSE UNCHANGED <<handback, controller, service, debt>>
  /\ UNCHANGED <<ready, paused, installing, batch, installer, released>>
HandBackUnresumed ==
  /\ at = "handback" /\ at' = "receive"
  /\ IF Due
       THEN \E ok \in BOOLEAN : AskReset(ok) /\ Acknowledge(ok) /\ UNCHANGED <<hold, controller>>
       ELSE UNCHANGED <<handback, controller, service, debt>>
  /\ UNCHANGED <<ready, paused, installing, batch, installer, released>>

HandBack ==
  /\ at = "handback" /\ at' = "receive"
  /\ IF Due
       THEN \E ok \in BOOLEAN : TakeBack(ok)
       ELSE UNCHANGED <<handback, controller, service, debt>>
  /\ UNCHANGED <<ready, paused, installing, batch, installer, released>>

-----------------------------------------------------------------------------
(* The installer thread.                                                   *)

Installer(next) == installer' = next /\ UNCHANGED
  <<at, handback, ready, paused, installing, batch, controller, history>>

(* Mutated form: the answer to the reset is not looked at.                 *)
UninstallResetUnchecked ==
  /\ installer = "reset" /\ helper = "up"
  /\ \E ok \in BOOLEAN : AskReset(ok) /\ Installer("remove")

(* uninstall_workflow: nothing to do, or a reset that must be confirmed    *)
(* before the administrator is asked.                                      *)
UninstallReset ==
  /\ installer = "reset" /\ helper = "up"
  /\ \E ok \in BOOLEAN : AskReset(ok) /\ Installer(IF ok THEN "remove" ELSE "removed")

NothingToUninstall ==
  /\ installer = "reset" /\ helper = "absent"
  /\ Installer("removed") /\ UNCHANGED service

(* The removal script, if it is authorised and succeeds.                   *)
Remove ==
  /\ installer = "remove" /\ Installer("removed")
  /\ \/ helper' = "absent" /\ forced' \in SUBSET forced /\ late' = "nothing"
     \/ UNCHANGED service

(* The installation script stops the old helper, and the new one serves    *)
(* nobody before it has handed back.                                       *)
InstallHelper ==
  /\ installer = "install" /\ Installer("installed")
  /\ \/ helper' = "up" /\ forced' = {} /\ late' = "nothing"
     \/ helper' \in {helper, "absent"} /\ forced' \in SUBSET forced
        /\ late' \in {late, "nothing"}

-----------------------------------------------------------------------------
(* The environment.                                                        *)

Environment(e) ==
  /\ e
  /\ UNCHANGED <<at, active, controlled, ready, paused, installing, batch, controller,
                 installer, helper, history>>

(* An abandoned request is executed, or its helper dies first.             *)
FinishLate ==
  /\ late # "nothing" /\ late' = "nothing"
  /\ forced' \in IF late = "release" THEN SUBSET forced
                                     ELSE {forced, forced \cup {late}, forced \ {late}}
  /\ UNCHANGED <<later, hold>>

(* The helper, or the firmware, returns fans to the system.                *)
Return ==
  /\ forced' \in SUBSET forced
  /\ UNCHANGED <<late, later, hold>>

RetryTime == later /\ later' = FALSE /\ UNCHANGED <<hold, forced, late>>
HoldEnds  == hold /\ hold' = FALSE /\ UNCHANGED <<later, forced, late>>

-----------------------------------------------------------------------------
Act(f) == Defer(f) \/ Refuse(f) \/ Write(f)

Loop ==
  \/ Timeout \/ NotSampled \/ Sample \/ (\E f \in Fans : Act(f)) \/ EndBatch
  \/ Heartbeat \/ HandBack

Next ==
  \/ Command \/ Loop
  \/ UninstallReset \/ NothingToUninstall \/ Remove \/ InstallHelper
  \/ Environment(FinishLate) \/ Environment(Return)
  \/ Environment(RetryTime) \/ Environment(HoldEnds)

Safety == Init /\ [][Next]_vars

(* A reset that is owed is asked of a helper that is installed, and its    *)
(* answer acknowledged.                                                    *)
Asks ==
  /\ helper = "up" /\ active
  /\ (HandBack /\ Due) \/ Sleep \/ Uninstall
  /\ active' => later'

(* The thread runs, time passes, abandoned requests end, and a reset that  *)
(* is asked for again and again is confirmed at last.                      *)
Fairness ==
  /\ WF_vars(Loop)
  /\ WF_vars(Environment(RetryTime)) /\ WF_vars(Environment(FinishLate))
  /\ []<><<Asks>>_vars => []<><<Asks /\ ~active'>>_vars

Spec == Safety /\ Fairness

-----------------------------------------------------------------------------
(* Properties.                                                             *)

(* An app that drives no fan and owes no hand-back may sleep or quit       *)
(* without asking the helper (worker.rs:851, 899), and what it told the    *)
(* power monitor or the window that quits holds until the machine wakes    *)
(* (worker.rs:855, 903): no fan is forced for it, and no request of its    *)
(* own can still force one.                                                *)
Free == forced = {} /\ late \notin Fans
UnownedIsFree ==
  (~controlled \/ paused \/ at = "stopped") /\ ~active => Free

(* An action the loop has abandoned is pending in the controller, which    *)
(* issues no other for its fan: the hand-back that resumes it is owed      *)
(* (worker.rs:1026).                                                       *)
NoActionIsForgotten ==
  at \notin {"batch", "stopped", "gone"} /\ pending # {} => active

(* After an unconfirmed write no fan is driven before a complete reset has *)
(* been confirmed, whatever was received in between (worker.rs:1024).      *)
Drives(f) == Write(f) /\ batch[f] \in Takeovers
BarrierHolds == [][\A f \in Fans : Drives(f) => debt = {}]_vars

(* After the user's reset no fan is driven until a custom mode is applied  *)
(* anew, even if the reset could not be saved (worker.rs:738).             *)
UserResetIsFinal == [][\A f \in Fans : Drives(f) => ~released]_vars

(* The helper is removed only with every fan automatic, although minutes   *)
(* may pass between its reset and the authorisation (install.rs:216).      *)
UninstallIsHandedBack == [][Remove /\ helper' = "absent" => Free]_vars

(* A hand-back that is owed is confirmed, asleep or awake, unless the app  *)
(* ends or the helper is not there.                                        *)
HandBackEnds == active ~> (~active \/ at \in {"stopped", "gone"} \/ helper = "absent")
=============================================================================
