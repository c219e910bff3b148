----------------------------- MODULE SmartForm -----------------------------
(***************************************************************************)
(* The two places where the user sets how smart cooling behaves: the       *)
(* preference slider of the menu bar panel, which saves at once, and the   *)
(* smart-cooling page (crates/fan-app/src/policy.rs), a form with a draft  *)
(* preference, a comfort target and a calibration that is recorded in two  *)
(* points.  Both save through the one slot `pending_policy_save` of        *)
(* crates/fan-app/src/ui.rs, whose answer the timer of the interface polls.*)
(*                                                                         *)
(* A form is <<>> before it is built.  Texts are what they parse to: a     *)
(* comfort target is off or on, a measured temperature is a number or      *)
(* Blank; a field that is no number only makes a save refuse.  Whether two *)
(* points lie far enough apart for a calibration is in Telemetry; here it  *)
(* is either way.                                                          *)
(***************************************************************************)
EXTENDS Settings, SequencesExt

CONSTANTS
  Biases,     \* positions of a preference slider
  Surfaces    \* what the user's thermometer shows

VARIABLES
  form,       \* policy: the form
  save,       \* pending_policy_save, pending_panel_tuning: what was asked, and by whom
  lock,       \* the panel's preference is disabled
  touched     \* history: the user moved the form's preference since it was built

smart == <<form, save, lock, touched>>

Blank == 0

NoRecords == <<<<>>, <<>>>>

(* A calibration is none, or of points that were measured on the sensor it *)
(* names, with the temperatures its fields show.                           *)
Measured(calibration) ==
  calibration # <<>> =>
    LET c == calibration[1]
    IN /\ calibration = <<c>>
       /\ \A p \in DOMAIN c.points :
            c.points[p].on = c.sensor /\ c.points[p].surface = c.shown[p]

-----------------------------------------------------------------------------
(* The sensor popup: a list of keys and a position in it.                  *)

Position(s, x) == IF Contains(s, x) THEN CHOOSE i \in DOMAIN s : s[i] = x ELSE 1

With(s, x) == IF Contains(s, x) THEN s ELSE Append(s, x)

(* The sensors the interface sees. *)
Listed == IF published.found.fans THEN Sensors ELSE <<>>

Selected(f) == IF f.index \in DOMAIN f.sources THEN <<f.sources[f.index]>> ELSE <<>>

(* PolicyEditor::new: everything from the published configuration.         *)
Built(locked) ==
  LET c    == published.config
      keys == IF c.calibration = <<>> THEN Listed ELSE With(Listed, c.calibration[1].sensor)
  IN [bias |-> c.bias, target |-> c.target, base |-> c.calibration,
      sources |-> keys,
      index |-> IF c.calibration = <<>> THEN 1 ELSE Position(keys, c.calibration[1].sensor),
      records |-> NoRecords, measured |-> <<Blank, Blank>>,
      machine |-> published.found.machine, locked |-> locked]

(* Mutated form: points already recorded stay. *)
SourceKept(f) == f

(* source_changed. *)
SourceChanged(f) == [f EXCEPT !.records = NoRecords]

(* refresh: the list follows the sensors, the selection keeps its key.     *)
Preserved(f) ==
  IF Selected(f) # <<>> THEN Selected(f)
  ELSE IF f.base # <<>> THEN <<f.base[1].sensor>> ELSE <<>>

Relisted(f) ==
  LET kept == Preserved(f)
      keys == IF kept = <<>> THEN Listed ELSE With(Listed, kept[1])
  IN IF f.sources = keys THEN f
     ELSE [f EXCEPT !.sources = keys, !.index = IF kept = <<>> THEN 1 ELSE Position(keys, kept[1])]

Refreshed(f) ==
  Relisted(IF f.machine = published.found.machine THEN f
           ELSE [SourceChanged(f) EXCEPT !.machine = published.found.machine])

-----------------------------------------------------------------------------
(* What the user does to the form.                                         *)

Edit(f) == form' = <<f>> /\ UNCHANGED <<worker, channel, save, lock>>

(* coolingPreference, resetCoolingPreference; disabled while a save is on  *)
(* its way, once a tick has seen it.                                       *)
Prefer ==
  /\ form # <<>> /\ ~form[1].locked
  /\ \E b \in Biases : Edit([form[1] EXCEPT !.bias = b])
  /\ touched' = TRUE

(* comfortToggle refreshes the form; the field is read when it is saved.   *)
Aim ==
  /\ form # <<>> /\ ~form[1].locked
  /\ \E t \in {"off", "on"} : Edit(Refreshed([form[1] EXCEPT !.target = t]))
  /\ UNCHANGED touched

(* A field that was recorded is typed again. *)
Retype ==
  /\ form # <<>>
  /\ \E i \in 1 .. 2, t \in Surfaces :
       form[1].records[i] # <<>> /\ Edit([form[1] EXCEPT !.measured[i] = t])
  /\ UNCHANGED touched

(* A field is typed and recorded.  record refuses unless the sample is     *)
(* fresh, the machine is known and the selected sensor has a value; the    *)
(* sensor it read goes with the point only here.                           *)
Record ==
  /\ form # <<>>
  /\ form[1].machine /\ published.found.machine
  /\ Selected(form[1]) # <<>> /\ Contains(Listed, Selected(form[1])[1])
  /\ \E i \in 1 .. 2, t \in Surfaces :
       Edit([form[1] EXCEPT !.measured[i] = t,
                            !.records[i] = <<[on |-> Selected(form[1])[1], surface |-> t]>>])
  /\ UNCHANGED touched

ChooseSource ==
  /\ form # <<>>
  /\ \E i \in DOMAIN form[1].sources \ {form[1].index} :
       Edit(SourceChanged([form[1] EXCEPT !.index = i]))
  /\ UNCHANGED touched

Clear ==
  /\ form # <<>>
  /\ Edit(SourceChanged([form[1] EXCEPT !.base = <<>>]))
  /\ UNCHANGED touched

(* build_policy: nothing before the sensors are known.                     *)
Rebuilt(f, locked) == IF published.found.discovered THEN <<Built(locked)>> ELSE f

(* cancelPolicy. *)
Revert ==
  /\ form # <<>>
  /\ form' = Rebuilt(form, save # <<>>)
  /\ touched' = (touched /\ ~published.found.discovered)
  /\ UNCHANGED <<worker, channel, save, lock>>

-----------------------------------------------------------------------------
(* Saving.                                                                 *)

(* verify_recorded_measurements: what is shown is what was recorded.       *)
StillShown(f) == \A i \in 1 .. 2 : f.measured[i] = f.records[i][1].surface

(* read: the calibrations the form can stand for, none where it refuses.   *)
Calibrations(f) ==
  IF f.records[1] # <<>> /\ f.records[2] # <<>>
    THEN IF StillShown(f) /\ f.machine /\ published.found.machine /\ Selected(f) # <<>>
           THEN {<<[sensor |-> Selected(f)[1], points |-> <<f.records[1][1], f.records[2][1]>>,
                    shown |-> f.measured]>>}
           ELSE {}
  ELSE IF f.records = NoRecords /\ (f.base # <<>> => Selected(f) = <<f.base[1].sensor>>)
    THEN {f.base}
  ELSE {}

(* Ask the worker for a save; one that is gone refuses at once.            *)
Ask(by, command) ==
  IF alive
    THEN /\ Send(<<command>>) /\ reply' = "waiting"
         /\ save' = <<[by |-> by, previous |-> published.config.bias, asked |-> command]>>
    ELSE UNCHANGED <<queue, reply, save>>

(* save_panel_tuning. *)
SavePanelTuning ==
  /\ save = <<>> /\ ~lock
  /\ \E b \in Biases : Ask("panel", [kind |-> "tuning", bias |-> b])
  /\ UNCHANGED <<worker, prompts, published, form, lock, touched>>

(* save_policy, where read does not refuse. *)
SavePolicy ==
  /\ save = <<>> /\ form # <<>>
  /\ \E c \in Calibrations(form[1]) :
       Ask("form", [kind |-> "policy", bias |-> form[1].bias, target |-> form[1].target,
                    calibration |-> c])
  /\ form' = IF alive THEN <<[form[1] EXCEPT !.locked = TRUE]>> ELSE form
  /\ UNCHANGED <<worker, prompts, published, lock, touched>>

(* Mutated form: the draft follows whatever it is. *)
SyncedAlways(f, previous, bias) == [f EXCEPT !.bias = bias]

(* sync_saved_preference: a preference the user has not moved follows.     *)
Synced(f, previous, bias) == IF f.bias = previous THEN [f EXCEPT !.bias = bias] ELSE f

(* Mutated form: a reply that cannot come any more is waited for. *)
AnsweredOnly == reply \in {"ok", "error"}

Answered == reply \in {"ok", "error", "closed"}

(* The form after poll_policy_save. *)
Polled ==
  IF ~Answered \/ reply # "ok" \/ form = <<>> THEN form
  ELSE IF save[1].by = "panel" THEN <<Synced(form[1], save[1].previous, save[1].asked.bias)>>
  ELSE Rebuilt(form, FALSE)

(* The smart-cooling part of a tick: the answer of a save is taken, then   *)
(* the form and the panel are refreshed, and a form that does not exist is *)
(* built.                                                                  *)
RefreshSmart ==
  /\ save' = (IF Answered THEN <<>> ELSE save)
  /\ reply' = (IF Answered THEN "none" ELSE reply)
  /\ form' = IF form = <<>> THEN Rebuilt(<<>>, save' # <<>>)
             ELSE <<[Refreshed(Polled[1]) EXCEPT !.locked = (save' # <<>>)]>>
  /\ touched' = (touched /\ ~(/\ Answered /\ reply = "ok" /\ save[1].by = "form"
                              /\ published.found.discovered))
  /\ lock' = (save' # <<>> \/ published.installing)
=============================================================================
