----------------------------- MODULE Interface -----------------------------
(***************************************************************************)
(* The interface of the app beside its worker: the menu bar panel and the  *)
(* Fans page, on which the user chooses how fans are cooled (Ui of         *)
(* crates/fan-app/src/ui.rs, presenter.rs, popover.rs, fans.rs), the       *)
(* smart-cooling form, the curve editor, and the timer that refreshes      *)
(* them all from the published snapshot.                                   *)
(*                                                                         *)
(* A behaviour is one session of the user: with the modes and sliders of   *)
(* the panel and the Fans page, with the control service and the modes,    *)
(* with the two surfaces of the cooling preference, with the calibration   *)
(* of the form, or with the editor.  They share the worker and the tick.   *)
(* The user's gestures are counted: the count bounds the model, and        *)
(* numbers the settings they lead to.                                      *)
(***************************************************************************)
EXTENDS SmartForm, CurveEditor

CONSTANTS
  Percents,       \* positions of the speed sliders
  Saved,          \* the configurations a session starts from, by session
  MaxGestures     \* bound of the model: the gestures of a session, by session

VARIABLES
  session,    \* one of Sessions
  gestures,   \* the gestures made
  panel,      \* the panel's speed slider, what it shows and can, and pending_speed
  page        \* the same for the cards of the Fans page, and pending_fan_speed

desk == <<panel, page>>
uiVars == <<worker, channel, smart, curve, desk, session, gestures>>

Plans == {"system", "smart", "fixed"}

Sessions == {"panel", "service", "preference", "calibration", "editor"}

FormSessions == {"preference", "calibration"}

(* What is on the disk has been saved before.                              *)
ASSUME SavedAssumption ==
  \A s \in Sessions : \A c \in Saved[s] :
    /\ IsConfig(c) /\ Measured(c.calibration)
    /\ \A f \in Fans : c.fans[f].by = <<"disk", 0>>

-----------------------------------------------------------------------------
(* presenter.rs.                                                           *)

(* percent_of_range, rpm_for_percent, rounded to whole units.              *)
Span == HardwareRange[2] - HardwareRange[1]

PercentOfRange(rpm) ==
  Lesser(Greater((200 * (rpm - HardwareRange[1]) + Span) \div (2 * Span), 0), 100)

RpmForPercent(percent) == HardwareRange[1] + (2 * Span * percent + 100) \div 200

DefaultPercent == 40

(* FanCard.fixed_percent, and custom_percent of the first fixed fan.       *)
FixedPercent(f) ==
  IF Seen(f).mode = "fixed" /\ Controllable(f) THEN PercentOfRange(Seen(f).rpm) ELSE DefaultPercent

FixedFans == { f \in Fans : Seen(f).mode = "fixed" /\ Controllable(f) }

CustomPercent ==
  IF published.found.fans /\ FixedFans # {}
    THEN FixedPercent(CHOOSE f \in FixedFans : \A g \in FixedFans : f <= g)
    ELSE DefaultPercent

(* plan, of the fans that exist now. *)
PlanOf(mode) == IF mode = "curve" THEN "fixed" ELSE mode

Plan ==
  IF ~published.found.fans THEN "system"
  ELSE IF \A f, g \in Fans : PlanOf(Seen(f).mode) = PlanOf(Seen(g).mode) THEN PlanOf(Seen(1).mode)
  ELSE "mixed"

(* controls_enabled of present. *)
ControlsEnabled(fresh) ==
  /\ fresh /\ published.ready /\ ~published.installing /\ ~published.owed
  /\ published.found.fans /\ \E f \in Fans : Controllable(f)

(* The setting of a fan for a plan or a choice: the one seen, in another   *)
(* mode.  A curve it does not have yet is the balanced one.                *)
Chosen(f, mode, percent, by) ==
  [Seen(f) EXCEPT !.mode = mode, !.by = by,
                  !.rpm = IF mode = "fixed" THEN RpmForPercent(percent) ELSE 0,
                  !.curve = IF mode = "curve" /\ @ = <<>> THEN <<BalancedCurve("demand")>> ELSE @]

(* configs_for_plan: only the system's control for a fan without a range.  *)
ConfigsForPlan(plan, percent, by) ==
  ConfigureEach({ f \in Fans : plan = "system" \/ Controllable(f) },
                [f \in Fans |-> Chosen(f, plan, percent, by)])

(* config_for_choice. *)
ConfigForChoice(f, choice, percent, by) ==
  IF published.found.fans /\ (choice = "system" \/ Controllable(f))
    THEN <<ConfigureCommand(f, Chosen(f, choice, percent, by))>>
    ELSE <<>>

(* notice: the action it offers, by what it reports first.  `hot` is a     *)
(* serious thermal pressure, `alarm` is safety_active.                     *)
NoticeCommand(fresh, hot, alarm) ==
  IF published.owed THEN <<[kind |-> "retry"]>>
  ELSE IF published.installing THEN <<>>
  ELSE IF ~fresh THEN <<[kind |-> "retry"]>>
  ELSE IF hot THEN <<>>
  ELSE IF alarm THEN <<[kind |-> "retry"]>>
  ELSE IF ~published.ready THEN <<[kind |-> "install"]>>
  ELSE <<>>

-----------------------------------------------------------------------------
(* ui.rs.                                                                  *)

Gesture(where) ==
  /\ session \in where /\ gestures < MaxGestures[session]
  /\ gestures' = gestures + 1
  /\ UNCHANGED session

Ours == UNCHANGED <<worker, reply, prompts, published, smart, curve>>

(* apply_plan: refused while control is not possible, and then a pending   *)
(* speed stays; the slider's position is used up where it is accepted.     *)
PlanCommands(plan, percent, by, fresh) ==
  IF ControlsEnabled(fresh) THEN ConfigsForPlan(plan, percent, by) ELSE <<>>

Unless(accepted, pending) == IF accepted THEN <<>> ELSE pending

ApplyPlan(plan, percent, fresh) ==
  /\ Send(PlanCommands(plan, percent, <<"panel", gestures'>>, fresh))
  /\ panel' = [panel EXCEPT !.pending = Unless(ControlsEnabled(fresh), @)]
  /\ UNCHANGED <<page>> /\ Ours

(* planChanged, with the slider where it is. *)
PlanChanged ==
  /\ Gesture({"panel", "service"}) /\ panel.enabled
  /\ \E plan \in Plans, fresh \in BOOLEAN : ApplyPlan(plan, panel.slider, fresh)

(* useSmart, a button of the smart-cooling page. *)
UseSmart ==
  /\ Gesture({"service"}) /\ published.ready /\ ~published.installing /\ ~published.owed
  /\ ApplyPlan("smart", DefaultPercent, TRUE)

(* customSpeed: the slider is there in the plan "fixed". *)
CustomSpeed ==
  /\ Gesture({"panel"}) /\ panel.enabled /\ panel.custom
  /\ \E p \in Percents :
       panel' = [panel EXCEPT !.slider = p, !.pending = <<[percent |-> p, at |-> gestures']>>]
  /\ UNCHANGED <<queue, page>> /\ Ours

(* apply_choice. *)
ChoiceCommands(f, choice, percent, by) ==
  IF published.ready /\ ~published.installing THEN ConfigForChoice(f, choice, percent, by) ELSE <<>>

(* Mutated form: the slider that is pending is kept. *)
FanChoiceBeforeSlider ==
  /\ Gesture({"panel"}) /\ page.enabled
  /\ \E f \in Fans, choice \in Modes :
       /\ choice = "system" \/ Controllable(f)
       /\ Send(ChoiceCommands(f, choice, page.slider[f], <<"page", gestures'>>))
  /\ UNCHANGED <<panel, page>> /\ Ours

(* fanChoice: whatever slider is pending, of this card or another, is      *)
(* forgotten.                                                              *)
FanChoice ==
  /\ Gesture({"panel"}) /\ page.enabled
  /\ \E f \in Fans, choice \in Modes :
       /\ choice = "system" \/ Controllable(f)
       /\ Send(ChoiceCommands(f, choice, page.slider[f], <<"page", gestures'>>))
  /\ page' = [page EXCEPT !.pending = <<>>]
  /\ UNCHANGED <<panel>> /\ Ours

(* fanSpeed: the slider of a card that shows a fixed speed. *)
FanSpeed ==
  /\ Gesture({"panel"}) /\ page.enabled
  /\ \E f \in page.fixed, p \in Percents :
       /\ Controllable(f)
       /\ page' = [page EXCEPT !.slider[f] = p,
                               !.pending = <<[fan |-> f, percent |-> p, at |-> gestures']>>]
  /\ UNCHANGED <<queue, panel>> /\ Ours

Press(where, commands) ==
  /\ Gesture(where) /\ Send(commands)
  /\ UNCHANGED desk /\ Ours

(* reset, install, retry, and uninstall after its alert. *)
PressReset     == Press({"panel", "service"}, <<[kind |-> "reset"]>>)
PressInstall   == Press({"service"}, <<[kind |-> "install"]>>)
PressRetry     == Press({"calibration"}, <<[kind |-> "retry"]>>)
PressUninstall == Press({"service"}, <<[kind |-> "uninstall"]>>)

(* noticeAction. *)
PressNotice ==
  /\ \E fresh, hot, alarm \in BOOLEAN : Press({"service"}, NoticeCommand(fresh, hot, alarm))

PreferenceGesture ==
  /\ Gesture({"preference"})
  /\ Prefer \/ SavePanelTuning \/ SavePolicy \/ Revert
  /\ UNCHANGED <<curve, desk>>

CalibrationGesture ==
  /\ Gesture({"calibration"})
  /\ Aim \/ Retype \/ Record \/ ChooseSource \/ Clear \/ SavePolicy \/ Revert
  /\ UNCHANGED <<curve, desk>>

EditorGesture ==
  /\ Gesture({"editor"})
  /\ \/ OpenEditor \/ Cancel \/ TypeRow \/ TypeHysteresis \/ AllFans \/ CurvePreset \/ ResetCurve
     \/ AddPoint \/ RemovePoint \/ SourceChoice \/ Undo \/ Grab \/ Drag \/ SaveCurve
  /\ UNCHANGED <<smart, desk>>

(* mouseUp needs no new gesture. *)
LetGo == Release /\ UNCHANGED <<smart, desk, session, gestures>>

(* The panel and the cards as a tick leaves them: a slider that is pending *)
(* keeps its place.                                                        *)
ShownPanel(pending, fresh) ==
  [pending |-> pending, enabled |-> ControlsEnabled(fresh), custom |-> Plan = "fixed",
   slider |-> IF pending = <<>> THEN CustomPercent ELSE panel.slider]

ShownPage(pending) ==
  [pending |-> pending, enabled |-> published.ready /\ ~published.installing,
   fixed |-> IF published.found.fans THEN { f \in Fans : Seen(f).mode = "fixed" } ELSE {},
   slider |-> [f \in Fans |-> IF pending # <<>> /\ pending[1].fan = f THEN page.slider[f]
                              ELSE FixedPercent(f)]]

(* refresh, every half second: sliders that have settled are applied, the  *)
(* panel's until it is accepted, and everything is shown anew.  The form   *)
(* is not followed in the sessions that do not use it.                     *)
Refresh ==
  /\ \E fresh, settled, fanSettled \in BOOLEAN :
       LET speed  == settled /\ panel.pending # <<>>
           choice == fanSettled /\ page.pending # <<>>
           keep   == IF speed THEN Unless(ControlsEnabled(fresh), panel.pending) ELSE panel.pending
       IN /\ Send((IF speed THEN PlanCommands("fixed", panel.pending[1].percent,
                                              <<"panel", panel.pending[1].at>>, fresh)
                   ELSE <<>>) \o
                  (IF choice THEN ChoiceCommands(page.pending[1].fan, "fixed", page.pending[1].percent,
                                                 <<"page", page.pending[1].at>>)
                   ELSE <<>>))
          /\ panel' = ShownPanel(keep, fresh)
          /\ page' = ShownPage(IF choice THEN <<>> ELSE page.pending)
  /\ IF session \in FormSessions THEN RefreshSmart ELSE UNCHANGED <<smart, reply>>
  /\ editor' = RefreshedEditor
  /\ UNCHANGED <<worker, prompts, published, before, session, gestures>>

-----------------------------------------------------------------------------
(* The first pass has ended.  A helper that is absent matters where the    *)
(* service is installed, hardware that is not found yet to the form, a     *)
(* range that is not valid to the plans and the editor.                    *)
UiInit ==
  /\ session \in Sessions /\ gestures = 0
  /\ \E c \in Saved[session] : Start(c)
  /\ session # "service" => helper /\ (session = "editor" <=> found.unranged # {})
  /\ session \notin FormSessions => found.discovered
  /\ session # "calibration" => found.machine
  /\ form = <<>> /\ save = <<>> /\ lock = FALSE /\ touched = FALSE
  /\ editor = <<>> /\ before = <<>>
  /\ panel = [pending |-> <<>>, enabled |-> FALSE, custom |-> FALSE, slider |-> DefaultPercent]
  /\ page = [pending |-> <<>>, enabled |-> FALSE, fixed |-> {},
             slider |-> [f \in Fans |-> DefaultPercent]]

User ==
  \/ PlanChanged \/ UseSmart \/ CustomSpeed \/ FanChoice \/ FanSpeed
  \/ PressReset \/ PressInstall \/ PressRetry \/ PressUninstall \/ PressNotice
  \/ PreferenceGesture \/ CalibrationGesture \/ EditorGesture \/ LetGo

Outside == UNCHANGED <<smart, curve, desk, session, gestures>>

(* A sample that finds nothing is told apart only by the calibration:      *)
(* elsewhere it is like one that is too old.                               *)
Work ==
  /\ Serve \/ \E outage \in {FALSE, session = "calibration"} : EndPass(outage)
  /\ Outside

(* The death of the worker matters where an answer is waited for. *)
UiNext == User \/ Refresh \/ Work \/ ((Answer \/ (session = "preference" /\ Die)) /\ Outside)

(* The timer fires and the worker's loop turns.  Nobody has to press       *)
(* anything, answer a prompt, or die.                                      *)
UiSpec == UiInit /\ [][UiNext]_uiVars /\ WF_uiVars(Refresh) /\ WF_uiVars(Work)

-----------------------------------------------------------------------------
(* Properties.                                                             *)

Count(kind) == Cardinality({ i \in DOMAIN queue : queue[i].kind = kind })

(* Install and Uninstall can wait in the channel several times over, from  *)
(* the panel, the settings and a notice: the administrator is asked once   *)
(* at a time, and the worker knows whether an answer is still to come.     *)
OneAuthorisation ==
  LET open == prompts.install + prompts.uninstall + Count("installed") + Count("uninstalled")
  IN alive => open = IF installing THEN 1 ELSE 0

(* While the control service is being removed no fan is set to a custom    *)
(* mode, whatever was still in the channel behind the command.             *)
RemovalIsClean ==
  alive /\ prompts.uninstall + Count("uninstalled") > 0
    => \A f \in Fans : config.fans[f].mode = "system"

(* The control service is changed by one hand at a time, and over fans     *)
(* that are the system's.                                                  *)
ServiceChangesAlone == OneAuthorisation /\ RemovalIsClean

(* The settings of one surface take effect in the order in which the user  *)
(* asked for them: a slider that was moved before and settles later never  *)
(* replaces what was chosen after it.                                      *)
LastWordStands ==
  [][\A f \in Fans :
       LET old == config.fans[f].by new == config'.fans[f].by
       IN old[1] = new[1] => old[2] <= new[2]]_uiVars

(* A calibration that is saved by the form consists of two points measured *)
(* on the sensor it names, with the temperatures the fields still show,    *)
(* whatever sensors came, went and were selected meanwhile.                *)
CalibrationIsMeasured ==
  \A i \in DOMAIN queue :
    queue[i].kind = "policy" => Measured(queue[i].calibration)

(* A save that was confirmed to the user is in the snapshot from which the *)
(* form is rebuilt in the same tick.                                       *)
ConfirmedIsPublished ==
  save # <<>> /\ reply = "ok" =>
    /\ published.config.bias = save[1].asked.bias
    /\ save[1].by = "form" => published.config.calibration = save[1].asked.calibration

(* The panel's preference and the form's draft are two views of one value: *)
(* when no save is on its way, a draft the user has not touched is what is *)
(* saved; and the panel's save replaces no draft other than the value it   *)
(* replaced itself.                                                        *)
PreferencesAgree ==
  [][form # <<>> /\ form' # <<>> =>
       /\ ~touched' /\ save' = <<>> /\ alive' => form'[1].bias = config'.bias
       /\ (save # <<>> /\ save' = <<>> /\ save[1].by = "panel"
           /\ form[1].bias # save[1].previous) => form'[1].bias = form[1].bias]_uiVars

(* A save does not occupy the slot for ever, even if the worker dies: the  *)
(* form and the panel can be used again.                                   *)
SaveEnds == (save # <<>>) ~> (save = <<>>)

(* A curve that reaches the worker is valid, and its points are in the     *)
(* unit of its source: no preset, undo, drag or change of the source       *)
(* reinterprets demand as degrees.                                         *)
SavedCurvesHold ==
  \A i \in DOMAIN queue :
    queue[i].kind = "configure" /\ queue[i].setting.curve # <<>> =>
      LET c == queue[i].setting.curve[1] IN ValidCurve(c) /\ c.unit = Unit(c.key)

(* What the windows send means what their fields show.                     *)
SentIsMeant == CalibrationIsMeasured /\ SavedCurvesHold

(* The step Undo goes back to is what the window showed when that step was *)
(* recorded (what it was built for, where a field held no number): a       *)
(* preset, a drag or a removed point loses nothing that had been typed,    *)
(* even with the stack full.                                               *)
UndoRestores ==
  before # <<>> => editor[1].undo # <<>> /\ Shown(Last(editor[1].undo)) = before[1]
=============================================================================
