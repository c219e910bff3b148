------------------------------ MODULE Settings ------------------------------
(***************************************************************************)
(* The settings of the app as its two threads share them: the commands the *)
(* interface sends (WorkerCommand of crates/fan-app/src/worker.rs), the    *)
(* configuration the worker makes of them, the copy of it that the worker  *)
(* publishes at the end of a pass (UiSnapshot) and the interface reads,    *)
(* and the installer that runs beside both.                                *)
(*                                                                         *)
(* What the worker does to the fans is in Worker and FanController, what a *)
(* save does to the disk in ConfigStore: here a save succeeds or fails, a  *)
(* hand-back is owed or not, and sampling finds a set of sensors.  Export, *)
(* Sleep, Wake, Shutdown and Visibility change nothing of this state.      *)
(***************************************************************************)
EXTENDS Integers, Sequences, FiniteSets

CONSTANTS
  Fans,       \* the fans of the machine, 1 .. n in the order the SMC lists them
  HardwareRange, \* <<lowest, highest>> speed of a fan, in RPM, where it is valid
  Unranged,   \* for which fans it may be invalid, a set of sets
  Sensors,    \* the sensors of the body, in the order of their keys
  Balanced,   \* the points of Curve::balanced, for the units "demand" and "celsius"
  Keys        \* what a curve can follow: "demand" and some temperatures

ASSUME SettingsAssumption ==
  /\ IsFiniteSet(Fans) /\ Fans = 1 .. Cardinality(Fans) /\ Unranged \subseteq SUBSET Fans
  /\ HardwareRange \in (Nat \X Nat) /\ 0 < HardwareRange[1] /\ HardwareRange[1] < HardwareRange[2]
  /\ "demand" \in Keys
  /\ DOMAIN Balanced = {"demand", "celsius"}
  /\ Sensors \in Seq({ Sensors[i] : i \in DOMAIN Sensors })

VARIABLES
  \* the worker
  alive,       \* its thread runs
  busy,        \* it is in a pass whose snapshot is not published yet
  config,      \* the configuration of its controller
  installing,  \* installing
  ready,       \* the helper answered the last handshake
  owed,        \* handback.active
  found,       \* discovered, machine_id, whether its snapshot lists the fans, and
               \* those whose range is invalid
  helper,      \* the helper is installed
  \* between the threads
  queue,       \* the channel of WorkerCommand
  reply,       \* the channel on which one save is answered
  prompts,     \* the threads that wait for an administrator, by what they do
  published    \* UiSnapshot

worker  == <<alive, busy, config, installing, ready, owed, found, helper>>
channel == <<queue, reply, prompts, published>>

Modes == {"system", "smart", "fixed", "curve"}

-----------------------------------------------------------------------------
(* Curves and the configuration of a fan.                                  *)

Unit(key) == IF key = "demand" THEN "demand" ELSE "celsius"

InputMaximum(key) == IF key = "demand" THEN 100 ELSE 120

(* Curve::balanced.  `unit` is what the inputs of the points were chosen   *)
(* in, which the code never writes down.                                   *)
BalancedCurve(key) ==
  [key |-> key, points |-> Balanced[Unit(key)], hysteresis |-> IF key = "demand" THEN 8 ELSE 4,
   unit |-> Unit(key)]

(* Curve::validate: finite numbers, each input once.  The editor reads a   *)
(* field that is no number as an error before this.                        *)
ValidCurve(c) ==
  /\ Len(c.points) \in 2 .. 64 /\ c.hysteresis \in 0 .. 30
  /\ \A i \in DOMAIN c.points :
       /\ c.points[i][1] \in 0 .. InputMaximum(c.key) /\ c.points[i][2] \in -20 .. 100
       /\ \A j \in DOMAIN c.points : c.points[i][1] = c.points[j][1] => i = j

(* The balanced curves are valid.                                          *)
ASSUME BalancedAssumption == \A key \in Keys : ValidCurve(BalancedCurve(key))

(* A fan's setting: its mode, the speed of "fixed", and the curve it keeps *)
(* in every mode (<<>> before it has one).  `by` says which gesture of the *)
(* user it comes from and on which surface.                                *)
Automatic == [mode |-> "system", rpm |-> 0, curve |-> <<>>, by |-> <<"disk", 0>>]

ValidSetting(s) ==
  /\ s.curve # <<>> => ValidCurve(s.curve[1])
  /\ s.mode = "fixed" => s.rpm \in 1 .. 16383
  /\ s.mode = "curve" => s.curve # <<>>

(* Curves, settings and configurations as they are where they have been    *)
(* saved: the curves are valid, in the unit of their source.               *)
HasFields(r, fields) == r = [x \in fields |-> r[x]]

IsCurve(c) == HasFields(c, {"key", "points", "hysteresis", "unit"}) /\ c.unit = Unit(c.key)

IsSetting(s) ==
  /\ HasFields(s, {"mode", "rpm", "curve", "by"})
  /\ s.curve # <<>> => s.curve = <<s.curve[1]>> /\ IsCurve(s.curve[1])

IsSaved(s) == IsSetting(s) /\ (s.curve # <<>> => ValidCurve(s.curve[1]))

IsConfig(c) ==
  /\ HasFields(c, {"fans", "bias", "target", "calibration"})
  /\ HasFields(c.fans, Fans) /\ \A f \in Fans : IsSaved(c.fans[f])

(* The command for one fan, and those for some, in the order of the fans.  *)
ConfigureCommand(f, setting) == [kind |-> "configure", fan |-> f, setting |-> setting]

InOrder(fans) ==
  CHOOSE s \in [1 .. Cardinality(fans) -> fans] : \A i, j \in DOMAIN s : i < j => s[i] < s[j]

ConfigureEach(fans, settings) ==
  LET s == InOrder(fans) IN [i \in DOMAIN s |-> ConfigureCommand(s[i], settings[s[i]])]

-----------------------------------------------------------------------------
(* The worker.                                                             *)

Nobody == [install |-> 0, uninstall |-> 0]

(* The end of the first pass: the configuration is loaded and published,   *)
(* and the hardware has been found or not.                                 *)
Start(saved) ==
  /\ alive = TRUE /\ busy = FALSE /\ config = saved /\ installing = FALSE
  /\ helper \in BOOLEAN /\ ready = helper /\ owed = FALSE
  /\ found \in [discovered : BOOLEAN, machine : BOOLEAN, fans : BOOLEAN, unranged : Unranged]
  /\ found.fans = found.discovered
  /\ queue = <<>> /\ reply = "none" /\ prompts = Nobody
  /\ published = [config |-> config, installing |-> installing, ready |-> ready, owed |-> owed,
                  found |-> found]

(* Worker::send; to a worker that is gone, an error.                       *)
Send(commands) == queue' = IF alive THEN queue \o commands ELSE queue

Take(kind) ==
  /\ alive /\ ~busy /\ queue # <<>> /\ Head(queue).kind = kind
  /\ queue' = Tail(queue)

(* configure: the automatic mode is in force even if it cannot be saved.   *)
Configured(c, saved) ==
  IF ValidSetting(c.setting) /\ (saved \/ c.setting.mode = "system")
    THEN [config EXCEPT !.fans[c.fan] = c.setting]
    ELSE config

(* Mutated form: `installing` is not looked at. *)
ConfigureAnyTime ==
  /\ Take("configure")
  /\ \E saved \in BOOLEAN : config' = Configured(Head(queue), saved) /\ busy' = TRUE
  /\ UNCHANGED <<alive, installing, ready, owed, found, helper, reply, prompts, published>>

Configure ==
  /\ Take("configure")
  /\ LET c == Head(queue)
     IN IF installing /\ c.setting.mode # "system"
          THEN UNCHANGED <<config, busy>>      \* continue: nothing is published
          ELSE \E saved \in BOOLEAN : config' = Configured(c, saved) /\ busy' = TRUE
  /\ UNCHANGED <<alive, installing, ready, owed, found, helper, reply, prompts, published>>

(* ConfigurePolicy and ConfigureTuning, through configure_smart: what is   *)
(* accepted is published before it is acknowledged.                        *)
Smart(c) ==
  IF c.kind = "tuning" THEN [config EXCEPT !.bias = c.bias]
  ELSE [config EXCEPT !.bias = c.bias, !.target = c.target, !.calibration = c.calibration]

Acknowledge(ok) == reply' = IF ok THEN "ok" ELSE "error"

(* Mutated form: the snapshot waits for the end of the pass. *)
ConfigureSmartUnpublished ==
  /\ Take("policy") \/ Take("tuning")
  /\ \E saved \in BOOLEAN :
       /\ installing => ~saved
       /\ config' = IF saved THEN Smart(Head(queue)) ELSE config
       /\ Acknowledge(saved)
  /\ busy' = TRUE
  /\ UNCHANGED <<alive, installing, ready, owed, found, helper, prompts, published>>

ConfigureSmart ==
  /\ Take("policy") \/ Take("tuning")
  /\ \E saved \in BOOLEAN :
       /\ installing => ~saved
       /\ config' = IF saved THEN Smart(Head(queue)) ELSE config
       /\ published' = [published EXCEPT !.config = config']
       /\ Acknowledge(saved)
  /\ busy' = TRUE
  /\ UNCHANGED <<alive, installing, ready, owed, found, helper, prompts>>

Returned == [config EXCEPT !.fans = [f \in Fans |-> [@[f] EXCEPT !.mode = "system"]]]

(* reset_configuration: in force whether it can be saved or not.           *)
Reset ==
  /\ Take("reset")
  /\ config' = Returned /\ owed' = TRUE /\ busy' = TRUE
  /\ UNCHANGED <<alive, installing, ready, found, helper, reply, prompts, published>>

(* reset_all is asked for at once, and may be confirmed at once.           *)
ServeUninstall ==
  /\ Take("uninstall") /\ busy' = TRUE
  /\ IF installing THEN UNCHANGED <<config, owed, installing, prompts>>
     ELSE /\ config' = Returned /\ owed' \in BOOLEAN /\ installing' = TRUE
          /\ prompts' = [prompts EXCEPT !.uninstall = @ + 1]
  /\ UNCHANGED <<alive, ready, found, helper, reply, published>>

ServeInstall ==
  /\ Take("install") /\ busy' = TRUE
  /\ IF installing THEN UNCHANGED <<installing, prompts>>
     ELSE installing' = TRUE /\ prompts' = [prompts EXCEPT !.install = @ + 1]
  /\ UNCHANGED <<alive, config, ready, owed, found, helper, reply, published>>

Installed ==
  /\ Take("installed") /\ busy' = TRUE /\ installing' = FALSE
  /\ UNCHANGED <<alive, config, ready, owed, found, helper, reply, prompts, published>>

Uninstalled ==
  /\ Take("uninstalled") /\ busy' = TRUE /\ installing' = FALSE /\ ready' = FALSE
  /\ UNCHANGED <<alive, config, owed, found, helper, reply, prompts, published>>

(* Retry: the SMC is opened again and discovered at the next sample; an    *)
(* identity that could not be read is read again.                          *)
Retry ==
  /\ Take("retry") /\ busy' = TRUE
  /\ \E machine \in BOOLEAN :
       found' = [found EXCEPT !.discovered = FALSE, !.machine = @ \/ machine]
  /\ UNCHANGED <<alive, config, installing, ready, owed, helper, reply, prompts, published>>

(* What a sample finds: the fans and the sensors, which it discovers first *)
(* if that is not done, or nothing.                                        *)
Sampled(outage) ==
  IF outage THEN [found EXCEPT !.fans = FALSE]
  ELSE [found EXCEPT !.discovered = TRUE, !.fans = TRUE]

(* The rest of a pass, after a command or for want of one: a sample shakes *)
(* hands, a hand-back that is owed is tried, and the snapshot is published.*)
EndPass(outage) ==
  /\ alive /\ (busy \/ queue = <<>>)
  /\ busy' = FALSE
  /\ ready' = helper /\ found' = Sampled(outage)
  /\ \E confirmed \in BOOLEAN : owed' = (owed /\ ~confirmed)
  /\ published' = [config |-> config, installing |-> installing, ready |-> ready',
                   owed |-> owed', found |-> found']
  /\ UNCHANGED <<alive, config, installing, helper, queue, reply, prompts>>

(* A panic of the worker: its channel and the replies in it are dropped.   *)
Die ==
  /\ alive /\ alive' = FALSE /\ queue' = <<>>
  /\ reply' = IF reply = "waiting" THEN "closed" ELSE reply
  /\ UNCHANGED <<busy, config, installing, ready, owed, found, helper, prompts, published>>

(* The administrator answers: the helper is installed or removed, or not,  *)
(* and the thread tells the worker.                                        *)
Answer ==
  \E what \in {"install", "uninstall"}, ok \in BOOLEAN :
    /\ prompts[what] > 0
    /\ prompts' = [prompts EXCEPT ![what] = @ - 1]
    /\ helper' = IF ok THEN what = "install" ELSE helper
    /\ Send(<<[kind |-> IF what = "install" THEN "installed" ELSE "uninstalled"]>>)
    /\ UNCHANGED <<alive, busy, config, installing, ready, owed, found, reply, published>>

Serve ==
  \/ Configure \/ ConfigureSmart \/ Reset
  \/ ServeUninstall \/ ServeInstall \/ Uninstalled \/ Installed \/ Retry
=============================================================================
