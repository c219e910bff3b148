# A TLA+ development of Fan Control

This directory specifies, model-checks and partly proves the control logic of
the Rust application under `crates/`: a macOS menu-bar program that drives the
fans of a Mac from user settings, and a root helper that is the only process
allowed to write fan registers. Names in the modules follow the source;
`PROJECT.json` maps each definition to the lines it stands for.

The danger the code works against is a fan left in *forced* mode with nobody
watching: at a stale speed, while the machine heats up. Everything below is
about who may force a fan, who gives it back, and what happens when a write, a
reply, a process or the machine itself goes away half-way.

## 1. Inventory

| Component | State | Operations | Hard behaviour |
|---|---|---|---|
| **Helper engine** `fan-platform/src/helper.rs` (`Engine`, `serve_session`, `run_helper`) | lease (owner, renewal time), `pending_handback`, `sleeping`, `SHUTDOWN` | Status, Heartbeat, SetFanMode, SetFanRPM, ResetAll; watchdog tick; sleep/wake callback; start, shutdown | three threads and a mutex; a write takes seconds, during which its peer may end, lose the console or be cancelled; every SMC operation may fail half-way; crash and restart |
| **SMC driver** `fan-platform/src/smc.rs` | mode, target and `Ftst` registers (firmware's), caches `forced`, `known_fans`, `unlock_attempts` | set_fan_rpm, set_fan_mode, automatic, reset_all, unlock | verified writes against firmware that delays, refuses or undoes them; cancellation between retries; unlock cool-down |
| **Controller** `fan-core/src/controller.rs` | per fan: desired and applied speed, pending action, failure and residence timers, generation | update, acknowledge, defer, set_fan_config, prepare_for_sleep, shutdown, resume | acknowledgements of actions that were overtaken; retry limits; emergencies against pacing; stale inputs |
| **Speed policies** `fan-core/src/{config,policy,model}.rs` | per fan: last input, direction, last speed, release flag | interpolate, hysteresis, safety floors, percent to RPM, ramp, throttle | rounding, bounds, hysteresis against slow changes, emergencies against ramps |
| **Estimators** `fan-core/src/{thermal,adaptive,tuning}.rs` | filtered temperatures, confirmation timers, heat soak | update on a sample, reset | missing sensors, gaps between samples, reseeding |
| **Worker** `fan-app/src/worker.rs` (`run`, `Handback`) | hand-back barrier, hold, readiness, paused | UI commands, sampling, heartbeat, retry, sleep/wake, shutdown | replies lost or late; batches abandoned in the middle; sleep against a running sample |
| **Configuration store** `fan-app/src/worker.rs` (`Persistence`, `save_config_at`) and `storage.rs` | config file, recovery marker, backups, pending flags | load, save, retry, backup | a crash between any two file operations; unreadable originals |
| **Configuration decoding** `fan-core/src/config.rs` (`from_json`) | none | decode, repair, encode | files of three formats, edited by hand: what is damaged must not drive a fan, nor cost the rest |
| **Helper client** `fan-platform/src/helper.rs` (`HelperClient`) | none between requests | connect, negotiate, command, give up | a helper of another version answers, or the helper is replaced between the negotiation and the command; a caller that gives up leaves its connection, and perhaps a command, in the helper |
| **Installer** `fan-platform/src/install.rs` | helper on disk and in launchd | install and uninstall scripts, the workflow around them | a failure or a restart between any two commands; launchd acts at any time; a hand-back before the removal |
| **Power monitor** `fan-platform/src/power.rs` | notices not yet delivered | deliver, call back, acknowledge | the kernel's time limit; a panic in the callback; notices that queue up behind a slow hand-back |
| **Interface** `fan-app/src/{ui,popover,fans,presenter}.rs` | sliders that have not settled, which page is shown | plans, choices, sliders, service buttons, the half-second refresh | decides on a published snapshot that is older than its own commands; several surfaces for one setting |
| **Smart-cooling form** `fan-app/src/policy.rs` | draft, recorded points, the save in flight | edit, record, save, poll, rebuild | answers that arrive while another draft is edited; sensors relisted under a measurement |
| **Curve editor** `fan-app/src/{ui,chart}.rs` | draft rows, undo stack, drag | type, drag, presets, sources, undo, save | a bounded undo over drafts that need not parse; a change of unit |
| Widgets, updater, localisation, trace log, license bundling, Swift legacy | view state | rendering, packaging | none that a model checker would reach |

The user interface sends commands to the worker's queue and renders what it
publishes. The worker samples sensors, lets the controller decide, sends the
helper one request per connection, and acknowledges each reply to the
controller. The helper executes requests one connection at a time under the
engine's mutex, which its watchdog and power callback share, and calls the SMC
driver. The installer runs beside the worker, in threads of its own, and what it
does to the helper reaches the worker only as the answers of its next request.

What has to be true of each part, in a word:

- *helper engine*: a forced fan always has somebody who will return it; control
  passes from one process to another only through "every fan automatic"; sleep,
  death, silence and logout all end in a hand-back;
- *SMC driver*: what it answers of the modes is true, whatever failed on the way;
- *power monitor*: the machine is allowed to sleep only with the fans returned or
  the hand-back owed, and a machine that is awake is not taken for one that sleeps;
- *controller*: a failed write is followed by a hand-back before the next custom
  write; only the answer that is still wanted is believed; residences and rate
  limits hold; an emergency is not weakened by pacing;
- *speed policies*: the speed covers the input, bounds hold after rounding, and
  a steady input ends in a steady, exact target;
- *estimators*: a reading that authorizes custom control is recent and made under
  the policy in force; sustained evidence was gathered without a gap; heat is never
  averaged, filtered or traded away;
- *worker*: after an uncertain write nothing is driven until a complete reset was
  confirmed; the app sleeps, quits and uninstalls only with its fans returned or
  the hand-back owed, and what is owed gets done;
- *configuration store*: no configuration is resumed that was never confirmed as
  saved, and nothing of somebody else's is overwritten without a durable copy;
- *decoding*: a repair never drives a fan and is made once;
- *installer and client*: launchd never finds a broken helper, only a helper of
  the app's own version is commanded, and removal leaves no fan forced; a call is
  answered for itself, and never past one that was given up;
- *interface*: the user's last word stands, two views of one value agree, what is
  saved is what was shown, and no control stays locked for ever.

The full list of components, with what is left out of each, and of the hazards
these properties are for, each at its line, is in `PROJECT.json`.

## 2. Modules

| Module | Models | Composes / implements |
|---|---|---|
| `FanCustody` | what the helper promises of its fans, in four actions | abstract |
| `HelperEngine` | the privileged helper: three threads, its life, its environment | implements `FanCustody` (`CustodyKept`) |
| `CallContract` | what a caller of the helper may rely on | abstract |
| `HelperCalls` | connections of several callers to the serial accept loop, frame by frame | implements `CallContract` (`CallsAreOrdered`) |
| `HelperEngine_proofs` | theorems about both | extends `HelperEngine`, `HelperCalls`, TLAPS |
| `SmcContract` | what the helper assumes of the driver | abstract |
| `SmcTransport` | what a call of the kernel driver comes to: a value, absence or an error | used by `Smc` |
| `Smc` | the SMC driver, one action per register access that matters | implements `SmcContract` (`ContractKept`) |
| `PowerMonitor` | the power thread of the helper, the kernel and the callback, step by step | composes with `Smc` |
| `SmcValues` | encodings of registers, limits of a target, in numbers | - |
| `FanBounds` | the limits the app puts on its commands, against those of `SmcValues` | extends `SmcValues` |
| `Smc_proofs` | theorems about the driver, its values and the power thread | extends `PowerMonitor`, `FanBounds`, TLAPS |
| `FanController` | the controller of one fan, with levels for numbers | - |
| `FanResidence` | the history the 90 s and 180 s residences are about | extends `FanController` |
| `FanController_proofs` | theorems about both | extends `FanResidence`, TLAPS |
| `FanSpeed` | the speed of a fan that follows a curve, in numbers | - |
| `FanSpeed_proofs` | theorems about it | extends `FanSpeed`, TLAPS |
| `Telemetry` | from sensors and the load counter through the worker's sample to the two estimators | - |
| `Telemetry_proofs` | theorems about it | extends `Telemetry`, TLAPS |
| `Worker` | the control thread, its barrier, the helper as it sees it, the installer | - |
| `Worker_proofs` | theorems about it | extends `Worker`, TLAPS |
| `ConfigStore` | the saved configuration, file by file and step by step, and the instance lock | - |
| `ConfigDecoding` | what is made of a stored document | - |
| `ConfigStore_proofs` | theorems about both, for every document and every save | extends `ConfigStore`, `ConfigDecoding`, TLAPS |
| `Settings` | the settings as worker and interface share them: commands, snapshots, prompts | - |
| `SmartForm` | the smart-cooling form and the panel's preference | extends `Settings` |
| `CurveEditor` | the curve editor, its chart and its undo | extends `Settings` |
| `Interface` | the panel, the Fans page and the timer, with everything above | extends `SmartForm`, `CurveEditor` |
| `Installation` | both installer scripts, launchd, helpers of several versions, the client's negotiation | - |
| `Interface_proofs` | theorems about the interface and about the installer | extends `Interface`, `Installation`, TLAPS |
| `MC*` | small instances for TLC | - |

The joints between the models are stated, not assumed away. `HelperEngine` lets
a driver operation leave behind exactly what `SmcContract` allows, and `Smc`
is checked against that contract. `Worker` lets a request be confirmed, refused,
lost, or executed after its client has given up, but then before any other: that is
`CallContract`, which `HelperCalls` is checked and proved to implement. It lets fans return to automatic at any time,
as the lease and the firmware make them. `FanController` is executed by an
`Execute` action that follows the worker's rules for batches, and `Worker`
keeps of the controller what its barrier depends on: which actions are pending,
which configuration is in force. `FanController` takes any demand and any input
that may be missing, which covers what `Telemetry` can deliver. `Smc` says that a
target it has written lies within the live bounds, which `SmcValues` computes and
proves. `Settings` keeps of the worker what the interface can tell: whether a save
succeeded, whether a hand-back is owed, what the last pass published.

### How state and actions correspond to the code

**`HelperEngine`.** `owner`, `age`, `pending`, `sleeping` are the fields of
`Engine` (`lease`, `pending_handback`, `sleeping`); `forced` is the SMC's;
`stage`, `client`, `negotiated`, `request`, `target`, `outcome` are the stack of
`serve_session` and `handle`, split where another thread can run or the world
can change: after the frame is read, when the mutex is held, after
`expire_lease`, after the lease is taken, after the fan is forced, and while the
response is written without the mutex. `Watchdog`, `WillSleep`, `Wake` need the
mutex (`~Locked`), as in the source. `authorized` is what `authorized_peer` would
say: it changes at any moment. A custom write may force its fan and fail, or
fail first; a hand-back that fails leaves any set of fans forced. `Crash` forgets
everything but the registers.

**`HelperCalls`.** `phase` and `socket` are the position of each caller in
`HelperClient::send` and its stream; `backlog`, `serving`, `hailed` the listener's queue, the
connection in `serve_session` and its `negotiated`. Frames are sets of connections that hold
one: an unread command (`orders`), an unread compatible answer to Status (`greetings`), an
unread positive answer to a command (`answers`); the client leaves on any other answer, at
its deadline and on any error alike (`GiveUp`). The connection it leaves is not removed
from the backlog or from service, and a connection is used again only when neither side has
it. The backlog is a set, because nothing that is shown depends on its order. `executed`
is history. To `CallContract` a call is done once its own Status or command has been
executed, and a stray is a command in the helper that no caller waits for; in `Worker`,
where a call is one step (that of its execution), `late` is the stray.

**`Smc`.** The mode registers (`mode`), the test register `test`, targets outside their
live range (`unsafe`); the driver's caches `forced`, `known`, `cooling`; and the
position of one operation (`op`, `fan`, `at`, `todo`, `errors`). Every transport call
may fail, every wait may be cancelled, and the firmware may take a fan or change
the target of an automatic one between any two accesses. What the driver learns of
the test register is what `SmcTransport` lets it learn: a register that exists may
be unreadable, and only the answer "not found" to a key-info request is absence.
Two quirks of models are constants: no test register (`"testless"`), and firmware
that forces fans when it is released (`"reforces"`).

**`PowerMonitor`.** The notices of the kernel are a queue; `monitor` is the position of
the thread: not registered, idle, in the callback, acknowledging. The callback's
hand-back is the operation `resetAll` of `Smc`, step by step, and the steps of the
kernel (announce a sleep, lose patience after 30 s, wake) interleave with it. The
hand-back at the start of the daemon is an owed one (`owed`), before the monitor is
registered. A panic may end the callback anywhere. The question whether the machine
may sleep is always answered yes in the code and is left out.

**`FanController`.** One fan's `Runtime`; times are ages in ticks, saturating at the
longest limit that reads them. `Update` is one pass of `Controller::update` over the
fan, divided by the sample it sees (`UpdateStale`, `UpdateUnreadable`,
`UpdateBlind`, `UpdateManual`, `UpdateCurve`, `UpdateAdaptive`, ...), each ending in
`Pursue`, the common tail from the goal to the emitted action. `held` holds the
actions the host was given, so that answers may come for actions that were
overtaken. Speeds are levels between the fan's bounds; emergencies have floors.

**`FanSpeed`.** The same path for a curve, in integers that keep the ratios of the
source: interpolation, hysteresis, floors, `percent_rpm` with its rounding, ramps,
clamping, the throttle. Here every write succeeds.

**`Worker`.** One action per message of the channel, then the turn of the loop:
sample, run the batch action by action, heartbeat, due hand-back (`at` is the
program counter). The barrier is `Handback` (`debt`, `active`, `later`, `hold`), and
`late` is the one request that may still land after its client gave up.

**`Telemetry`.** A turn of the worker is one action: refresh of the sensors (each
reading succeeds or fails), the load with its gap rule, the age of the sample, and
both estimators with their resets. Temperatures and times are on a coarse grid; a
low-pass filter may end anywhere between its estimate and its input, so that
nothing is shown that depends on a filter's constant. Averages, plausibility,
confirmation, heat soak, the calibration of surfaces and the preference are
computed as the code computes them. `warmest`, `absent`, `proof`, `last` are history.

**`ConfigStore`.** The files by whose contents they hold; what is durable by the sets
of contents a power failure may leave (`mayKeep`, `mayMark`); and `step`, the position
in `save`. Any step may fail, the process or the machine may stop before any step,
and another program may replace the file at any time. A copy of the app starts only
while the lock of the instance is free (`LockIsFree`), which any end of a process
makes it.

**`ConfigDecoding`.** Documents are classes of values: in each place something absent,
something of a wrong type, something valid, or one of the ways it can be invalid.
`Config` is the result of `from_json`, `Encoded` that of `to_json`. There is no state;
`MCConfigStore` evaluates the functions on its documents and the theorems hold for
documents of any length.

**`Settings`.** `config` is the worker's configuration, `published` the copy in the shared
`UiSnapshot`, `queue` the channel of `WorkerCommand`, one action per message, then
`EndPass` with the sample and the publication. `reply` is the one-shot channel on
which a policy save is answered; `prompts` counts the threads that wait for an
administrator. `by` of a setting is history: from which surface and gesture it came.

**`SmartForm`, `CurveEditor`, `Interface`.** One action per method of the delegate that
changes state; each decides on `published`, as the code does, and sends commands.
`Refresh` is the half-second timer: it polls the save, applies the sliders that
have settled, and shows everything anew. Texts are the numbers they parse to, or
`Junk`. A behaviour is one *session* of a user (modes and sliders; the control
service and modes; the two surfaces of the preference; the calibration; the curve
editor); the sessions share the worker, the timer and the snapshot, and a gesture
of one session is not in another.

**`Installation`.** `step` is the next command of the script that runs; each may fail, and
the machine may restart before it. `tool`, `staged`, `plist`, `runtime`, `sockets` are
what is on the disk, `service` and `daemon` what launchd knows and runs; `Wait` looks
`Attempts` times whether the old daemon has stopped. `call` and `reached` are a request
of `HelperClient`: connection, negotiation, command, or given up while the helper
still executes it. One job runs at a time, the app's own or an installation by
another copy of the app, older or newer; legacy helpers are only found at the start.
Files of another kind in the place of a socket are left to `Fail`.

## 3. Runs, and why their bounds are enough

| Run | Module | Distinct states | What it shows |
|---|---|---|---|
| `helper_engine` | `MCHelperEngine` | 69,506 | forced fans are accounted for, awake and asleep, refinement of `FanCustody`, leases are exclusive and end, orphans are recovered; and refinement of `CallContract`: each caller is answered for its own call, none past a stray one |
| `controller` | `MCFanController` | 665,082 | answers in any order: a failure is handed back before the next custom write, only the current answer counts, an emergency is never sent below its floor, low demand does not repeat hand-backs |
| `controller_residence` | `MCFanResidence` | 82,124 | the residences after stops and starts; an automatic configuration and a failure both end with the fan returned |
| `controller_panic` | `MCFanController` | violation | finding 1 |
| `smc` | `MCSmc` | 2,943,496 | refinement of `SmcContract`, what a confirmation says of the registers, sleep by notice; and the values of registers and targets around their limits |
| `worker` | `MCWorker` | 574,380 | the hand-back barrier, its liveness, sleep, quit and uninstallation |
| `config_store` | `MCConfigStore` | 475,126 | no unconfirmed configuration resumes, no foreign file is lost, what the user chose is on the disk or still to be saved; and the decoding of all documents of one fan |
| `fan_speed` | `MCFanSpeed` | 13,421 | speed covers a steady input, emergencies are obeyed and released slowly, settling |
| `fan_speed_creep` | `MCFanSpeed` | violation | finding 2 |
| `telemetry` | `MCTelemetry` | 35,112 | evidence and readings are of the present, heat is heard |
| `interface` | `MCInterface` | 557,169 | the last word stands, drafts and saved values agree, undo restores, saves end |
| `installation` | `MCInstallation` | 23,135 | a whole helper at every moment, only the app's version commanded, removal over returned fans, jobs end |

**Peers and fans.** Two peers are needed for a hand-over and no property relates
three. Two fans are needed for a hand-back that half succeeds and for a batch
abandoned in the middle. The fans of one controller share only the estimators,
which `FanController` leaves free, so it has one fan. The interface has two fans, of
which one may have no valid range: the least at which a plan is "mixed", or reaches
only a part of the fans.

**Callers and connections.** Two callers, because a stray is one's and the call it must not
be overtaken by another's, or the same one's next; three connections, so that each caller can
begin a call while a connection it left is still in the helper. Without a free connection
a caller waits, as it does for descriptors. `HelperCalls` and `HelperEngine` share no
state, so `MCHelperEngine` has behaviours of either (51,584 states of the engine, 17,922 of
the calls), not their product.

**Time.** Each limit is a number of ticks, and each age stops at the longest limit
that reads it, so nothing is cut off by a horizon. What counts is the order in
which limits run out: a limit of 0 makes "elapsed" hold at once, a limit of 1
makes both answers reachable. `MCHelperEngine` has a lease of two ticks, so that a
renewed, an ageing and an expired lease differ. The controller's limits are set
to 0 where a run is not about them, which makes their branches always
taken; the branch they guard is then taken in every order. The limits of
`MCTelemetry` keep the order of the source's, not their ratios (confirmation 4 s and
longest integrated step 5 s are 2, the age of a sample 15 s is 3, the hold of a
missing input 30 s and the load's gap 60 s are 4): a step of 2 is an ordinary turn, a
step of 4 outlives a sample and reaches the hold.

**The controller's three configurations.** Each mode drives timers of its own and
their product is out of reach. `controller` has every mode, a fan
that never stops, and two action ids, the least at which an answer to an
overtaken action can arrive while another is pending; the tachometer reads one
level, which agrees with one target and deviates from the other. Ids are only compared with each other, and the run checks
no liveness, so their symmetry is sound. Elsewhere one id
is reused as soon as nothing holds it. `controller_residence` has the curve, a fan
that may stop, and the limits of both residences, under fairness.

**Speeds.** `FanController` has levels: two RPM (three when the fan may be stopped)
and the readings at and beyond them; floors, steps and margins are in levels.
`FanSpeed` has the numbers. A degree there is half a degree of the source, a
percentage ten per cent, an RPM a tenth of the range, and the orders the code
relies on are kept: the hysteresis exceeds the dead band, the release is slower
than the fall, the fall slower than the rise, the fine step less than the write
step. The assumptions of the module are the curve's (`validate` enforces that it is
monotone) and the ranges of the constants. One assumption belongs to the run and
stands in `MCFanSpeed`: in `WriteInterval` a fan can ramp through its whole range,
which makes the cut-off of the age of a write exact. With other constants (350 RPM/s
for 5 s is less than the range of a real fan) an ordinary ramp after a longer pause
would be slower in the model than in the code. The theorems do not need this
assumption: an emergency skips the ramp upwards, and the falls they bound are the
protected ones, which take `ReleaseRate` and the time since the last sample.

**Sensors.** One firmware mean of the processor and one sensor of the body, at
readings on both sides of each threshold that compares them, and each missing; a
filter stands at one of two levels, the least at which it can lag behind its input
in both directions.

**Notices.** `MaxNotices = 2`: a sleep whose notices are still queued when the next
one is announced. A third adds only more of the same in the queue.

**Configuration.** Two fans with one custom setting distinguish "in force" from
"saved" fan by fan; two foreign contents are the least at which one is backed up
while another is in the file. Fans and contents are interchangeable, and the run
checks no liveness, so the symmetry is sound.

**The user.** `MaxGestures` bounds each session: three gestures are needed for a slider
that is overtaken by another choice and then settles; the form needs five for an edit, a
save, an edit, a save from the panel and another edit; a calibration four. The
editor has four rows at most and two steps of undo (12 and 50 in the code), so that
both limits are reached. Presets have three points. A slider has one position
besides that which is shown.

**Versions.** One legacy helper, one older, one newer, and the app's own; a script
looks twice for the end of the old daemon, which may come before the first look, between
them, or never.

**Deadlock** is checked in every run.

## 4. Fairness, and why the code justifies it

- **`HelperEngine`.** `WF(Serve)`, `WF(Exit)`: the accept thread is scheduled, its
  socket has a read and a write timeout (a session whose peer is silent is
  dropped), and a signal ends its loop. `SF(Watchdog /\ HandBackOk)`: the watchdog
  thread wakes every second and takes the mutex again and again, which no
  session holds for ever, and a hand-back tried without end succeeds at some time.
  `SF(Start /\ running')`: launchd restarts the daemon (`KeepAlive`). Peers, power
  events, signals and crashes owe nothing. The liveness properties say what
  follows *if* crashes and sleeps leave the daemon time; a daemon that crashes
  before each hand-back is excluded by strong fairness only.
- **`FanController`.** `WF(Update)`, `WF(Tick)`: the worker samples in every turn of
  its loop. `WF(Execute)`: each action that was handed out is executed or failed,
  because a request has a timeout. `SF(Succeed)`: a helper asked again and again
  for what is still wanted succeeds at some time.
- **`Worker`.** `WF(Loop)`: the loop's `recv_timeout` returns without a command.
  `WF(RetryTime)`, `WF(FinishLate)`: time passes, and a request in the helper ends.
  `[]<>Asks => []<>(Asks confirmed)`: a reset that is asked of an installed helper
  again and again is confirmed at some time. No fairness for commands, the
  installer or the return of fans.
- **`FanSpeed`.** `WF(SampleAgain)`: samples keep coming (for `SteadyInputSettles`).
- **`Interface`.** `WF(Refresh)`: the timer fires every half second. `WF(Work)`: the
  worker's loop turns while its thread lives, and a dead thread closes the reply.
  Nobody has to press anything or to answer an administrator's prompt.
- **`Installation`.** `WF(Script)`: the shell executes the next command. The password dialog
  (`Authorize`), the helper, launchd and the end of the old daemon owe nothing;
  that jobs end although the daemon may never stop is what `Attempts` is for.
- `Smc`, `PowerMonitor`, `HelperCalls`, `ConfigStore` and `Telemetry` have safety properties only.

## 5. What is proved

Every invariant and every action property of a passing run is a theorem, and so are the
three refinements. All theorems hold for every value of the constants that satisfies the named
assumptions. The type invariants of `HelperEngine`, `Worker` and the other modules with
theorems are proved and not run; TLC evaluates the stronger properties.

**`HelperEngine_proofs`** (assumptions: `NoPeer` and the name `"recovery"` are not
peers; the lease is at least one tick long). `ForcedIsWatched` and
`SleepIsAutomatic` are not inductive by themselves: a write that forces its fan
keeps them only because it runs under its client's lease with nothing pending,
and it was given the lease several steps earlier. The invariant `IInv` adds what
carries that over: `WriteIsLeased`; `SessionInv`, which says what is known at each
stage of a session (who is served, what was checked); and `DownIsBlank`, that a
process that does not run has no session and no memory. The theorems are
`TypeCorrect`; `ForcedIsAlwaysWatched` and `SleepIsAlwaysAutomatic`, together
`ForcedIsAlwaysAccountedFor`; `WritesAreLeased`, `ControlPassesThroughAutomatic` and
`DeadlineIsFinal` (from `AgeInv` besides), together `LeasesAreExclusive`; and `HelperKeepsCustody`, the refinement of `FanCustody`,
step by step under the mapping of the module.

*The calls, in the same module* (assumption: no connection is none). `CallsKeepPromise` is the
refinement of `CallContract`, in two halves: what a client's step does to the calls
(`ClientKeepsPromise`) and what a step of the helper does (`HelperKeepsPromise`).
That no call is executed past a stray one follows from `OnlyTheServedIsCommanded`: a command
is written only into a connection that was greeted, and only the connection in
service can still receive it. `CallsInv` adds whose connection is whose
(`SocketsOwned`), and that a command is written before it is executed and executed before
it is answered, on a connection greeted after it was accepted (`FramesInOrder`).

**`Worker_proofs`** (assumption: the two names `late` may have are not fans). What
the app does not account for by `controlled`, by a pending action or by a debt is
accounted for by `active`, and only a confirmed reset clears that. `IInv` has
`UnownedIsFree` and four facts that make it and the action properties inductive:
`BatchInv` (a batch runs awake, and with no hand-back owed the pending actions are
those of the batch), `DebtInv` (an unconfirmed write leaves `active` set),
`CustomInv` (a batch drives fans with a custom mode, and a user who asked for a
reset has left none) and `RemoveInv` (from its confirmed reset to the removal,
`installing` keeps every takeover out). Each is kept by every action
(`UnownedStep` ... `RemoveStep`), and the theorems `TypeCorrect`,
`UnownedIsAlwaysFree`, `NothingIsForgotten`, `BarrierAlwaysHolds`, `ResetIsFinal` and
`UninstallIsSafe` follow. `UnownedIsFree` depends on what `AskReset` says of a helper
that serves one connection after the other: a confirmed reset comes after
every request given up before it. This is stated in `Answers`; that client and accept
loop keep it is `CallsKeepPromise`.

**`Smc_proofs`** (no assumptions beyond those of the modules; any set of fans, any
quirks, any number of notices; all integers). Three parts.

*Values.* `ValidatedIsInBounds`: a validated target lies within the live bounds and
fits a register. `WrittenIsRead` and `WrittenTargetIsSafe`: what is written is read
back as the same speed, fpe2 does not overflow, and the read-back passes the driver's
own check. `PlanStaysInBounds`: the app's limit does the same against its sampled
bounds and stops no fan that must not be stopped. `PlanIsConfirmed`: while the bounds
stand still and a register can hold them, the second limit leaves the first alone, so
that every command can be confirmed. `ConfirmedFitsTheWrite`: a confirmation means the
target lies within the bounds of the write even if they have moved. The argument is
the rounding of bounds inwards (`Rounding`), and case distinctions.

*The driver.* `DriverKeepsContract` is the refinement of `SmcContract`, step by step
under the mapping of the module, and `ConfirmationIsInForce` the action property about
what an answer says of the registers. Both rest on `SInv`: which operation each stage
belongs to (`StagesFit`); that the test register is set only where there is one, and
cleared when an errorless reset attests (`TestFits`); that a fan that was handed back is
still automatic when the operation answers (`GivenBack`), and a forced fan still aimed
at the target it was given (`Aimed`).

*The power thread.* `SleepIsAlwaysOrderly` needs `CallbackFits` (what each position of
the thread says of the driver and of the debt) and `LastNotice`: while the machine is
awake, the last notice in the queue is its wake, or the queue is empty and nobody
believes it asleep. This is what makes late and queued notices harmless, however many.

**`FanController_proofs`** (assumptions: the modes are among the four, no action has the
id 0, the range of the fan is one, durations are numbers). The eleven ways through
`update` and what `Pursue` makes of them come down to three: a hand-back is asked for
(`Asks`), a custom write is sent (`Sends`), or neither (`Waits`); `UpdateCases` proves it
once. The answer to an action is ignored, ends the wait, or is accepted
(`Ignores`, `EndsWait`, `Accepts`). The properties are proved of these cases. `IInv` adds
to the type: a target of 0 only for a fan that may stop (`StopIsAllowed`, without
which a target may be no level at all); no custom write pending while suspended or while a
failure is owed a hand-back (`CustomWritesWait`); nothing pending or owed for an
unknown fan; and for the rate limit, that a configuration still to be applied warrants a
request (`Warranted`) and that without such a cause nothing was confirmed after the last
request (`RequestIsLast`). The theorems are `TypeCorrect`, `FailureAlwaysComesFirst`,
`OnlyCurrentAnswersEverCount`, `EmergencyFloorAlwaysHolds`, `RequestsAreNotRepeated`. For
`ResidenceIsAlwaysKept` the history of `FanResidence` is tied to the controller's own times:
a stopped fan has no running time and a turning one no time of its stop
(`StopsAreTimed`), and these times never claim more than has passed (`AgesAreTimed`).

**`FanSpeed_proofs`** (assumptions: the curve is finite and monotone, floors are
percentages, the range is positive, the rates are natural numbers). For every curve with any number of points,
interpolation, rounding and ramps do not reverse an order and stay in their bounds.
The interpolation takes the nearest points on both sides of an input; that these exist is
not shown by induction over the points, which the prover cannot do, but by the fact that
strict inclusion is well-founded on finite sets (`HasMin`, `HasMax`). `SInv` adds to the
covering of a steady input: the floor that was applied is met (`FloorIsMet`); a fan that
was raised by an emergency is being released and has a speed; and before the first
input the direction counts as rising. The theorems are `TypeCorrect`,
`SteadyInputIsCovered` and `EmergencyIsAlwaysObeyed`.

**`Telemetry_proofs`** (assumptions: finitely many keys, disjoint by what they measure;
the order of the times; levels of the filter). First the operators, for all values: smooth
steps, comfort and the preference are monotone and stay percentages, and averages and filters
never exceed their inputs. `TInv` adds to the types what each estimate remembers
(`SpellOf`): the time for which its sensor is really absent is at most what the
estimator has counted plus the time since it last ran, and a held value is no higher than
the warmest of the present spell; a fresh estimate has watched the load no longer than
it was observed; and the comfort it reports is that of the last sample's calibrated
sensor. It is the middle clause that a sample which takes too long must not break. The
theorems are `TypeCorrect`, `EvidenceIsAlwaysOfThisSpell`, `ReadingIsAlwaysCurrent` and
`HeatIsAlwaysHeard`.

**`ConfigStore_proofs`** (assumptions: `System`, `Absent` and the contents of others are
none of the app's configurations; for decoding, that neither the empty name nor that of no
curve is a curve's). `CInv` says what a power failure may leave at each step of a save:
without the marker, only what was last confirmed or what others wrote; under it, anything
(`MarkCovers`); that the backup holds what the save has seen and is durable before the
replacement (`BackupHolds`); and that only a custom configuration is saved before it is
accepted (`SavesAccepted`). From it follow `UnconfirmedIsNeverResumed`, `ChoiceIsResumed`,
together `RestartIsAlwaysFaithful`, and `OriginalIsAlwaysBackedUp`. The decoding is proved
for documents of any length: `RepairsSuffice`: a document that decodes at all is refused
only for the ids or the number of its fans. `RepairsNeverDrive`: a fan is driven after
decoding only as its entry says. `DecodingIsStable`: what was decoded, written and decoded
again is the same, and is not taken for migrated.

**`Interface_proofs`** (assumptions: finitely many fans, numbered; the range of a fan is one; the
sensors are a list; the balanced curves are valid; the undo stack has room for a step; a
session starts from a saved configuration, whose curves hold and whose calibration was
measured). `Interface` has a channel that may hold any number of commands of any kind, a
snapshot that is older than what the worker has, and five kinds of gestures that read it.
The proof first reduces every step to what the properties tell apart: a gesture or a tick
to the commands it sends and what becomes of the form, the editor and the sliders
(`UiSteps`); a step of the worker to the command it takes or the snapshot it publishes
(`WorkerSteps`). Each part of `UiInv` is then kept by each of these:

- `SettingsInv`: what is sent, in force and published is well formed: curves that reach
  the worker are valid and in the unit of their source, calibrations measured. It rests on
  the operators of the editor (`CurveEdits`, `MoreCurveEdits`, `ValuesAreDrafts`) and on
  the commands for several fans being one for each (`EachIs`, `FansInOrder`).
- `ServiceInv`: while `installing`, there is exactly one of: a thread that waits for the
  administrator, or its answer in the channel; and fans in a custom mode only where
  nothing is being removed.
- `SaveInv`: the slot for a save is full exactly while one command in the channel or one
  answer belongs to it; an acknowledged save is in force and published.
- `FormInv`: a recorded point was measured on the sensor that is selected now.
- `PreferInv`: where the form's preference may differ from what is in force: only in the
  tick that has still to take the answer, or in a draft the user has touched.
- `EditorInv`: drafts have a curve in the unit of their source, and the top of the stack is
  what was shown.
- `DeskInv`, `OrderInv`: the number of a setting in force is no greater than those in the
  channel from the same surface, those rise, and none is greater than that of a slider
  which has not settled. `DiskInv` says that the editor's session, whose settings have
  no number, starts from those alone.

The theorems are `ServiceIsChangedAlone`, `ConfirmedSaveIsPublished`,
`CommandsMeanWhatIsShown`, `UndoGoesBack`, `LastWordIsKept` and `PreferencesStayInStep`.
`LastWordIsKept` needs most of it: the order holds only because a choice forgets the slider
of its own surface before it sends, and because a setting is taken whole from the head
of the channel.

*The installer, in `Interface_proofs`* (assumptions: the app's version is not a legacy one; the
names of no version and of a damaged copy are not versions). One invariant serves
`HelperStaysWhole`, `OthersAreNotCommanded` and `RemovalHandsBack`. Besides the three
properties it needs: `StoppedOK`, that from the end of the wait to the bootstrap
launchd has no service, which is what keeps it from starting a file that is being
replaced; `FilesOK`, that what is moved into place was verified before, and that the
plist comes after the executable and goes before it; `ConnectionOK`, that a connection
leads to the daemon that runs and outlives its negotiation only with it; and
`RemovalOK`, that after the confirmed reset of a removal nothing the app sent is left to
be executed.

**Only model-checked.** Liveness (`LeaseEnds`, `OrphanIsRecovered`, `FanIsReturned`,
`HandBackEnds`, `SteadyInputSettles`, `SaveEnds`, `JobEnds`) and `ENABLED`, which are out of
the prover's reach. What `Sorted` and `Shown` compute (the order of the rows, the picture
an undo is compared with) comes from a library operator for sorting, which the proofs do not
open: `UndoRestores` is proved for whatever picture it makes, and TLC evaluates the operator.

## 6. Findings

1. **A panic** (`controller_panic`; `controller.rs:818`). In the adaptive mode, a
   takeover of a stopped fan within 10 ms of the previous pass ramps to 0 RPM,
   and `.expect("bounded target")` fails. The worker samples between two passes,
   so that the window is narrow.
2. **A creeping input is not followed** (`fan_speed_creep`; `controller.rs:626`).
   After one fall the direction is decided against the previous sample, which
   every sample replaces: a rise in steps within the dead band never counts, and
   the speed stays.

Observations that are not findings, because no text of the repository
contradicts them clearly, because no run shows them, or because the model takes the
code's word for it:

*Driver, helper and installer*

- Firmware that accepts a mode before it reports it: a cancelled forced write would be
  verified as automatic and take effect later (`smc.rs:349`; the comment at 376
  says that a verified mode hand-back is sufficient). The model has firmware whose
  registers show what is in force, because no text says how late they may be.
- `automatic()` does not read its mode again after the test register was released
  (`smc.rs:385`), as `reset_all` does (470).
- The cool-down of a failed unlock (`smc.rs:420`) also holds off an emergency that
  `worker.rs:1029` lets pass.
- A fan whose maximum lies above 16383 RPM is controllable for the app
  (`model.rs:165`), while the helper refuses every write to it (`smc.rs:596`).
- The worker starts an installation without a hand-back (`worker.rs:783`), while
  `README.md:126` says that an update hands back first; the old helper does so when it
  is stopped.
- An uninstallation that fails after the helper was removed (the directory is not
  empty, say) cannot be completed by trying again, because there is no helper to confirm
  the reset; installing and uninstalling again does it.
- A script that fails between `bootout` and `bootstrap` leaves the old helper whole, but
  stopped until the next start of the machine or the next installation.
  `launchctl enable` comes after `bootstrap`. Staged copies (`.installing`) survive an
  uninstallation.

*Controller, worker and store*

- The throttle of small changes (75 RPM, 50 in the adaptive mode, within 5 s)
  applies to emergencies too (`controller.rs:820`; `README.md:61` says
  "紧急保护……仍立即生效"). `EmergencyIsObeyed` therefore says "within one write step".
- The clock of a missing input survives the manual mode (`controller.rs:246`;
  `fan-core/README.md:19`).
- A successful save does not make what it wrote the next `original`
  (`worker.rs:436`, comment at 429): each further save backs up the app's
  own previous file.
- A write of another program between a save's check and its rename is
  overwritten without a backup; `OriginalIsBackedUp` speaks of what the
  check could see.
- A sleep clears the hold on takeovers after a failed write (`worker.rs:853`; comment
  at 508).
- After a verified uninstallation whose own reset was not confirmed, `active`
  stays set: the worker asks a helper that is not there, and the answer to a
  shutdown is that the hand-back failed. `HandBackEnds` excepts it.

*Interface*

- A reset is not final on the page: `preferences.rs:126` promises that all fans stay
  automatic until a cooling is chosen again, but the action (`ui.rs:342`) clears
  neither slider that has not settled, and a slider moved before it is applied after
  it. The panel keeps its slider even while its controls are disabled (`ui.rs:956`).
  `LastWordStands` therefore speaks of the settings of one surface.
- A setting is sent as a whole `FanConfig` made of the published snapshot
  (`configs_for_plan`, `config_for_choice`, `configs_for_curve`): a change from
  another surface that is not published yet is lost.
- A plan the worker refuses stays selected in the panel until another plan is
  published: only a refusal of the panel itself makes it forget what it shows (`popover.rs:669`,
  `ui.rs:771`). `save_curve` closes the editor whether or not the worker accepts.
- `apply_choice` and `save_curve` look at `helper_ready` and `installing` only, not at the
  hand-back that is owed (`docs/releases/0.3.1.md:9`).
- In the editor, two drags within one tick share one step of undo (`ui.rs:157`); a drag
  before the next tick replaces rows that were typed; a drag may push the stack beyond its
  cap; the nearest point is looked up in rows that need not be sorted.
- Points recorded while a save of the form is in flight are dropped when its answer
  rebuilds the form. A preference that is moved away and back during a save of the
  panel counts as untouched. The first save of the panel before any snapshot takes the
  previous value for 0. After a retry that has not found the hardware yet, a
  confirmed save does not rebuild the form.

## 7. What is not modelled, and the plan

Not modelled, with the reasons in `PROJECT.json`: the enumeration of SMC keys and the
layout of its packets, the bytes of frames, sockets and credentials of peers, the
counters behind the load, battery and workload readers, JSON syntax, localisation, the
trace log, the updater, widgets, license bundling, continuous integration and the Swift
predecessor. They are decoding, drawing or packaging without a protocol of their own; the
models take any value they can deliver. Of the interface the views that only
render (charts, gauges, trends, overview) are left out, as are the export and the
demonstration mode. `Settings` has no handshake that fails once and succeeds next.

What the plan has left, in this order:

1. The abstract specification of the interface's save slot (asked, answered, taken), so that
   `SaveInv` becomes a refinement, as the driver's contract already is.
2. A module that composes `Worker` and `HelperCalls` step by step, with the call of the
   worker divided at its execution; `CallContract` is the joint it would replace.
3. The adaptive mode's pacing in numbers, beside `FanSpeed`, and with it the comparison of
   `FanController`'s free demand with what `Telemetry` can give; the polling interval that
   both depend on.
4. Gestures of several sessions in one behaviour of `Interface`, for the observations about
   surfaces that overtake each other.
5. The widget bridge: what is shown after the app has ended.
