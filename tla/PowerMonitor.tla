---------------------------- MODULE PowerMonitor ----------------------------
(***************************************************************************)
(* The helper when the machine sleeps (crates/fan-platform/src/power.rs,   *)
(* and the callback run_helper registers with it): a thread that receives  *)
(* the notices of the kernel, takes the mutex of the engine, hands the     *)
(* fans back by the steps of Smc, and only then allows the sleep.  The     *)
(* kernel does not wait for ever: after 30 s the machine sleeps whatever   *)
(* the thread is doing, and the notices that follow queue up behind it.    *)
(*                                                                         *)
(* HelperEngine has the same callback as one step, between commands of     *)
(* several peers; here the commands are those that the engine lets through *)
(* to Smc, and the steps of a hand-back and of the kernel interleave.      *)
(* While the machine sleeps no process runs.  The question whether it may  *)
(* sleep (CAN_SLEEP) is answered yes and changes nothing.                  *)
(***************************************************************************)
EXTENDS Smc, Sequences

CONSTANT MaxNotices   \* bound: no sleep is announced over so many notices

ASSUME MaxNoticesAssumption == MaxNotices \in Nat \ {0}

VARIABLES
  machine,   \* "awake", "falling" (asleep once it is allowed), "asleep"
  queue,     \* notices the run loop of the thread has yet to deliver
  monitor,   \* "none" before it is registered, "idle", "resetting" in the
             \* callback, "acknowledging" after it
  sleeping,  \* sleeping
  owed       \* pending_handback; while monitor is "none", that of the start

engine  == <<sleeping, owed>>
kernel  == <<machine, queue>>
allVars == <<vars, machine, queue, monitor, engine>>

PowerInit ==
  /\ Init
  /\ machine = "awake" /\ queue = <<>> /\ monitor = "none"
  /\ sleeping = FALSE /\ owed = TRUE

-----------------------------------------------------------------------------
(* The helper.                                                             *)

(* A reset_all that ends decides what is owed, and ends the callback if it *)
(* is that of the callback.                                                *)
ResetEnds ==
  IF op = "resetAll" /\ op' = "none"
    THEN /\ owed' = (result' # "ok")
         /\ monitor' = IF monitor = "resetting" THEN "acknowledging" ELSE monitor
    ELSE UNCHANGED <<owed, monitor>>

(* handle: a write is refused while the machine sleeps, and after the      *)
(* hand-back that is owed, and tried again first, has failed.              *)
HelperCall ==
  /\ monitor # "none" /\ ~sleeping /\ ~owed
  /\ \E o \in Operations, f \in Fans : Call(o, f)

(* ResetAll, the watchdog, the end of the daemon; and its start, which     *)
(* exits if the fans cannot be handed back.                                *)
HelperReset == (monitor = "none" => result # "failed") /\ CallReset

Driver ==
  /\ machine # "asleep"
  /\ HelperCall \/ HelperReset \/ Take \/ Give
  /\ ResetEnds
  /\ UNCHANGED <<quirks, kernel, sleeping>>

(* PowerMonitor::register, by a start that has handed back.  When it fails *)
(* the daemon exits.                                                       *)
Register ==
  /\ machine # "asleep" /\ monitor = "none" /\ ~owed
  /\ monitor' = "idle"
  /\ UNCHANGED <<vars, kernel, engine>>

Surroundings ==
  /\ \/ \E f \in Fans : FirmwareTakes(f) \/ FirmwareAims(f)
     \/ machine # "asleep" /\ (Cancel \/ \E f \in Fans : CoolDown(f))
  /\ UNCHANGED <<quirks, kernel, monitor, engine>>

(* The daemon dies, or ends and drops its monitor, and is started again.   *)
RestartAll ==
  /\ machine # "asleep" /\ Restart
  /\ monitor' = "none" /\ queue' = <<>> /\ sleeping' = FALSE /\ owed' = TRUE
  /\ UNCHANGED <<quirks, machine>>

-----------------------------------------------------------------------------
(* The thread.                                                             *)

(* power_callback with a notice, once it has the mutex.                    *)
Receives(notice) ==
  /\ machine # "asleep" /\ monitor = "idle" /\ Idle
  /\ queue # <<>> /\ Head(queue) = notice
  /\ queue' = Tail(queue)

(* Mutated form: writes are not refused from here on.                      *)
WillSleepUnflagged ==
  /\ Receives("willSleep")
  /\ owed' = TRUE
  /\ CallReset /\ monitor' = "resetting"
  /\ UNCHANGED <<quirks, machine, sleeping>>

WillSleep ==
  /\ Receives("willSleep")
  /\ sleeping' = TRUE /\ owed' = TRUE
  /\ CallReset /\ monitor' = "resetting"
  /\ UNCHANGED <<quirks, machine>>

WakeReceived ==
  /\ Receives("wake")
  /\ sleeping' = FALSE
  /\ UNCHANGED <<vars, machine, monitor, owed>>

(* A panic ends the callback, and poisons a mutex that everybody takes all *)
(* the same; the acknowledgement is given.                                 *)
CallbackPanics ==
  /\ machine # "asleep" /\ monitor = "resetting"
  /\ monitor' = "acknowledging" /\ Finish("uncertain")
  /\ UNCHANGED <<quirks, registers, caches, kernel, engine>>

(* deliver, after the callback: the sleep it was told of is allowed, if    *)
(* that is still the one the kernel waits for.                             *)
Acknowledge ==
  /\ machine # "asleep" /\ monitor = "acknowledging" /\ monitor' = "idle"
  /\ machine' = IF machine = "falling" /\ "willSleep" \notin { queue[i] : i \in DOMAIN queue }
                  THEN "asleep" ELSE machine
  /\ UNCHANGED <<vars, queue, engine>>

-----------------------------------------------------------------------------
(* The kernel.                                                             *)

Send(notice) == queue' = IF monitor = "none" THEN queue ELSE Append(queue, notice)

FallAsleep ==
  /\ machine = "awake" /\ Len(queue) < MaxNotices
  /\ machine' = "falling" /\ Send("willSleep")
  /\ UNCHANGED <<vars, monitor, engine>>

(* Nobody is registered, or has not answered for 30 s.                     *)
WaitedLongEnough ==
  /\ machine = "falling" /\ machine' = "asleep"
  /\ UNCHANGED <<vars, queue, monitor, engine>>

WakeUp ==
  /\ machine = "asleep" /\ machine' = "awake" /\ Send("wake")
  /\ UNCHANGED <<vars, monitor, engine>>

PowerNext ==
  \/ Driver \/ Register \/ Surroundings \/ RestartAll
  \/ WillSleep \/ WakeReceived \/ CallbackPanics \/ Acknowledge
  \/ FallAsleep \/ WaitedLongEnough \/ WakeUp

PowerSpec == PowerInit /\ [][PowerNext]_allVars

-----------------------------------------------------------------------------
(* Properties.                                                             *)

(* The machine sleeps on an acknowledgement of the helper only with every  *)
(* fan automatic or a hand-back owed for after it wakes, even if the       *)
(* callback panicked, and whatever commands came between its hand-back and *)
(* the acknowledgement (power.rs:37, helper.rs:766).                       *)
AcknowledgedIsHandedBack ==
  [][monitor = "acknowledging" /\ machine = "falling" /\ machine' = "asleep"
       => mode = {} \/ owed]_allVars

(* Notices are late, never lost or out of order: a machine that is awake,  *)
(* with nothing left to deliver, is not taken for one that sleeps.         *)
AwakeIsServed ==
  machine = "awake" /\ queue = <<>> /\ monitor = "idle" => ~sleeping

SleepIsOrderly == AcknowledgedIsHandedBack /\ []AwakeIsServed
=============================================================================
