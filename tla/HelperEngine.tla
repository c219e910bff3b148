---------------------------- MODULE HelperEngine ----------------------------
(***************************************************************************)
(* The privileged helper (crates/fan-platform/src/helper.rs): the one      *)
(* process that writes fan registers.  Three of its threads share `engine` *)
(* behind a mutex:                                                         *)
(*   - the accept loop, which serves one connection at a time;             *)
(*   - the watchdog, which every 500 ms hands back an expired lease;       *)
(*   - the power callback, which hands back before the machine sleeps.     *)
(* A peer that writes a fan holds a lease; a fan left in forced mode must  *)
(* always have a lease, or a pending hand-back, by which somebody will     *)
(* return it to the firmware.                                              *)
(*                                                                         *)
(* The SMC is abstracted to the set of fans in forced mode and to what its *)
(* operations may leave behind (see Smc): a reset that succeeds leaves     *)
(* none forced, one that fails may leave any of them, and a custom write   *)
(* may fail before or after the fan was forced.  Time is the age of the    *)
(* lease in ticks.                                                         *)
(***************************************************************************)
EXTENDS Naturals

CONSTANTS
  Peers,       \* processes that connect to the helper: (uid, pid) pairs
  NoPeer,      \* no process
  Fans,        \* fans of this machine
  NoFan,       \* a fan id beyond the live fan count
  LeaseTicks   \* LEASE_DURATION, in ticks

ASSUME NoPeerAssumption == NoPeer \notin Peers
ASSUME RecoveryAssumption == "recovery" \notin Peers \cup {NoPeer}   \* see Custody
ASSUME LeaseAssumption == LeaseTicks \in Nat \ {0}

VARIABLES
  running,     \* the daemon is past its start-up hand-back and not exited
  shutdown,    \* SHUTDOWN: a signal arrived, or accept() failed
  authorized,  \* peers that are live processes of the console user
  owner,       \* lease.owner, or NoPeer without a lease
  age,         \* ticks since lease.renewed, saturating at LeaseTicks
  pending,     \* pending_handback
  sleeping,    \* sleeping
  forced,      \* fans whose mode register says forced
  stage,       \* where the accept loop is in the connection it serves
  client,      \* the peer of that connection
  negotiated,  \* a Status succeeded on that connection
  request,     \* the command being handled or answered
  target,      \* the fans (at most one) it addresses
  outcome      \* the response being written says ok

engineVars  == <<owner, age, pending, sleeping, forced>>
sessionVars == <<stage, client, negotiated, request, target, outcome>>
processVars == <<running, shutdown>>
vars == <<processVars, authorized, engineVars, sessionVars>>

CustomWrites == {"setForced", "setRPM"}
Writes   == CustomWrites \cup {"setAutomatic"}
Commands == {"status", "heartbeat", "resetAll"} \cup Writes
Stages   == {"idle", "reading", "entered", "checked", "writing", "written", "replying"}

(* The accept loop holds the mutex of `engine`.                            *)
Locked == stage \in {"entered", "checked", "writing", "written"}

TypeOK ==
  /\ running \in BOOLEAN /\ shutdown \in BOOLEAN
  /\ authorized \subseteq Peers
  /\ owner \in Peers \cup {NoPeer}
  /\ age \in 0 .. LeaseTicks
  /\ pending \in BOOLEAN /\ sleeping \in BOOLEAN
  /\ forced \subseteq Fans
  /\ stage \in Stages
  /\ client \in Peers \cup {NoPeer}
  /\ negotiated \in BOOLEAN
  /\ request \in Commands
  /\ target \subseteq Fans \cup {NoFan}
  /\ outcome \in BOOLEAN

(* authorized_peer(p).  It fails for a process that does not exist, so the *)
(* liveness test lease_expired also makes adds nothing to it.              *)
Authorized(p) == p \in authorized

(* Mutated form: the peer alone.                                           *)
ExpiredByPeer == owner # NoPeer /\ ~Authorized(owner)

(* lease_expired, for the lease expire_lease finds.                        *)
LeaseExpired == owner # NoPeer /\ (age >= LeaseTicks \/ ~Authorized(owner))

(* expire_lease hands back for an expired lease and for a hand-back that   *)
(* an earlier command, tick or sleep could not complete.                   *)
MustHandBack == LeaseExpired \/ pending

(* smc.reset_all()? and what follows it, in ResetAll, expire_lease and the *)
(* power callback alike: success drops the lease, failure keeps it and     *)
(* leaves pending_handback set.                                            *)
HandBackOk ==
  /\ forced' = {}
  /\ owner' = NoPeer /\ age' = 0
  /\ pending' = FALSE

(* Mutated form: the lease is dropped before reset_all is tried.           *)
HandBackFailsUnwatched ==
  /\ forced' \in SUBSET Fans
  /\ owner' = NoPeer /\ age' = 0
  /\ UNCHANGED pending

HandBackFails ==
  /\ forced' \in SUBSET Fans
  /\ pending' = TRUE
  /\ UNCHANGED <<owner, age>>

HandBack == HandBackOk \/ HandBackFails

NoSession ==
  /\ stage' = "idle" /\ client' = NoPeer /\ negotiated' = FALSE
  /\ request' = "status" /\ target' = {} /\ outcome' = FALSE

Reply(ok) ==
  /\ stage' = "replying" /\ outcome' = ok
  /\ UNCHANGED <<client, negotiated, request, target>>

Init ==
  /\ running = FALSE /\ shutdown = FALSE
  /\ authorized \in SUBSET Peers
  /\ owner = NoPeer /\ age = 0
  /\ pending = FALSE /\ sleeping = FALSE
  /\ forced \in SUBSET Fans      \* left by an earlier daemon
  /\ stage = "idle" /\ client = NoPeer /\ negotiated = FALSE
  /\ request = "status" /\ target = {} /\ outcome = FALSE

-----------------------------------------------------------------------------
(* The accept loop.                                                        *)

(* run_helper: an accepted stream is served only for an authorized peer.   *)
Accept(p) ==
  /\ running /\ ~shutdown /\ stage = "idle"
  /\ Authorized(p)
  /\ stage' = "reading" /\ client' = p
  /\ UNCHANGED <<negotiated, request, target, outcome, engineVars, processVars, authorized>>

(* A frame that does not arrive, is malformed, or is a command before      *)
(* Status ends the session.                                                *)
DropSession ==
  /\ stage = "reading"
  /\ NoSession
  /\ UNCHANGED <<engineVars, processVars, authorized>>

(* serve_session takes the mutex, and refuses during a shutdown.  The      *)
(* frame and the wait for the mutex outlive a console switch, so handle    *)
(* authorizes the peer again.                                              *)
Receive(c, fs) ==
  /\ stage = "reading"
  /\ c = "status" \/ negotiated
  /\ request' = c /\ target' = fs
  /\ IF shutdown \/ ~Authorized(client)
       THEN stage' = "replying" /\ outcome' = FALSE
       ELSE stage' = "entered" /\ UNCHANGED outcome
  /\ UNCHANGED <<client, negotiated, engineVars, processVars, authorized>>

(* handle's first effect for every command: expire_lease()?, whose failed  *)
(* hand-back is the answer to the command; after a confirmed one the       *)
(* command sees no lease.                                                  *)
Expire ==
  /\ stage = "entered"
  /\ \/ MustHandBack /\ HandBackFails /\ Reply(FALSE)
     \/ /\ IF MustHandBack THEN HandBackOk ELSE UNCHANGED <<owner, age, pending, forced>>
        /\ stage' = "checked" /\ UNCHANGED <<client, negotiated, request, target, outcome>>
  /\ UNCHANGED <<sleeping, processVars, authorized>>

Execute == stage = "checked"

Status ==
  /\ Execute /\ request = "status"
  /\ Reply(TRUE)
  /\ UNCHANGED <<engineVars, processVars, authorized>>

(* The lease is renewed for its owner, refused to another process, and     *)
(* without a lease the heartbeat is answered without making one.           *)
Heartbeat ==
  /\ Execute /\ request = "heartbeat"
  /\ Reply(owner \in {NoPeer, client})
  /\ age' = IF owner = client THEN 0 ELSE age
  /\ UNCHANGED <<owner, pending, sleeping, forced, processVars, authorized>>

(* Any authorized peer may hand back; the lease's owner is not checked.    *)
ResetAll ==
  /\ Execute /\ request = "resetAll"
  /\ \/ HandBackOk /\ Reply(TRUE)
     \/ HandBackFails /\ Reply(FALSE)
  /\ UNCHANGED <<sleeping, processVars, authorized>>

Write == Execute /\ request \in Writes

(* Mutated forms: no test for sleep, and none for another process.         *)
MayWriteAsleep == owner \in {NoPeer, client} /\ Authorized(client)
MayWriteAnyone == ~sleeping /\ Authorized(client)

MayWrite == ~sleeping /\ owner \in {NoPeer, client} /\ Authorized(client)

RefuseWrite ==
  /\ Write /\ ~MayWrite
  /\ Reply(FALSE)
  /\ UNCHANGED <<engineVars, processVars, authorized>>

(* The lease is taken before the first register is touched.                *)
BeginWrite ==
  /\ Write /\ MayWrite
  /\ owner' = client /\ age' = 0
  /\ stage' = "writing"
  /\ UNCHANGED <<pending, sleeping, forced, client, negotiated, request, target,
                 outcome, processVars, authorized>>

(* The cancellation check handle installs for the duration of a write.     *)
Cancelled == shutdown \/ ~Authorized(client)

(* A custom write forces the fan; the retries around it take seconds, and  *)
(* the peer can go away, or a signal arrive, before it returns.            *)
ForceFan ==
  /\ stage = "writing" /\ request \in CustomWrites /\ ~Cancelled
  /\ target \subseteq Fans
  /\ forced' = forced \cup target
  /\ stage' = "written"
  /\ UNCHANGED <<owner, age, pending, sleeping, client, negotiated, request, target,
                 outcome, processVars, authorized>>

(* Either write ends with the fan verified as forced; set_fan_rpm asks     *)
(* once more whether it was cancelled, set_fan_mode does not.              *)
WriteOk ==
  /\ stage = "written"
  /\ target \subseteq forced
  /\ request = "setRPM" => ~Cancelled
  /\ Reply(TRUE)
  /\ UNCHANGED <<engineVars, processVars, authorized>>

(* The hand-back of the last forced fan releases the test register, upon   *)
(* which some firmware forces fans anew.                                   *)
Aftermath(rest) == IF rest = {} THEN SUBSET Fans ELSE {rest}

(* After any error the fan is put back to automatic, which can fail in its *)
(* turn or never be tried.                                                 *)
WriteFails ==
  /\ stage \in {"writing", "written"}
  /\ forced' \in {forced} \cup Aftermath(forced \ target)
  /\ Reply(FALSE)
  /\ UNCHANGED <<owner, age, pending, sleeping, processVars, authorized>>

(* set_fan_mode(Automatic) is not cancellable.                             *)
AutomaticOk ==
  /\ stage = "writing" /\ request = "setAutomatic"
  /\ target \subseteq Fans
  /\ forced' \in Aftermath(forced \ target)
  /\ Reply(TRUE)
  /\ UNCHANGED <<owner, age, pending, sleeping, processVars, authorized>>

(* The response is written outside the mutex; an accepted Status keeps the *)
(* connection for one more frame.                                          *)
Respond ==
  /\ stage = "replying"
  /\ IF request = "status" /\ outcome /\ ~negotiated
       THEN /\ stage' = "reading" /\ negotiated' = TRUE
            /\ outcome' = FALSE /\ UNCHANGED <<client, request, target>>
       ELSE NoSession
  /\ UNCHANGED <<engineVars, processVars, authorized>>

-----------------------------------------------------------------------------
(* The watchdog and the power callback.                                    *)

(* The loop reads SHUTDOWN before it sleeps, so one more pass can follow.  *)
Watchdog ==
  /\ running /\ ~Locked
  /\ MustHandBack
  /\ HandBack
  /\ UNCHANGED <<sleeping, sessionVars, processVars, authorized>>

WillSleep ==
  /\ running /\ ~Locked
  /\ sleeping' = TRUE
  /\ HandBack
  /\ UNCHANGED <<sessionVars, processVars, authorized>>

Wake ==
  /\ running /\ ~Locked /\ sleeping
  /\ sleeping' = FALSE
  /\ UNCHANGED <<owner, age, pending, forced, sessionVars, processVars, authorized>>

-----------------------------------------------------------------------------
(* The daemon's life.                                                      *)

(* Mutated form: the result of the start-up reset is ignored.              *)
StartUnchecked ==
  /\ ~running
  /\ forced' \in SUBSET Fans /\ running' = TRUE
  /\ UNCHANGED <<shutdown, owner, age, pending, sleeping, sessionVars, authorized>>

(* initialize_with_power: reset_all()? before anything is served, so a     *)
(* start-up that cannot hand back exits and launchd tries again.           *)
Start ==
  /\ ~running
  /\ \/ forced' = {} /\ running' = TRUE
     \/ forced' \in SUBSET Fans /\ UNCHANGED running
  /\ UNCHANGED <<shutdown, owner, age, pending, sleeping, sessionVars, authorized>>

Signal ==
  /\ running /\ ~shutdown
  /\ shutdown' = TRUE
  /\ UNCHANGED <<running, authorized, engineVars, sessionVars>>

Forget ==
  /\ running' = FALSE /\ shutdown' = FALSE
  /\ owner' = NoPeer /\ age' = 0
  /\ pending' = FALSE /\ sleeping' = FALSE
  /\ NoSession

(* The end of run_helper: one last reset_all, confirmed or not.            *)
Exit ==
  /\ running /\ shutdown /\ stage = "idle"
  /\ forced' \in SUBSET Fans
  /\ Forget
  /\ UNCHANGED authorized

(* Killed or crashed at any point.                                         *)
Crash ==
  /\ running
  /\ Forget
  /\ UNCHANGED <<forced, authorized>>

-----------------------------------------------------------------------------
(* The environment.                                                        *)

(* No tick falls between the clock reading of expire_lease and the command *)
(* it precedes.                                                            *)
Tick ==
  /\ stage # "checked"
  /\ owner # NoPeer /\ age < LeaseTicks
  /\ age' = age + 1
  /\ UNCHANGED <<owner, pending, sleeping, forced, sessionVars, processVars, authorized>>

(* Processes end and appear, a reused pid included, and the console        *)
(* changes hands.                                                          *)
PeersChange(ps) ==
  /\ authorized' = ps
  /\ UNCHANGED <<engineVars, sessionVars, processVars>>

(* thermalmonitord takes a fan back.                                       *)
FirmwareReclaims(f) ==
  /\ f \in forced
  /\ forced' = forced \ {f}
  /\ UNCHANGED <<owner, age, pending, sleeping, sessionVars, processVars, authorized>>

Targets(c) == IF c \in Writes THEN {{f} : f \in Fans \cup {NoFan}} ELSE {{}}

Serve ==
  \/ \E c \in Commands : \E fs \in Targets(c) : Receive(c, fs)
  \/ Expire
  \/ Status \/ Heartbeat \/ ResetAll
  \/ RefuseWrite \/ BeginWrite
  \/ ForceFan \/ WriteOk \/ WriteFails \/ AutomaticOk
  \/ Respond \/ DropSession

Environment ==
  \/ Tick
  \/ \E ps \in SUBSET Peers : PeersChange(ps)
  \/ \E f \in Fans : FirmwareReclaims(f)

Next ==
  \/ \E p \in Peers : Accept(p)
  \/ Serve
  \/ Watchdog \/ WillSleep \/ Wake
  \/ Start \/ Signal \/ Exit \/ Crash
  \/ Environment

(* launchd restarts the daemon, its threads are scheduled, and a hand-back *)
(* that is tried again and again succeeds at last.  Peers, power events,   *)
(* signals and crashes owe nothing.                                        *)
Fairness ==
  /\ WF_vars(Serve) /\ WF_vars(Exit)
  /\ SF_vars(Watchdog /\ ~shutdown /\ HandBackOk)
  /\ SF_vars(Start /\ running')

Safety == Init /\ [][Next]_vars
Spec == Safety /\ Fairness

-----------------------------------------------------------------------------
(* Safety.                                                                 *)

(* While the daemon runs, a fan in forced mode has a lease whose expiry    *)
(* the watchdog awaits, or a hand-back it is retrying: whichever command   *)
(* failed half-way, no forced fan is forgotten (helper.rs:572, 595).       *)
ForcedIsWatched ==
  running /\ forced # {} => owner # NoPeer \/ pending

(* From the sleep notification on, either every fan is automatic or the    *)
(* hand-back is still owed; a write in flight cannot slip past the         *)
(* notification, nor one arrive after it (helper.rs:553, 766).             *)
SleepIsAutomatic ==
  sleeping /\ forced # {} => pending

(* Every forced fan is accounted for, awake and asleep.                    *)
ForcedIsAccountedFor == ForcedIsWatched /\ SleepIsAutomatic

(* A register is only written under the writer's own lease, with no        *)
(* hand-back owed and the machine awake, whatever happened since the       *)
(* command was accepted (helper.rs:552-576).                               *)
WriteIsLeased ==
  stage \in {"writing", "written"}
    => owner = client /\ ~pending /\ ~sleeping

(* Control passes from one process to another, or is dropped, only with    *)
(* every fan automatic (helper.rs:556, 608).                               *)
HandoverThroughAutomatic ==
  [][ running' /\ owner # NoPeer /\ owner' # owner
        => owner' = NoPeer /\ forced' = {} ]_vars

(* The helper keeps the custody promised by FanCustody: its lease owner is *)
(* the custodian, and a daemon that is down, or owes a hand-back without a *)
(* lease, is in recovery.                                                  *)
Custody == INSTANCE FanCustody WITH
  Nobody <- NoPeer,
  Recovery <- "recovery",
  custodian <- IF ~running \/ (owner = NoPeer /\ pending) THEN "recovery" ELSE owner

CustodyKept == Custody!Init /\ [][Custody!Next]_(Custody!vars)

(* A lease that reached its deadline is never renewed, even by a heartbeat *)
(* or a write of its owner that beats the watchdog (helper.rs:534, 547).   *)
NoRenewalAfterDeadline ==
  [][ age = LeaseTicks => age' = age \/ owner' = NoPeer ]_vars

(* A lease authorises its owner and nobody else, until its deadline and no *)
(* longer, and is passed on only over automatic fans.                      *)
LeaseIsExclusive ==
  []WriteIsLeased /\ HandoverThroughAutomatic /\ NoRenewalAfterDeadline

-----------------------------------------------------------------------------
(* Liveness.                                                               *)

(* A lease at its deadline ends with every fan automatic (helper.rs:604).  *)
ExpiredIsHandedBack ==
  (owner # NoPeer /\ age = LeaseTicks) ~> (forced = {})

(* A process that ended, or lost the console, loses its fans unless it     *)
(* gets the console back first (helper.rs:598, 681).                       *)
GoneOwnerIsHandedBack ==
  \A p \in Peers :
    (owner = p /\ p \notin authorized) ~> (forced = {} \/ p \in authorized)

(* No lease outlasts its deadline or its owner for ever.                   *)
LeaseEnds == ExpiredIsHandedBack /\ GoneOwnerIsHandedBack

(* Fans left forced by a crash, a failed exit or an earlier daemon are     *)
(* recovered by the next one (helper.rs:702).                              *)
OrphanIsRecovered ==
  (~running /\ forced # {}) ~> (forced = {})

=============================================================================
