------------------------ MODULE HelperEngine_proofs ------------------------
(***************************************************************************)
(* The safety properties of HelperEngine for any peers, fans and lease     *)
(* length.  One inductive invariant carries them: ForcedIsWatched and      *)
(* SleepIsAutomatic are kept by every step only because a write in         *)
(* progress is leased (WriteIsLeased), which in turn needs the facts about *)
(* the session and the lock below.                                         *)
(*                                                                         *)
(* The last part is about HelperCalls, for any callers and connections: at *)
(* most one command waits in the helper, from which the contract of a call *)
(* follows.                                                                *)
(***************************************************************************)
EXTENDS HelperEngine, HelperCalls, TLAPS

-----------------------------------------------------------------------------
(* Types, in three parts: flags, age, and the rest.                        *)

FlagsOK ==
  /\ running \in BOOLEAN /\ shutdown \in BOOLEAN
  /\ pending \in BOOLEAN /\ sleeping \in BOOLEAN
  /\ negotiated \in BOOLEAN /\ outcome \in BOOLEAN

AgeOK == age \in 0 .. LeaseTicks

SetsOK ==
  /\ authorized \subseteq Peers
  /\ owner \in Peers \cup {NoPeer}
  /\ forced \subseteq Fans
  /\ stage \in Stages
  /\ client \in Peers \cup {NoPeer}
  /\ request \in Commands
  /\ target \subseteq Fans \cup {NoFan}

LEMMA TypeParts == TypeOK <=> FlagsOK /\ AgeOK /\ SetsOK
BY Zenon DEF TypeOK, FlagsOK, AgeOK, SetsOK

(* Each action assigns a flag a truth value or leaves it.                  *)
LEMMA FlagsStep == FlagsOK /\ [Next]_vars => FlagsOK'
<1> SUFFICES ASSUME FlagsOK, [Next]_vars PROVE FlagsOK'
  OBVIOUS
<1> USE DEF FlagsOK, engineVars, sessionVars, processVars, Reply
<1>1. ASSUME NEW p \in Peers, Accept(p) PROVE FlagsOK'
  BY <1>1, Zenon DEF Accept
<1>2. CASE Serve
  <2>1. ASSUME NEW c \in Commands, NEW fs \in Targets(c), Receive(c, fs) PROVE FlagsOK'
    BY <2>1, Zenon DEF Receive
  <2>2. CASE Expire
    BY <2>2, Zenon DEF Expire, HandBackOk, HandBackFails
  <2>3. CASE Status
    BY <2>3, Zenon DEF Status
  <2>4. CASE Heartbeat
    <3>1. (owner \in {NoPeer, client}) \in BOOLEAN
      OBVIOUS
    <3> QED BY <2>4, <3>1, Zenon DEF Heartbeat
  <2>5. CASE ResetAll
    BY <2>5, Zenon DEF ResetAll, HandBackOk, HandBackFails
  <2>6. CASE RefuseWrite \/ BeginWrite \/ ForceFan
    BY <2>6, Zenon DEF RefuseWrite, BeginWrite, ForceFan
  <2>7. CASE WriteOk \/ WriteFails \/ AutomaticOk
    BY <2>7, Zenon DEF WriteOk, WriteFails, AutomaticOk
  <2>8. CASE Respond \/ DropSession
    BY <2>8, Zenon DEF Respond, DropSession, NoSession
  <2> QED BY <1>2, <2>1, <2>2, <2>3, <2>4, <2>5, <2>6, <2>7, <2>8, Zenon DEF Serve
<1>3. CASE Watchdog \/ WillSleep
  BY <1>3, Zenon DEF Watchdog, WillSleep, HandBack, HandBackOk, HandBackFails
<1>4. CASE Wake
  BY <1>4, Zenon DEF Wake
<1>5. CASE Start \/ Signal \/ Exit \/ Crash
  BY <1>5, Zenon DEF Start, Signal, Exit, Crash, Forget, NoSession
<1>6. CASE Environment
  BY <1>6, Zenon DEF Environment, Tick, PeersChange, FirmwareReclaims
<1>7. CASE UNCHANGED vars
  BY <1>7, Zenon DEF vars
<1> QED BY <1>1, <1>2, <1>3, <1>4, <1>5, <1>6, <1>7, Zenon DEF Next

(* The age is reset, kept, or advanced below the deadline.                 *)
LEMMA AgeStep == AgeOK /\ [Next]_vars => AgeOK'
<1> SUFFICES ASSUME AgeOK, [Next]_vars PROVE AgeOK'
  OBVIOUS
<1>1. age' \in {0, age} \/ (age < LeaseTicks /\ age' = age + 1)
  <2> USE DEF engineVars
  <2>1. CASE Serve
    BY <2>1, Zenon DEF Serve, Receive, Expire, HandBackOk, HandBackFails, Status, Heartbeat,
       ResetAll, RefuseWrite, BeginWrite, ForceFan, WriteOk, WriteFails, AutomaticOk,
       Respond, DropSession
  <2>2. CASE Watchdog \/ WillSleep \/ Wake
    BY <2>2, Zenon DEF Watchdog, WillSleep, Wake, HandBack, HandBackOk, HandBackFails
  <2>3. CASE Start \/ Signal \/ Exit \/ Crash
    BY <2>3, Zenon DEF Start, Signal, Exit, Crash, Forget
  <2>4. CASE Environment
    BY <2>4, Zenon DEF Environment, Tick, PeersChange, FirmwareReclaims
  <2> QED BY <2>1, <2>2, <2>3, <2>4, Zenon DEF Next, vars, Accept
<1> QED BY <1>1, LeaseAssumption DEF AgeOK

(* Lease owners and clients are peers that connected; fans are real ones.  *)
LEMMA SetsStep == SetsOK /\ [Next]_vars => SetsOK'
<1> SUFFICES ASSUME SetsOK, [Next]_vars PROVE SetsOK'
  OBVIOUS
<1> USE DEF SetsOK, Stages, Commands, Writes, CustomWrites,
            engineVars, sessionVars, processVars, Reply
<1>1. ASSUME NEW p \in Peers, Accept(p) PROVE SetsOK'
  BY <1>1 DEF Accept
<1>2. CASE Serve
  <2>1. ASSUME NEW c \in Commands, NEW fs \in Targets(c), Receive(c, fs) PROVE SetsOK'
    BY <2>1 DEF Receive, Targets
  <2>2. CASE Expire
    BY <2>2 DEF Expire, HandBackOk, HandBackFails
  <2>3. CASE Status \/ Heartbeat
    BY <2>3 DEF Status, Heartbeat
  <2>4. CASE ResetAll
    BY <2>4 DEF ResetAll, HandBackOk, HandBackFails
  <2>5. CASE RefuseWrite \/ BeginWrite \/ ForceFan
    BY <2>5 DEF RefuseWrite, BeginWrite, ForceFan
  <2>6. CASE WriteOk \/ WriteFails \/ AutomaticOk
    BY <2>6 DEF WriteOk, WriteFails, AutomaticOk, Aftermath
  <2>7. CASE Respond \/ DropSession
    BY <2>7 DEF Respond, DropSession, NoSession
  <2> QED BY <1>2, <2>1, <2>2, <2>3, <2>4, <2>5, <2>6, <2>7, Zenon DEF Serve
<1>3. CASE Watchdog \/ WillSleep \/ Wake
  BY <1>3 DEF Watchdog, WillSleep, Wake, HandBack, HandBackOk, HandBackFails
<1>4. CASE Start \/ Signal \/ Exit \/ Crash
  BY <1>4 DEF Start, Signal, Exit, Crash, Forget, NoSession
<1>5. CASE Environment
  BY <1>5 DEF Environment, Tick, PeersChange, FirmwareReclaims
<1>6. CASE UNCHANGED vars
  BY <1>6 DEF vars
<1> QED BY <1>1, <1>2, <1>3, <1>4, <1>5, <1>6, Zenon DEF Next

(* Initially the values are of their types.                                *)
LEMMA TypeInit == Init => TypeOK
<1>1. Init => FlagsOK
  BY Zenon DEF Init, FlagsOK
<1>2. Init => AgeOK
  BY LeaseAssumption DEF Init, AgeOK
<1>3. Init => SetsOK
  BY DEF Init, SetsOK, Stages, Commands
<1> QED BY <1>1, <1>2, <1>3, TypeParts

(* The state of the helper keeps its type, and the lease's age never       *)
(* passes the deadline.                                                    *)
THEOREM TypeCorrect == Safety => []TypeOK
<1>1. TypeOK /\ [Next]_vars => TypeOK'
  <2>1. TypeOK' <=> FlagsOK' /\ AgeOK' /\ SetsOK'
    BY Zenon DEF TypeOK, FlagsOK, AgeOK, SetsOK
  <2> QED BY <2>1, TypeParts, FlagsStep, AgeStep, SetsStep
<1> QED BY <1>1, TypeInit, PTL DEF Safety

-----------------------------------------------------------------------------
(* The inductive invariant.                                                *)

(* What a daemon that is down has forgotten.                               *)
DownIsBlank ==
  ~running => owner = NoPeer /\ ~pending /\ ~sleeping /\ stage = "idle"

(* What the accept loop's position says of its session.                    *)
SessionInv ==
  /\ stage # "idle" => client \in Peers
  /\ stage = "checked" => ~pending

IInv ==
  /\ SetsOK
  /\ DownIsBlank
  /\ SessionInv
  /\ WriteIsLeased
  /\ ForcedIsWatched
  /\ SleepIsAutomatic

(* Nothing runs and nothing is leased at first.                            *)
LEMMA IInvInit == Init => IInv
<1>1. Init => SetsOK
  BY TypeInit, TypeParts
<1> QED BY <1>1, Zenon DEF Init, IInv, DownIsBlank, SessionInv, WriteIsLeased,
        ForcedIsWatched, SleepIsAutomatic

(* The accept loop: only ForceFan adds a forced fan, and it runs under the *)
(* lease taken by BeginWrite, with no hand-back owed and nobody asleep.    *)
LEMMA IInvServe == IInv /\ Serve => (DownIsBlank /\ SessionInv /\ WriteIsLeased
                                       /\ ForcedIsWatched /\ SleepIsAutomatic)'
<1> SUFFICES ASSUME IInv, Serve
             PROVE (DownIsBlank /\ SessionInv /\ WriteIsLeased
                      /\ ForcedIsWatched /\ SleepIsAutomatic)'
  OBVIOUS
<1> USE NoPeerAssumption
    DEF IInv, DownIsBlank, SessionInv, WriteIsLeased, ForcedIsWatched, SleepIsAutomatic,
        SetsOK, engineVars, sessionVars, processVars
<1> DEFINE Kept == (DownIsBlank /\ SessionInv /\ WriteIsLeased
                     /\ ForcedIsWatched /\ SleepIsAutomatic)'
<1>1. ASSUME NEW c \in Commands, NEW fs \in Targets(c), Receive(c, fs) PROVE Kept
  BY <1>1 DEF Receive
<1>2. CASE Expire
  BY <1>2 DEF Expire, HandBackOk, HandBackFails, MustHandBack, Reply
<1>3. CASE Status
  BY <1>3 DEF Status, Execute, Reply
<1>4. CASE Heartbeat
  BY <1>4 DEF Heartbeat, Execute, Reply
<1>5. CASE ResetAll
  BY <1>5 DEF ResetAll, Execute, HandBackOk, HandBackFails, Reply
<1>6. CASE RefuseWrite
  BY <1>6 DEF RefuseWrite, Write, Execute, Reply
<1>7. CASE BeginWrite
  BY <1>7 DEF BeginWrite, MayWrite, Write, Execute
<1>8. CASE ForceFan
  BY <1>8 DEF ForceFan
<1>9. CASE WriteOk \/ WriteFails \/ AutomaticOk
  BY <1>9 DEF WriteOk, WriteFails, AutomaticOk, Reply
<1>10. CASE Respond \/ DropSession
  BY <1>10 DEF Respond, DropSession, NoSession
<1> QED BY <1>1, <1>2, <1>3, <1>4, <1>5, <1>6, <1>7, <1>8, <1>9, <1>10, Zenon DEF Serve

(* The other threads, the daemon's life and the environment force no fan,  *)
(* and drop a lease only with every fan automatic or a hand-back owed.     *)
LEMMA IInvStep == IInv /\ [Next]_vars => IInv'
<1> SUFFICES ASSUME IInv, [Next]_vars PROVE IInv'
  OBVIOUS
<1>1. SetsOK'
  BY SetsStep DEF IInv
<1> DEFINE Kept == (DownIsBlank /\ SessionInv /\ WriteIsLeased
                     /\ ForcedIsWatched /\ SleepIsAutomatic)'
<1>2. Kept
  <2> USE NoPeerAssumption
      DEF IInv, DownIsBlank, SessionInv, WriteIsLeased, ForcedIsWatched, SleepIsAutomatic,
          SetsOK, engineVars, sessionVars, processVars
  <2>1. ASSUME NEW p \in Peers, Accept(p) PROVE Kept
    BY <2>1 DEF Accept
  <2>2. CASE Serve
    BY <2>2, IInvServe
  <2>3. CASE Watchdog
    BY <2>3 DEF Watchdog, Locked, HandBack, HandBackOk, HandBackFails, MustHandBack
  <2>4. CASE WillSleep
    BY <2>4 DEF WillSleep, Locked, HandBack, HandBackOk, HandBackFails
  <2>5. CASE Wake
    BY <2>5 DEF Wake, Locked
  <2>6. CASE Start
    BY <2>6 DEF Start
  <2>7. CASE Signal
    BY <2>7 DEF Signal
  <2>8. CASE Exit \/ Crash
    BY <2>8 DEF Exit, Crash, Forget, NoSession
  <2>9. CASE Environment
    BY <2>9 DEF Environment, Tick, PeersChange, FirmwareReclaims
  <2>10. CASE UNCHANGED vars
    BY <2>10 DEF vars
  <2> QED
    BY <2>1, <2>2, <2>3, <2>4, <2>5, <2>6, <2>7, <2>8, <2>9, <2>10, Zenon DEF Next
<1> QED BY <1>1, <1>2, Zenon DEF IInv

LEMMA Invariant == Safety => []IInv
BY IInvInit, IInvStep, PTL DEF Safety

-----------------------------------------------------------------------------
(* What follows from it.                                                   *)

(* No fan in forced mode is forgotten while the daemon runs, for any peers *)
(* and fans and through any half-failed write, reset, sleep or shutdown    *)
(* (helper.rs:572, 595).                                                   *)
THEOREM ForcedIsAlwaysWatched == Safety => []ForcedIsWatched
<1>1. IInv => ForcedIsWatched
  BY DEF IInv
<1> QED BY <1>1, Invariant, PTL

(* A machine whose sleep the helper was told of sleeps with its fans       *)
(* automatic, or with the hand-back still owed (helper.rs:766).            *)
THEOREM SleepIsAlwaysAutomatic == Safety => []SleepIsAutomatic
<1>1. IInv => SleepIsAutomatic
  BY DEF IInv
<1> QED BY <1>1, Invariant, PTL

(* Both together.                                                          *)
THEOREM ForcedIsAlwaysAccountedFor == Safety => []ForcedIsAccountedFor
<1>1. ForcedIsWatched /\ SleepIsAutomatic => ForcedIsAccountedFor
  BY Zenon DEF ForcedIsAccountedFor
<1> QED BY <1>1, ForcedIsAlwaysWatched, SleepIsAlwaysAutomatic, PTL

(* Registers are written only under the writer's own lease, awake and with *)
(* no hand-back owed (helper.rs:552-576).                                  *)
THEOREM WritesAreLeased == Safety => []WriteIsLeased
<1>1. IInv => WriteIsLeased
  BY DEF IInv
<1> QED BY <1>1, Invariant, PTL

(* Control changes hands, or is given up, only over a confirmed hand-back: *)
(* BeginWrite takes a free lease or keeps its own, and every step that     *)
(* drops a lease of a running daemon leaves the fans automatic             *)
(* (helper.rs:556, 608).                                                   *)
THEOREM ControlPassesThroughAutomatic == Safety => HandoverThroughAutomatic
<1> DEFINE Handover == running' /\ owner # NoPeer /\ owner' # owner
                         => owner' = NoPeer /\ forced' = {}
<1>1. IInv /\ [Next]_vars => Handover
  <2> SUFFICES ASSUME IInv, [Next]_vars, running', owner # NoPeer, owner' # owner
               PROVE owner' = NoPeer /\ forced' = {}
    OBVIOUS
  <2> USE DEF engineVars
  <2>1. CASE Serve
    BY <2>1, Zenon DEF Serve, Receive, Expire, HandBackOk, HandBackFails, Status, Heartbeat,
       ResetAll, RefuseWrite, BeginWrite, Write, MayWrite, ForceFan, WriteOk, WriteFails,
       AutomaticOk, Respond, DropSession
  <2>2. CASE Watchdog \/ WillSleep \/ Wake
    BY <2>2, Zenon DEF Watchdog, WillSleep, Wake, HandBack, HandBackOk, HandBackFails
  <2>3. CASE Start \/ Signal \/ Exit \/ Crash
    BY <2>3, Zenon DEF Start, Signal, Exit, Crash, Forget
  <2>4. CASE Environment
    BY <2>4, Zenon DEF Environment, Tick, PeersChange, FirmwareReclaims
  <2> QED BY <2>1, <2>2, <2>3, <2>4, Zenon DEF Next, vars, Accept
<1>2. [][Handover]_vars => HandoverThroughAutomatic
  BY PTL DEF HandoverThroughAutomatic
<1> QED BY <1>1, <1>2, Invariant, PTL DEF Safety

(* Behind NoRenewalAfterDeadline: the command that follows expire_lease    *)
(* finds a lease short of its deadline, or none.                           *)
AgeInv ==
  /\ AgeOK
  /\ owner = NoPeer => age = 0
  /\ stage = "checked" => age < LeaseTicks

LEMMA AgeInvStep == IInv /\ AgeInv /\ [Next]_vars => AgeInv'
<1> SUFFICES ASSUME IInv, AgeInv, [Next]_vars PROVE AgeInv'
  OBVIOUS
<1>1. AgeOK'
  BY AgeStep DEF AgeInv
<1>2. (owner = NoPeer => age = 0)' /\ (stage = "checked" => age < LeaseTicks)'
  <2> USE NoPeerAssumption, LeaseAssumption
      DEF AgeInv, AgeOK, engineVars, sessionVars, processVars, Reply
  <2>1. CASE Serve
    <3>1. CASE Expire
      BY <3>1 DEF Expire, MustHandBack, LeaseExpired, HandBackOk, HandBackFails
    <3>2. CASE Status \/ Heartbeat \/ ResetAll
      BY <3>2 DEF Status, Heartbeat, ResetAll, Execute, HandBackOk, HandBackFails
    <3>3. CASE RefuseWrite \/ BeginWrite \/ ForceFan
      BY <3>3 DEF RefuseWrite, BeginWrite, ForceFan, Write, Execute, IInv, SessionInv
    <3>4. CASE WriteOk \/ WriteFails \/ AutomaticOk
      BY <3>4 DEF WriteOk, WriteFails, AutomaticOk
    <3>5. CASE Respond \/ DropSession
      BY <3>5 DEF Respond, DropSession, NoSession
    <3>6. ASSUME NEW c \in Commands, NEW fs \in Targets(c), Receive(c, fs)
          PROVE (owner = NoPeer => age = 0)' /\ (stage = "checked" => age < LeaseTicks)'
      BY <3>6 DEF Receive
    <3> QED BY <2>1, <3>1, <3>2, <3>3, <3>4, <3>5, <3>6, Zenon DEF Serve
  <2>2. CASE Watchdog \/ WillSleep \/ Wake
    BY <2>2 DEF Watchdog, WillSleep, Wake, Locked, HandBack, HandBackOk, HandBackFails
  <2>3. CASE Start \/ Signal \/ Exit \/ Crash
    BY <2>3 DEF Start, Signal, Exit, Crash, Forget, NoSession
  <2>4. CASE Environment
    BY <2>4 DEF Environment, Tick, PeersChange, FirmwareReclaims
  <2>5. CASE UNCHANGED vars
    BY <2>5 DEF vars
  <2>6. ASSUME NEW p \in Peers, Accept(p)
        PROVE (owner = NoPeer => age = 0)' /\ (stage = "checked" => age < LeaseTicks)'
    BY <2>6 DEF Accept
  <2> QED BY <2>1, <2>2, <2>3, <2>4, <2>5, <2>6, Zenon DEF Next
<1> QED BY <1>1, <1>2, Zenon DEF AgeInv

(* A lease at its deadline stays there until it is handed back: every      *)
(* command first meets expire_lease (helper.rs:534).                       *)
THEOREM DeadlineIsFinal == Safety => NoRenewalAfterDeadline
<1> DEFINE Final == age = LeaseTicks => age' = age \/ owner' = NoPeer
<1>1. Init => AgeInv
  BY TypeInit, TypeParts, LeaseAssumption DEF Init, AgeInv
<1>2. IInv /\ AgeInv /\ [Next]_vars => Final
  <2> SUFFICES ASSUME IInv, AgeInv, [Next]_vars, age = LeaseTicks
               PROVE age' = age \/ owner' = NoPeer
    OBVIOUS
  <2>1. stage # "checked" /\ ~(age < LeaseTicks)
    BY LeaseAssumption DEF AgeInv
  <2> USE <2>1 DEF engineVars
  <2>2. CASE Serve
    BY <2>2, Zenon DEF Serve, Receive, Expire, HandBackOk, HandBackFails, Status, Heartbeat,
       ResetAll, RefuseWrite, BeginWrite, Write, Execute, ForceFan, WriteOk, WriteFails,
       AutomaticOk, Respond, DropSession
  <2>3. CASE Watchdog \/ WillSleep \/ Wake
    BY <2>3, Zenon DEF Watchdog, WillSleep, Wake, HandBack, HandBackOk, HandBackFails
  <2>4. CASE Start \/ Signal \/ Exit \/ Crash
    BY <2>4, Zenon DEF Start, Signal, Exit, Crash, Forget
  <2>5. CASE Environment
    BY <2>5, Zenon DEF Environment, Tick, PeersChange, FirmwareReclaims
  <2> QED BY <2>2, <2>3, <2>4, <2>5, Zenon DEF Next, vars, Accept
<1>3. [][Final]_vars => NoRenewalAfterDeadline
  BY PTL DEF NoRenewalAfterDeadline
<1> QED BY <1>1, <1>2, <1>3, AgeInvStep, Invariant, PTL DEF Safety

(* The three rules of the lease together: exclusive, final at its deadline,*)
(* passed on only over automatic fans (helper.rs:534-576, 608).            *)
THEOREM LeasesAreExclusive == Safety => LeaseIsExclusive
BY WritesAreLeased, ControlPassesThroughAutomatic, DeadlineIsFinal DEF LeaseIsExclusive

-----------------------------------------------------------------------------
(* The helper implements FanCustody.                                       *)

Custodian == IF ~running \/ (owner = NoPeer /\ pending) THEN "recovery" ELSE owner

(* The three ways a step of the helper can look to FanCustody, by what it  *)
(* does to the mapped custodian and to the forced fans.                    *)
LEMMA CustodyStep ==
  ASSUME \/ Custodian' = Custodian /\ forced' \in SUBSET forced
         \/ Custodian' = NoPeer /\ forced' = {}
         \/ Custodian' = "recovery" /\ forced' \in SUBSET Fans
         \/ Custodian = NoPeer /\ Custodian' \in Peers /\ forced' = forced
         \/ Custodian \in Peers /\ Custodian' = Custodian /\ forced' \in SUBSET Fans
  PROVE  Custody!Next
BY Zenon DEF Custodian, Custody!Next, Custody!Subside, Custody!HandBack, Custody!Lose,
             Custody!Take, Custody!Drive

(* Every step of the helper is a step of FanCustody under its mapping:     *)
(* BeginWrite takes custody, ForceFan drives, a confirmed hand-back gives  *)
(* the fans back, and all else lets them subside or loses custody          *)
(* (helper.rs:520-632, 766-796, 829-836).                                  *)
THEOREM HelperKeepsCustody == Safety => CustodyKept
<1>1. Init => Custody!Init
  BY Zenon DEF Init, Custody!Init
<1>2. IInv /\ [Next]_vars => [Custody!Next]_(Custody!vars)
  <2> SUFFICES ASSUME IInv, [Next]_vars PROVE [Custody!Next]_(Custody!vars)
    OBVIOUS
  <2> USE DEF engineVars, sessionVars, processVars
  <2>1. CASE Serve
    <3>1. CASE ForceFan
      <4>1. Custodian' = Custodian
        BY <3>1, Zenon DEF ForceFan, Custodian
      <4>2. Custodian \in Peers
        BY <3>1, NoPeerAssumption DEF ForceFan, Custodian, IInv, DownIsBlank, SessionInv,
           WriteIsLeased
      <4>3. forced' \in SUBSET Fans
        BY <3>1 DEF ForceFan, IInv, SetsOK
      <4> QED BY <4>1, <4>2, <4>3, CustodyStep
    <3>2. CASE BeginWrite
      <4>1. running /\ ~pending /\ running' = running /\ pending' = pending
            /\ owner' = client /\ forced' = forced /\ client \in Peers
        BY <3>2, Zenon DEF BeginWrite, Write, Execute, IInv, DownIsBlank, SessionInv
      <4>2. Custodian = owner /\ Custodian' = client
        BY <4>1, Zenon DEF Custodian
      <4>3. owner \in {NoPeer, client}
        BY <3>2 DEF BeginWrite, MayWrite
      <4> QED BY <4>1, <4>2, <4>3, CustodyStep
    <3>3. CASE HandBackOk /\ running' = running /\ running
      <4>1. Custodian' = NoPeer /\ forced' = {}
        BY <3>3, Zenon DEF HandBackOk, Custodian
      <4> QED BY <4>1, CustodyStep
    <3>4. CASE HandBackFails /\ running' = running /\ running
      <4>1. forced' \in SUBSET Fans
        BY <3>4, Zenon DEF HandBackFails
      <4>2. Custodian' = "recovery" \/ (Custodian' = Custodian /\ Custodian \in Peers)
        BY <3>4, Zenon DEF HandBackFails, Custodian, IInv, SetsOK
      <4> QED BY <4>1, <4>2, CustodyStep
    <3>5. CASE UNCHANGED <<running, owner, pending>> /\ forced' \in SUBSET forced
      <4>1. Custodian' = Custodian
        BY <3>5, Zenon DEF Custodian
      <4> QED BY <3>5, <4>1, CustodyStep
    <3>6. Serve => running
      BY Zenon DEF Serve, Receive, Expire, Status, Heartbeat, ResetAll, RefuseWrite,
         BeginWrite, Write, ForceFan, WriteOk, WriteFails, AutomaticOk, Respond,
         DropSession, Execute, IInv, DownIsBlank
    <3>7. CASE WriteFails \/ AutomaticOk
      <4>1. Custodian' = Custodian
        <5>1. UNCHANGED <<running, owner, pending>>
          BY <3>7 DEF WriteFails, AutomaticOk
        <5> QED BY <5>1, Zenon DEF Custodian
      <4>2. Custodian \in Peers
        BY <3>7, NoPeerAssumption DEF WriteFails, AutomaticOk, Custodian, IInv, DownIsBlank,
           SessionInv, WriteIsLeased
      <4>3. forced' \in SUBSET Fans
        <5>1. forced \subseteq Fans
          BY DEF IInv, SetsOK
        <5>2. CASE forced \ target = {}
          BY <3>7, <5>1, <5>2 DEF WriteFails, AutomaticOk, Aftermath
        <5>3. CASE forced \ target # {}
          BY <3>7, <5>1, <5>3 DEF WriteFails, AutomaticOk, Aftermath
        <5> QED BY <5>2, <5>3
      <4> QED BY <4>1, <4>2, <4>3, CustodyStep
    <3>8. forced \in SUBSET forced
      OBVIOUS
    <3> QED
      BY <2>1, <3>1, <3>2, <3>3, <3>4, <3>5, <3>6, <3>7, <3>8, Zenon
      DEF Serve, Receive, Expire, Status, Heartbeat, ResetAll, RefuseWrite, WriteOk,
          Respond, DropSession
  <2>2. CASE Watchdog \/ WillSleep
    <3>1. CASE HandBackOk
      <4>1. running'
        BY <2>2 DEF Watchdog, WillSleep
      <4>2. Custodian' = NoPeer /\ forced' = {}
        BY <3>1, <4>1, Zenon DEF HandBackOk, Custodian
      <4> QED BY <4>2, CustodyStep
    <3>2. CASE HandBackFails
      <4>1. forced' \in SUBSET Fans
        BY <3>2, Zenon DEF HandBackFails
      <4>2. Custodian' = "recovery" \/ (Custodian' = Custodian /\ Custodian \in Peers)
        BY <2>2, <3>2, Zenon DEF Watchdog, WillSleep, processVars, HandBackFails, Custodian,
           IInv, SetsOK
      <4> QED BY <4>1, <4>2, CustodyStep
    <3> QED BY <2>2, <3>1, <3>2, Zenon DEF Watchdog, WillSleep, HandBack
  <2>3. CASE Start
    <3>1. owner = NoPeer /\ ~pending /\ owner' = owner /\ pending' = pending
      BY <2>3, Zenon DEF Start, IInv, DownIsBlank
    <3>2. CASE forced' = {} /\ running'
      <4>1. Custodian' = NoPeer
        BY <3>1, <3>2, Zenon DEF Custodian
      <4> QED BY <3>2, <4>1, CustodyStep
    <3>3. CASE forced' \in SUBSET Fans /\ running' = running
      <4>1. Custodian' = "recovery"
        BY <2>3, <3>3, Zenon DEF Start, Custodian
      <4> QED BY <3>3, <4>1, CustodyStep
    <3> QED BY <2>3, <3>2, <3>3, Zenon DEF Start
  <2>4. CASE Exit \/ Crash
    <3>1. Custodian' = "recovery"
      BY <2>4, Zenon DEF Exit, Crash, Forget, Custodian
    <3>2. forced' \in SUBSET Fans
      BY <2>4 DEF Exit, Crash, IInv, SetsOK
    <3> QED BY <3>1, <3>2, CustodyStep
  <2>5. CASE Wake \/ Signal \/ Environment \/ (\E p \in Peers : Accept(p)) \/ UNCHANGED vars
    <3>1. UNCHANGED <<running, owner, pending>> /\ forced' \in SUBSET forced
      BY <2>5 DEF Wake, Signal, Environment, Tick, PeersChange, FirmwareReclaims, Accept, vars
    <3>2. Custodian' = Custodian
      BY <3>1, Zenon DEF Custodian
    <3> QED BY <3>1, <3>2, CustodyStep
  <2> QED BY <2>1, <2>2, <2>3, <2>4, <2>5, Zenon DEF Next
<1> QED BY <1>1, <1>2, Invariant, PTL DEF Safety, CustodyKept

-----------------------------------------------------------------------------
(* Calls of the helper.  A command can only be where the helper is, and    *)
(* for that to stay so one must know whose connection is whose and how far *)
(* each has come.                                                          *)

(* A caller has a connection exactly while it is in a call, and it is its  *)
(* own.                                                                    *)
SocketsOwned ==
  /\ \A c \in Callers : phase[c] = "idle" <=> socket[c] = NoConnection
  /\ \A c, d \in Callers : socket[c] = socket[d] /\ socket[c] # NoConnection => c = d

(* A command is executed once, after it was written, and answered after    *)
(* that; and no connection is greeted before it is accepted.               *)
FramesInOrder ==
  /\ \A c \in Callers : phase[c] \in {"status", "hello"} => socket[c] \notin executed \cup orders
  /\ orders \cap executed = {}
  /\ answers \subseteq executed
  /\ backlog \cap greetings = {} /\ serving \notin backlog

CallsInv == CallsTypeOK /\ OnlyServedIsCommanded /\ SocketsOwned /\ FramesInOrder

LEMMA CallsInvInit == CallsInit => CallsInv
<1> SUFFICES ASSUME CallsInit PROVE CallsInv
  OBVIOUS
<1> USE NoConnectionAssumption DEF CallsInit
<1>1. CallsTypeOK
  BY DEF CallsTypeOK
<1>2. OnlyServedIsCommanded
  BY DEF OnlyServedIsCommanded
<1>3. SocketsOwned
  BY DEF SocketsOwned
<1>4. FramesInOrder
  BY DEF FramesInOrder
<1> QED BY <1>1, <1>2, <1>3, <1>4 DEF CallsInv

LEMMA CallsTypeStep == CallsTypeOK /\ [CallsNext]_callVars => CallsTypeOK'
<1> SUFFICES ASSUME CallsTypeOK, [CallsNext]_callVars PROVE CallsTypeOK'
  OBVIOUS
<1> USE DEF CallsTypeOK, clients, server, frames
<1>1. ASSUME NEW c \in Callers, NEW first \in {"status", "hello"}, NEW k \in Connections,
             Connect(c, first, k)
      PROVE  CallsTypeOK'
  BY <1>1 DEF Connect
<1>2. ASSUME NEW c \in Callers, Ask(c) PROVE CallsTypeOK'
  BY <1>2 DEF Ask
<1>3. ASSUME NEW c \in Callers, Leave(c) PROVE CallsTypeOK'
  BY <1>3 DEF Leave
<1>4. ASSUME NEW k \in Connections, AcceptNext(k) PROVE CallsTypeOK'
  BY <1>4 DEF AcceptNext
<1>5. CASE Greet
  BY <1>5 DEF Greet
<1>6. CASE Perform
  BY <1>6 DEF Perform
<1>7. CASE Confirm \/ HangUp
  BY <1>7 DEF Confirm, HangUp
<1>8. CASE Terminate \/ Relaunch
  BY <1>8 DEF Terminate, Relaunch
<1>9. CASE UNCHANGED callVars
  BY <1>9 DEF callVars
<1> QED BY <1>1, <1>2, <1>3, <1>4, <1>5, <1>6, <1>7, <1>8, <1>9
        DEF CallsNext, Return, GiveUp

(* Only Connect and Leave touch a socket: one takes a free connection, the *)
(* other leaves the caller idle without one.                               *)
LEMMA SocketsStep ==
  CallsTypeOK /\ SocketsOwned /\ [CallsNext]_callVars => SocketsOwned'
<1> SUFFICES ASSUME CallsTypeOK, SocketsOwned, [CallsNext]_callVars PROVE SocketsOwned'
  OBVIOUS
<1> USE NoConnectionAssumption DEF CallsTypeOK, SocketsOwned, clients, server, frames
<1>1. ASSUME NEW c \in Callers, NEW first \in {"status", "hello"}, NEW k \in Connections,
             Connect(c, first, k)
      PROVE  SocketsOwned'
  <2>1. k # NoConnection /\ \A d \in Callers : socket[d] # k
    BY <1>1 DEF Connect, Held
  <2>2. /\ phase' = [phase EXCEPT ![c] = first]
        /\ socket' = [socket EXCEPT ![c] = k]
    BY <1>1 DEF Connect
  <2> QED BY <2>1, <2>2
<1>2. ASSUME NEW c \in Callers, Ask(c) PROVE SocketsOwned'
  BY <1>2 DEF Ask
<1>3. ASSUME NEW c \in Callers, Leave(c) PROVE SocketsOwned'
  BY <1>3 DEF Leave
<1>4. CASE UNCHANGED clients
  BY <1>4
<1> QED BY <1>1, <1>2, <1>3, <1>4
        DEF CallsNext, callVars, Return, GiveUp, AcceptNext, Greet, Perform, Confirm, HangUp,
            Terminate, Relaunch

(* A command is written only into a connection that was greeted, which no  *)
(* connection of the backlog was.                                          *)
LEMMA FramesStep ==
  CallsInv /\ [CallsNext]_callVars => OnlyServedIsCommanded' /\ FramesInOrder'
<1> SUFFICES ASSUME CallsInv, [CallsNext]_callVars
             PROVE  OnlyServedIsCommanded' /\ FramesInOrder'
  OBVIOUS
<1> USE NoConnectionAssumption
        DEF CallsInv, OnlyServedIsCommanded, FramesInOrder, CallsTypeOK, clients, server, frames
<1>1. ASSUME NEW c \in Callers, NEW first \in {"status", "hello"}, NEW k \in Connections,
             Connect(c, first, k)
      PROVE  OnlyServedIsCommanded' /\ FramesInOrder'
  BY <1>1 DEF Connect
<1>2. ASSUME NEW c \in Callers, Ask(c) PROVE OnlyServedIsCommanded' /\ FramesInOrder'
  <2>1. \A d \in Callers : socket[d] = socket[c] => d = c
    BY <1>2 DEF Ask, SocketsOwned
  <2> QED BY <1>2, <2>1 DEF Ask
<1>3. ASSUME NEW c \in Callers, Leave(c) PROVE OnlyServedIsCommanded' /\ FramesInOrder'
  BY <1>3 DEF Leave
<1>4. ASSUME NEW k \in Connections, AcceptNext(k)
      PROVE  OnlyServedIsCommanded' /\ FramesInOrder'
  BY <1>4 DEF AcceptNext
<1>5. CASE Greet
  BY <1>5 DEF Greet
<1>6. CASE Perform
  BY <1>6 DEF Perform
<1>7. CASE Confirm
  BY <1>7 DEF Confirm
<1>8. CASE HangUp
  BY <1>8 DEF HangUp
<1>9. CASE Terminate \/ Relaunch
  BY <1>9 DEF Terminate, Relaunch
<1>10. CASE UNCHANGED callVars
  BY <1>10 DEF callVars
<1> QED BY <1>1, <1>2, <1>3, <1>4, <1>5, <1>6, <1>7, <1>8, <1>9, <1>10
        DEF CallsNext, Return, GiveUp

LEMMA CallsInvStep == CallsInv /\ [CallsNext]_callVars => CallsInv'
BY CallsTypeStep, SocketsStep, FramesStep, Zenon DEF CallsInv

LEMMA CallsInvariant == CallsSpec => []CallsInv
BY CallsInvInit, CallsInvStep, PTL DEF CallsSpec

(* However many callers connect and leave, no command waits outside the    *)
(* connection in service (helper.rs:271, 798).                             *)
THEOREM OnlyTheServedIsCommanded == CallsSpec => []OnlyServedIsCommanded
<1>1. CallsInv => OnlyServedIsCommanded
  BY Zenon DEF CallsInv
<1> QED BY <1>1, CallsInvariant, PTL

(* A step that moves one call at most, seen by the contract.               *)
Standing == [c \in Callers |-> CallOf(c)]

Strays == orders \ Held

LEMMA StandsStill ==
  ASSUME \A d \in Callers : CallOf(d)' = CallOf(d)
  PROVE  Standing' = Standing
BY DEF Standing

LEMMA Moves ==
  ASSUME NEW c \in Callers, NEW to, CallOf(c)' = to,
         \A d \in Callers \ {c} : CallOf(d)' = CallOf(d)
  PROVE  Standing' = [Standing EXCEPT ![c] = to]
BY DEF Standing

(* Where a command waits, it is the only one; its caller waits for it, or  *)
(* it is a stray.                                                          *)
LEMMA OneOrder ==
  ASSUME CallsInv
  PROVE  /\ \A c \in Callers : socket[c] \in orders =>
              /\ Strays = {} /\ phase[c] = "asked" /\ CallOf(c) = "open"
              /\ orders = {serving} /\ serving = socket[c]
         /\ serving \notin orders => orders = {} /\ Strays = {}
<1> USE DEF CallsInv, OnlyServedIsCommanded, CallsTypeOK
<1>1. ASSUME NEW c \in Callers, socket[c] \in orders
      PROVE  /\ Strays = {} /\ phase[c] = "asked" /\ CallOf(c) = "open"
             /\ orders = {serving} /\ serving = socket[c]
  <2>1. phase[c] = "asked" /\ socket[c] \notin executed
    BY <1>1, NoConnectionAssumption DEF FramesInOrder, SocketsOwned
  <2>2. CallOf(c) = "open"
    BY <2>1 DEF CallOf, Done
  <2>3. orders = {serving} /\ serving = socket[c]
    BY <1>1
  <2> QED BY <2>1, <2>2, <2>3 DEF Strays, Held
<1>2. serving \notin orders => orders = {} /\ Strays = {}
  BY DEF Strays
<1> QED BY <1>1, <1>2

LEMMA ClientKeepsPromise ==
  ASSUME CallsInv, CallsInv', NEW c \in Callers,
         \/ \E first \in {"status", "hello"}, k \in Connections : Connect(c, first, k)
         \/ Ask(c) \/ Return(c) \/ GiveUp(c)
  PROVE  [Promise!Next]_(Promise!vars)
<1> USE NoConnectionAssumption
<1> DEFINE Still == Standing' = Standing /\ Strays' = Strays
<1>1. Still => [Promise!Next]_(Promise!vars)
  BY Zenon DEF Promise!vars, Standing, Strays
<1>2. ASSUME NEW first \in {"status", "hello"}, NEW k \in Connections, Connect(c, first, k)
      PROVE  Promise!Begin(c)
  <2>1. \A d \in Callers \ {c} : CallOf(d)' = CallOf(d)
    BY <1>2 DEF Connect, CallOf, Done, CallsInv, CallsTypeOK, Held
  <2>2. CallOf(c) = "none" /\ CallOf(c)' = "open"
    BY <1>2 DEF Connect, CallOf, Done, CallsInv, CallsTypeOK
  <2>3. Strays' = Strays
    BY <1>2 DEF Connect, Strays, Held, CallsInv, CallsTypeOK, OnlyServedIsCommanded, SocketsOwned
  <2> QED BY <2>1, <2>2, <2>3, Moves DEF Promise!Begin, Promise!Move, Standing, Strays
<1>3. ASSUME Ask(c) PROVE Still
  <2>1. \A d \in Callers : CallOf(d)' = CallOf(d)
    BY <1>3 DEF Ask, CallOf, Done, CallsInv, CallsTypeOK, SocketsOwned, FramesInOrder
  <2>2. Strays' = Strays
    BY <1>3 DEF Ask, Strays, Held
  <2> QED BY <2>1, <2>2, StandsStill
<1>4. ASSUME Leave(c), phase[c] # "idle"
      PROVE  /\ Standing' = [Standing EXCEPT ![c] = "none"]
             /\ Standing[c] \in {"open", "done"}
             /\ \/ Strays' = Strays
                \/ Strays = {} /\ Strays' = {socket[c]} /\ Standing[c] = "open"
  <2>1. \A d \in Callers \ {c} : CallOf(d)' = CallOf(d)
    BY <1>4 DEF Leave, CallOf, Done, CallsInv, CallsTypeOK, frames
  <2>2. CallOf(c)' = "none" /\ CallOf(c) \in {"open", "done"}
    BY <1>4 DEF Leave, CallOf, CallsInv, CallsTypeOK
  <2>3. CASE socket[c] \notin orders
    BY <2>1, <2>2, <2>3, <1>4, Moves DEF Leave, Strays, Held, Standing, CallsInv, CallsTypeOK, frames
  <2>4. CASE socket[c] \in orders
    <3>1. Strays = {} /\ CallOf(c) = "open" /\ orders = {socket[c]}
      BY <2>4, OneOrder
    <3>2. Strays' = {socket[c]}
      BY <3>1, <1>4 DEF Leave, Strays, Held, CallsInv, CallsTypeOK, SocketsOwned, frames
    <3> QED BY <2>1, <2>2, <3>1, <3>2, Moves DEF Standing
  <2> QED BY <2>3, <2>4
<1>5. ASSUME Return(c) PROVE Promise!Answer(c)
  <2>1. phase[c] # "idle" /\ Leave(c) /\ CallOf(c) = "done"
    BY <1>5 DEF Return, CallOf, Done, CallsInv, FramesInOrder
  <2> QED BY <2>1, <1>4 DEF Promise!Answer, Promise!Move, Standing, Strays
<1>6. ASSUME GiveUp(c) PROVE Promise!Fail(c)
  <2>1. phase[c] # "idle" /\ Leave(c)
    BY <1>6 DEF GiveUp
  <2>2. CASE Strays' = Strays
    BY <2>1, <2>2, <1>4 DEF Promise!Fail, Promise!Move, Standing, Strays
  <2>3. CASE Strays = {} /\ Strays' = {socket[c]} /\ Standing[c] = "open"
    <3>1. socket[c] \in Connections
      BY <2>1 DEF CallsInv, CallsTypeOK, SocketsOwned
    <3> QED BY <2>1, <2>3, <3>1, <1>4 DEF Promise!Fail, Promise!Move, Standing, Strays
  <2> QED BY <2>1, <2>2, <2>3, <1>4
<1> QED BY <1>1, <1>2, <1>3, <1>5, <1>6, Zenon DEF Promise!Next

(* What a step of the helper can do to the calls: execute one, settle a    *)
(* stray, or nothing.                                                      *)
LEMMA HelperKeepsPromise ==
  ASSUME CallsInv, CallsInv', UNCHANGED clients,
         \/ \E k \in Connections : AcceptNext(k)
         \/ Greet \/ Perform \/ Confirm \/ HangUp \/ Terminate \/ Relaunch
  PROVE  [Promise!Next]_(Promise!vars)
<1> USE DEF clients
<1>1. ASSUME Standing' = Standing, Strays' = Strays \/ Strays' = {}
      PROVE  [Promise!Next]_(Promise!vars)
  BY <1>1 DEF Promise!Next, Promise!Settle, Promise!vars, Standing, Strays
<1>2. ASSUME NEW c \in Callers, CallOf(c) = "open", CallOf(c)' = "done",
             \A d \in Callers \ {c} : CallOf(d)' = CallOf(d), Strays = {}, Strays' = {}
      PROVE  [Promise!Next]_(Promise!vars)
  <2>1. Promise!Execute(c)
    BY <1>2, Moves DEF Promise!Execute, Promise!Move, Standing, Strays
  <2> QED BY <2>1, Zenon DEF Promise!Next
<1>3. CASE Greet
  <2>1. Strays' = Strays
    BY <1>3 DEF Greet, Strays, Held
  <2>2. CASE \E c \in Callers : phase[c] = "status" /\ socket[c] = serving /\ ~Done(c)
    <3>1. PICK c \in Callers : phase[c] = "status" /\ socket[c] = serving /\ ~Done(c)
      BY <2>2
    <3>2. CallOf(c) = "open" /\ CallOf(c)' = "done"
      BY <3>1, <1>3 DEF Greet, CallOf, Done
    <3>3. \A d \in Callers \ {c} : CallOf(d)' = CallOf(d)
      BY <3>1, <1>3 DEF Greet, CallOf, Done, CallsInv, SocketsOwned
    <3>4. Strays = {}
      BY <3>1, OneOrder DEF CallsInv, FramesInOrder
    <3> QED BY <2>1, <3>2, <3>3, <3>4, <1>2
  <2>3. CASE ~ \E c \in Callers : phase[c] = "status" /\ socket[c] = serving /\ ~Done(c)
    <3>1. \A d \in Callers : CallOf(d)' = CallOf(d)
      BY <2>3, <1>3 DEF Greet, CallOf, Done
    <3> QED BY <2>1, <3>1, <1>1, StandsStill
  <2> QED BY <2>2, <2>3
<1>4. CASE Perform
  <2>1. orders = {serving} /\ orders' = {} /\ Strays' = {}
    BY <1>4 DEF Perform, Strays, CallsInv, OnlyServedIsCommanded
  <2>2. CASE serving \in Held
    <3>1. PICK c \in Callers : socket[c] = serving
      BY <2>2 DEF Held
    <3>2. Strays = {} /\ phase[c] = "asked" /\ CallOf(c) = "open"
      BY <3>1, <2>1, OneOrder
    <3>3. CallOf(c)' = "done"
      BY <3>1, <3>2, <1>4 DEF Perform, CallOf, Done
    <3>4. \A d \in Callers \ {c} : CallOf(d)' = CallOf(d)
      BY <3>1, <1>4, NoConnectionAssumption
         DEF Perform, CallOf, Done, CallsInv, SocketsOwned, CallsTypeOK
    <3> QED BY <2>1, <3>2, <3>3, <3>4, <1>2
  <2>3. CASE serving \notin Held
    <3>1. \A d \in Callers : CallOf(d)' = CallOf(d)
      BY <2>3, <1>4 DEF Perform, CallOf, Done, Held
    <3> QED BY <2>1, <3>1, <1>1, StandsStill
  <2> QED BY <2>2, <2>3
<1>5. ASSUME UNCHANGED <<greetings, executed>>, orders' \in {orders, orders \ {serving}, {}}
      PROVE  [Promise!Next]_(Promise!vars)
  <2>1. \A d \in Callers : CallOf(d)' = CallOf(d)
    BY <1>5 DEF CallOf, Done
  <2>2. Strays' = Strays \/ Strays' = {}
    BY <1>5 DEF Strays, Held, CallsInv, OnlyServedIsCommanded
  <2> QED BY <2>1, <2>2, <1>1, StandsStill
<1>6. CASE \/ \E k \in Connections : AcceptNext(k)
           \/ Confirm \/ HangUp \/ Terminate \/ Relaunch
  BY <1>5, <1>6 DEF AcceptNext, Confirm, HangUp, Terminate, Relaunch, frames
<1> QED BY <1>3, <1>4, <1>6

(* The client and the accept loop together keep the contract that Worker   *)
(* relies on, for any number of callers and connections: no call is        *)
(* answered for another, and none overtakes one that was given up.         *)
THEOREM CallsKeepPromise == CallsSpec => CallsAreOrdered
<1>1. CallsInit => Promise!Init
  BY DEF CallsInit, Promise!Init, CallOf, Done
<1>2. CallsInv /\ CallsInv' /\ [CallsNext]_callVars => [Promise!Next]_(Promise!vars)
  <2> SUFFICES ASSUME CallsInv, CallsInv', [CallsNext]_callVars
               PROVE  [Promise!Next]_(Promise!vars)
    OBVIOUS
  <2>1. CASE UNCHANGED callVars
    BY <2>1 DEF callVars, clients, frames, Promise!vars, CallOf, Done, Held
  <2>2. ASSUME NEW c \in Callers,
               \/ \E first \in {"status", "hello"}, k \in Connections : Connect(c, first, k)
               \/ Ask(c) \/ Return(c) \/ GiveUp(c)
        PROVE  [Promise!Next]_(Promise!vars)
    BY <2>2, ClientKeepsPromise
  <2>3. CASE \/ \E k \in Connections : AcceptNext(k)
             \/ Greet \/ Perform \/ Confirm \/ HangUp \/ Terminate \/ Relaunch
    <3>1. UNCHANGED clients
      BY <2>3 DEF AcceptNext, Greet, Perform, Confirm, HangUp, Terminate, Relaunch, clients
    <3> QED BY <2>3, <3>1, HelperKeepsPromise
  <2> QED BY <2>1, <2>2, <2>3, Zenon DEF CallsNext
<1> QED BY <1>1, <1>2, CallsInvariant, PTL DEF CallsSpec, CallsAreOrdered, Promise!Spec

=============================================================================
