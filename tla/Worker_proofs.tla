--------------------------- MODULE Worker_proofs ---------------------------
(***************************************************************************)
(* The safety properties of Worker for any number of fans.  They rest on   *)
(* one inductive invariant: whatever the app does not account for, by      *)
(* `controlled`, by a pending action or by a debt, is accounted for by     *)
(* `active`, and only a confirmed reset clears that.                       *)
(***************************************************************************)
EXTENDS Worker, TLAPS

-----------------------------------------------------------------------------
(* Types, in two parts: flags, and the rest.                               *)

FlagsOK ==
  /\ active \in BOOLEAN /\ controlled \in BOOLEAN /\ later \in BOOLEAN /\ hold \in BOOLEAN
  /\ ready \in BOOLEAN /\ paused \in BOOLEAN /\ released \in BOOLEAN

SetsOK ==
  /\ at \in Phases
  /\ batch \in [Fans -> Kinds] /\ (at # "batch" => batch = NoBatch)
  /\ custom \subseteq Fans /\ pending \subseteq Fans
  /\ { f \in Fans : batch[f] # "none" } \subseteq pending
  /\ installer \in {"none", "reset", "remove", "removed", "install", "installed"}
  /\ installing \in BOOLEAN /\ installing = (installer # "none")
  /\ helper \in {"up", "absent"} /\ forced \subseteq Fans
  /\ late \in Fans \cup {"nothing", "release"}
  /\ debt \subseteq Fans

LEMMA TypeParts == TypeOK <=> FlagsOK /\ SetsOK
BY Zenon DEF TypeOK, FlagsOK, SetsOK

-----------------------------------------------------------------------------
(* The inductive invariant.                                                *)

(* Only an app that is awake runs a batch, and outside one, or with no     *)
(* hand-back owed, the actions pending are those of the batch.             *)
BatchInv ==
  /\ at = "batch" => ~paused
  /\ ~active /\ at \notin {"stopped", "gone"} =>
       pending \subseteq { f \in Fans : batch[f] # "none" }

(* A debt is owed.                                                         *)
DebtInv == debt # {} => active

(* The batch drives fans with a custom mode, and a user who asked for a    *)
(* reset has left none.                                                    *)
CustomInv ==
  /\ \A f \in Fans : batch[f] \in Takeovers => f \in custom
  /\ released => custom = {}

(* From its confirmed reset to the removal, no fan is taken over.          *)
RemoveInv == installer = "remove" => Free

IInv ==
  /\ FlagsOK /\ SetsOK
  /\ UnownedIsFree /\ BatchInv /\ DebtInv /\ CustomInv /\ RemoveInv

(* Nothing is driven, owed or pending at first.                            *)
LEMMA IInvInit == Init => IInv
BY FansAssumption
   DEF Init, IInv, FlagsOK, SetsOK, UnownedIsFree, Free, BatchInv, DebtInv, CustomInv, RemoveInv,
       Phases, Kinds, Takeovers, NoBatch

-----------------------------------------------------------------------------
(* Types are preserved.                                                    *)

(* Each action assigns a flag a truth value or leaves it.                  *)
LEMMA FlagsStep == FlagsOK /\ [Next]_vars => FlagsOK'
<1> SUFFICES ASSUME FlagsOK, [Next]_vars PROVE FlagsOK'
  OBVIOUS
<1> USE DEF FlagsOK, handback, history, Require
<1>1. ASSUME NEW f \in Fans, Configure(f) PROVE FlagsOK'
  BY <1>1, Zenon DEF Configure, ConfigureCustom, ConfigureAutomatic
<1>2. CASE ConfigurePolicy \/ Reset \/ Uninstalled \/ Install \/ Installed \/ Wake
  BY <1>2, Zenon DEF ConfigurePolicy, Reset, Uninstalled, Install, Installed, Wake
<1>3. CASE Uninstall \/ Sleep
  BY <1>3, Zenon DEF Uninstall, Sleep, TakeBack, Acknowledge
<1>4. CASE Shutdown \/ Disconnected
  BY <1>4, Zenon DEF Shutdown, Disconnected, Acknowledge
<1>5. CASE Timeout \/ NotSampled \/ EndBatch
  BY <1>5, Zenon DEF Timeout, NotSampled, EndBatch
<1>6. CASE Sample
  <2>1. Answers \in BOOLEAN
    BY Zenon DEF Answers
  <2> QED BY <1>6, <2>1, Zenon DEF Sample
<1>7. ASSUME NEW f \in Fans, Act(f) PROVE FlagsOK'
  <2>1. (batch[f] \in Takeovers) \in BOOLEAN
    OBVIOUS
  <2> QED BY <1>7, <2>1, Zenon DEF Act, Defer, Refuse, Write, RecordWrite
<1>8. CASE Heartbeat \/ HandBack
  BY <1>8, Zenon DEF Heartbeat, HeartbeatFails, HandBack, TakeBack, Acknowledge
<1>9. CASE UninstallReset \/ NothingToUninstall \/ Remove \/ InstallHelper
  BY <1>9, Zenon DEF UninstallReset, NothingToUninstall, Remove, InstallHelper, Installer
<1>10. CASE \/ Environment(FinishLate) \/ Environment(Return)
            \/ Environment(RetryTime) \/ Environment(HoldEnds)
  BY <1>10, Zenon DEF Environment, FinishLate, Return, RetryTime, HoldEnds
<1>11. CASE UNCHANGED vars
  BY <1>11, Zenon DEF vars
<1> QED
  BY <1>1, <1>2, <1>3, <1>4, <1>5, <1>6, <1>7, <1>8, <1>9, <1>10, <1>11, Zenon
  DEF Next, Command, Loop

(* A batch is of known fans with pending actions, and the installer runs   *)
(* only while `installing` says so.                                        *)
LEMMA SetsStep == SetsOK /\ [Next]_vars => SetsOK'
<1> SUFFICES ASSUME SetsOK, [Next]_vars PROVE SetsOK'
  OBVIOUS
<1> USE DEF SetsOK, Phases, Kinds, Takeovers, NoBatch, Receive,
            handback, controller, service, history
<1>1. ASSUME NEW f \in Fans, Configure(f) PROVE SetsOK'
  BY <1>1 DEF Configure, ConfigureCustom, ConfigureAutomatic
<1>2. CASE ConfigurePolicy \/ Reset \/ Wake
  BY <1>2 DEF ConfigurePolicy, Reset, Wake
<1>3. CASE Uninstalled \/ Install \/ Installed
  BY <1>3 DEF Uninstalled, Install, Installed
<1>4. CASE Uninstall
  BY <1>4 DEF Uninstall, AskReset, Acknowledge, Resume
<1>5. CASE Sleep
  BY <1>5 DEF Sleep, TakeBack, AskReset, Acknowledge, Resume
<1>6. CASE Shutdown \/ Disconnected
  BY <1>6 DEF Shutdown, Disconnected, AskReset, Acknowledge
<1>7. CASE Timeout \/ NotSampled \/ EndBatch
  BY <1>7 DEF Timeout, NotSampled, EndBatch
<1>8. CASE Sample
  BY <1>8 DEF Sample, Decisions
<1>9. ASSUME NEW f \in Fans, Defer(f) \/ Refuse(f) PROVE SetsOK'
  BY <1>9 DEF Defer, Refuse, Turn, Done
<1>10. ASSUME NEW f \in Fans, Write(f) PROVE SetsOK'
  BY <1>10 DEF Write, Turn, Done, AskAutomatic, AskRpm, RecordWrite
<1>11. CASE Heartbeat
  BY <1>11 DEF Heartbeat
<1>12. CASE HandBack
  BY <1>12 DEF HandBack, TakeBack, AskReset, Acknowledge, Resume
<1>13. CASE UninstallReset \/ NothingToUninstall \/ Remove \/ InstallHelper
  BY <1>13 DEF UninstallReset, AskReset, NothingToUninstall, Remove, InstallHelper, Installer
<1>14. CASE \/ Environment(FinishLate) \/ Environment(Return)
            \/ Environment(RetryTime) \/ Environment(HoldEnds)
  BY <1>14 DEF Environment, FinishLate, Return, RetryTime, HoldEnds
<1>15. CASE UNCHANGED vars
  BY <1>15 DEF vars
<1> QED
  BY <1>1, <1>2, <1>3, <1>4, <1>5, <1>6, <1>7, <1>8, <1>9, <1>10, <1>11, <1>12, <1>13, <1>14,
     <1>15, Zenon
  DEF Next, Command, Loop, Act

-----------------------------------------------------------------------------
(* The invariant is preserved, part by part.                               *)

(* Time, the firmware and the end of a late request force no free fan.     *)
LEMMA FreeStays ==
  ASSUME SetsOK, Free,
         \/ Environment(FinishLate) \/ Environment(Return)
         \/ Environment(RetryTime) \/ Environment(HoldEnds)
  PROVE  Free'
<1> USE FansAssumption DEF SetsOK, Free, Environment
<1>1. CASE FinishLate
  <2>1. late = "release"
    BY <1>1 DEF FinishLate
  <2> QED BY <1>1, <2>1 DEF FinishLate
<1>2. CASE Return \/ RetryTime \/ HoldEnds
  BY <1>2 DEF Return, RetryTime, HoldEnds
<1> QED BY <1>1, <1>2

(* A fan is forced only by a write of the batch, for which the app becomes *)
(* its controller or owes a hand-back; only a confirmed reset, after which *)
(* no fan is forced and no request is late, clears both.                   *)
LEMMA UnownedStep == IInv /\ [Next]_vars => UnownedIsFree'
<1> SUFFICES ASSUME IInv, [Next]_vars PROVE UnownedIsFree'
  OBVIOUS
<1> USE FansAssumption
    DEF IInv, FlagsOK, UnownedIsFree, Free, Receive, handback, controller, service, history
<1>1. ASSUME NEW f \in Fans, Configure(f) PROVE UnownedIsFree'
  BY <1>1 DEF Configure, ConfigureCustom, ConfigureAutomatic
<1>2. CASE ConfigurePolicy \/ Wake
  BY <1>2 DEF ConfigurePolicy, Wake
<1>3. CASE Reset
  BY <1>3 DEF Reset, Require
<1>4. CASE Uninstalled \/ Install \/ Installed
  BY <1>4 DEF Uninstalled, Install, Installed
<1>5. CASE Uninstall
  BY <1>5 DEF Uninstall, AskReset, Answers, Acknowledge
<1>6. CASE Sleep
  BY <1>6 DEF Sleep, TakeBack, AskReset, Answers, Acknowledge
<1>7. CASE Shutdown
  BY <1>7 DEF Shutdown, AskReset, Answers, Acknowledge
<1>8. CASE Disconnected
  BY <1>8 DEF Disconnected, AskReset
<1>9. CASE Timeout \/ NotSampled \/ EndBatch
  BY <1>9 DEF Timeout, NotSampled, EndBatch
<1>10. CASE Sample
  BY <1>10 DEF Sample, Require
<1>11. ASSUME NEW f \in Fans, Defer(f) \/ Refuse(f) PROVE UnownedIsFree'
  BY <1>11 DEF Defer, Refuse
<1>12. ASSUME NEW f \in Fans, Write(f) PROVE UnownedIsFree'
  <2> USE DEF Write
  <2>1. CASE batch[f] \in Takeovers
    <3>1. controlled' /\ at' = "batch" /\ ~paused'
      BY <1>12, <2>1 DEF BatchInv, Turn
    <3> QED BY <3>1
  <2>2. CASE batch[f] \notin Takeovers
    <3>1. batch[f] = "automatic"
      BY <1>12, <2>2 DEF SetsOK, Kinds, Turn
    <3>2. PICK ok \in BOOLEAN : AskAutomatic(f, ok) /\ RecordWrite(f, ok)
      BY <1>12, <3>1
    <3>3. CASE ok
      BY <1>12, <2>2, <3>2, <3>3 DEF AskAutomatic, RecordWrite
    <3>4. CASE ~ok
      BY <3>2, <3>4 DEF RecordWrite, Require
    <3> QED BY <3>3, <3>4
  <2> QED BY <2>1, <2>2
<1>13. CASE Heartbeat
  BY <1>13 DEF Heartbeat, HeartbeatFails, Require
<1>14. CASE HandBack
  BY <1>14 DEF HandBack, TakeBack, AskReset, Answers, Acknowledge
<1>15. CASE UninstallReset
  BY <1>15 DEF UninstallReset, AskReset, Answers, Installer
<1>16. CASE NothingToUninstall \/ Remove \/ InstallHelper
  BY <1>16 DEF NothingToUninstall, Remove, InstallHelper, Installer
<1>17. CASE \/ Environment(FinishLate) \/ Environment(Return)
            \/ Environment(RetryTime) \/ Environment(HoldEnds)
  <2>1. Free => Free'
    BY <1>17, FreeStays
  <2> QED BY <1>17, <2>1 DEF Environment
<1>18. CASE UNCHANGED vars
  BY <1>18 DEF vars
<1> QED
  BY <1>1, <1>2, <1>3, <1>4, <1>5, <1>6, <1>7, <1>8, <1>9, <1>10, <1>11, <1>12, <1>13, <1>14,
     <1>15, <1>16, <1>17, <1>18, Zenon
  DEF Next, Command, Loop, Act

(* The pending actions are those of the batch; a batch that is abandoned   *)
(* leaves a hand-back owed, and what clears `active` clears `pending`.     *)
LEMMA BatchStep == IInv /\ [Next]_vars => BatchInv'
<1> SUFFICES ASSUME IInv, [Next]_vars PROVE BatchInv'
  OBVIOUS
<1> USE DEF IInv, FlagsOK, SetsOK, BatchInv, Receive, NoBatch, handback, controller, history
<1>1. ASSUME NEW f \in Fans, Configure(f) PROVE BatchInv'
  BY <1>1 DEF Configure, ConfigureCustom, ConfigureAutomatic
<1>2. CASE ConfigurePolicy \/ Wake
  BY <1>2 DEF ConfigurePolicy, Wake
<1>3. CASE Reset
  BY <1>3 DEF Reset, Require
<1>4. CASE Uninstalled \/ Install \/ Installed
  BY <1>4 DEF Uninstalled, Install, Installed
<1>5. CASE Uninstall
  BY <1>5 DEF Uninstall, Acknowledge, Resume
<1>6. CASE Sleep
  BY <1>6 DEF Sleep, TakeBack, Acknowledge, Resume
<1>7. CASE Shutdown \/ Disconnected
  BY <1>7 DEF Shutdown, Disconnected
<1>8. CASE Timeout \/ NotSampled
  BY <1>8 DEF Timeout, NotSampled
<1>9. CASE EndBatch
  BY <1>9 DEF EndBatch
<1>10. CASE Sample
  BY <1>10 DEF Sample, Require
<1>11. ASSUME NEW f \in Fans, Defer(f) \/ Refuse(f) PROVE BatchInv'
  BY <1>11 DEF Defer, Refuse, Turn, Done
<1>12. ASSUME NEW f \in Fans, Write(f) PROVE BatchInv'
  BY <1>12 DEF Write, Turn, Done, RecordWrite, Require
<1>13. CASE Heartbeat
  BY <1>13 DEF Heartbeat, HeartbeatFails, Require
<1>14. CASE HandBack
  BY <1>14 DEF HandBack, TakeBack, Acknowledge, Resume
<1>15. CASE UninstallReset \/ NothingToUninstall \/ Remove \/ InstallHelper
  BY <1>15 DEF UninstallReset, NothingToUninstall, Remove, InstallHelper, Installer
<1>16. CASE \/ Environment(FinishLate) \/ Environment(Return)
            \/ Environment(RetryTime) \/ Environment(HoldEnds)
  BY <1>16 DEF Environment
<1>17. CASE UNCHANGED vars
  BY <1>17 DEF vars
<1> QED
  BY <1>1, <1>2, <1>3, <1>4, <1>5, <1>6, <1>7, <1>8, <1>9, <1>10, <1>11, <1>12, <1>13, <1>14,
     <1>15, <1>16, <1>17, Zenon
  DEF Next, Command, Loop, Act
(* A write without a confirmed answer is owed for, and only a confirmed    *)
(* reset, which clears the debt, settles it.                               *)
LEMMA DebtStep == IInv /\ [Next]_vars => DebtInv'
<1> SUFFICES ASSUME IInv, [Next]_vars PROVE DebtInv'
  OBVIOUS
<1> USE DEF IInv, FlagsOK, DebtInv, handback, history
<1>1. ASSUME NEW f \in Fans, Configure(f) PROVE DebtInv'
  BY <1>1 DEF Configure, ConfigureCustom, ConfigureAutomatic
<1>2. CASE ConfigurePolicy \/ Wake
  BY <1>2 DEF ConfigurePolicy, Wake
<1>3. CASE Reset
  BY <1>3 DEF Reset, Require
<1>4. CASE Uninstalled \/ Install \/ Installed
  BY <1>4 DEF Uninstalled, Install, Installed
<1>5. CASE Uninstall
  BY <1>5 DEF Uninstall, Acknowledge
<1>6. CASE Sleep
  BY <1>6 DEF Sleep, TakeBack, Acknowledge
<1>7. CASE Shutdown
  BY <1>7 DEF Shutdown, Acknowledge
<1>8. CASE Disconnected \/ Timeout \/ NotSampled \/ EndBatch
  BY <1>8 DEF Disconnected, Timeout, NotSampled, EndBatch
<1>9. CASE Sample
  BY <1>9 DEF Sample, Require
<1>10. ASSUME NEW f \in Fans, Defer(f) \/ Refuse(f) PROVE DebtInv'
  BY <1>10 DEF Defer, Refuse
<1>11. ASSUME NEW f \in Fans, Write(f) PROVE DebtInv'
  BY <1>11 DEF Write, RecordWrite, Require
<1>12. CASE Heartbeat
  BY <1>12 DEF Heartbeat, HeartbeatFails, Require
<1>13. CASE HandBack
  BY <1>13 DEF HandBack, TakeBack, Acknowledge
<1>14. CASE UninstallReset \/ NothingToUninstall \/ Remove \/ InstallHelper
  BY <1>14 DEF UninstallReset, NothingToUninstall, Remove, InstallHelper, Installer
<1>15. CASE \/ Environment(FinishLate) \/ Environment(Return)
            \/ Environment(RetryTime) \/ Environment(HoldEnds)
  BY <1>15 DEF Environment
<1>16. CASE UNCHANGED vars
  BY <1>16 DEF vars
<1> QED
  BY <1>1, <1>2, <1>3, <1>4, <1>5, <1>6, <1>7, <1>8, <1>9, <1>10, <1>11, <1>12, <1>13, <1>14,
     <1>15, <1>16, Zenon
  DEF Next, Command, Loop, Act

(* A batch is chosen while the configuration stands, and no command is     *)
(* received before it ends; a custom mode that is applied ends `released`. *)
LEMMA CustomStep == IInv /\ [Next]_vars => CustomInv'
<1> SUFFICES ASSUME IInv, [Next]_vars PROVE CustomInv'
  OBVIOUS
<1> USE DEF IInv, FlagsOK, SetsOK, CustomInv, Receive, NoBatch, Takeovers, controller, history
<1>1. ASSUME NEW f \in Fans, Configure(f) PROVE CustomInv'
  BY <1>1 DEF Configure, ConfigureCustom, ConfigureAutomatic
<1>2. CASE ConfigurePolicy \/ Wake
  BY <1>2 DEF ConfigurePolicy, Wake
<1>3. CASE Reset
  BY <1>3 DEF Reset
<1>4. CASE Uninstalled \/ Install \/ Installed
  BY <1>4 DEF Uninstalled, Install, Installed
<1>5. CASE Uninstall
  BY <1>5 DEF Uninstall, Acknowledge
<1>6. CASE Sleep
  BY <1>6 DEF Sleep, TakeBack, Acknowledge
<1>7. CASE Shutdown \/ Disconnected
  BY <1>7 DEF Shutdown, Acknowledge, Disconnected
<1>8. CASE Timeout \/ NotSampled \/ EndBatch
  BY <1>8 DEF Timeout, NotSampled, EndBatch
<1>9. CASE Sample
  BY <1>9 DEF Sample, Decisions
<1>10. ASSUME NEW f \in Fans, Defer(f) \/ Refuse(f) PROVE CustomInv'
  BY <1>10 DEF Defer, Refuse, Done
<1>11. ASSUME NEW f \in Fans, Write(f) PROVE CustomInv'
  BY <1>11 DEF Write, Done
<1>12. CASE Heartbeat
  BY <1>12 DEF Heartbeat
<1>13. CASE HandBack
  BY <1>13 DEF HandBack, TakeBack, Acknowledge
<1>14. CASE UninstallReset \/ NothingToUninstall \/ Remove \/ InstallHelper
  BY <1>14 DEF UninstallReset, NothingToUninstall, Remove, InstallHelper, Installer
<1>15. CASE \/ Environment(FinishLate) \/ Environment(Return)
            \/ Environment(RetryTime) \/ Environment(HoldEnds)
  BY <1>15 DEF Environment
<1>16. CASE UNCHANGED vars
  BY <1>16 DEF vars
<1> QED
  BY <1>1, <1>2, <1>3, <1>4, <1>5, <1>6, <1>7, <1>8, <1>9, <1>10, <1>11, <1>12, <1>13, <1>14,
     <1>15, <1>16, Zenon
  DEF Next, Command, Loop, Act

(* `installing` keeps every takeover out between the installer's confirmed *)
(* reset and its removal of the helper.                                    *)
LEMMA RemoveStep == IInv /\ [Next]_vars => RemoveInv'
<1> SUFFICES ASSUME IInv, [Next]_vars PROVE RemoveInv'
  OBVIOUS
<1> USE FansAssumption DEF IInv, SetsOK, RemoveInv, Free, handback, service
<1>1. ASSUME NEW f \in Fans, Configure(f) PROVE RemoveInv'
  BY <1>1 DEF Configure
<1>2. CASE ConfigurePolicy \/ Wake \/ Reset
  BY <1>2 DEF ConfigurePolicy, Wake, Reset
<1>3. CASE Uninstalled \/ Install \/ Installed \/ Uninstall
  BY <1>3 DEF Uninstalled, Install, Installed, Uninstall
<1>4. CASE Sleep
  BY <1>4 DEF Sleep, TakeBack, AskReset
<1>5. CASE Shutdown \/ Disconnected
  BY <1>5 DEF Shutdown, Disconnected, AskReset
<1>6. CASE Timeout \/ NotSampled \/ EndBatch \/ Sample \/ Heartbeat
  BY <1>6 DEF Timeout, NotSampled, EndBatch, Sample, Heartbeat
<1>7. ASSUME NEW f \in Fans, Defer(f) \/ Refuse(f) PROVE RemoveInv'
  BY <1>7 DEF Defer, Refuse
<1>8. ASSUME NEW f \in Fans, Write(f) PROVE RemoveInv'
  <2>1. CASE installer = "remove"
    <3>1. batch[f] = "automatic"
      BY <1>8, <2>1 DEF Write, Turn, Allowed, Kinds
    <3>2. PICK ok \in BOOLEAN : AskAutomatic(f, ok)
      BY <1>8, <3>1 DEF Write
    <3>3. Free'
      BY <2>1, <3>2 DEF AskAutomatic
    <3> QED BY <3>3
  <2>2. CASE installer # "remove"
    BY <1>8, <2>2 DEF Write
  <2> QED BY <2>1, <2>2
<1>9. CASE HandBack
  BY <1>9 DEF HandBack, TakeBack, AskReset
<1>10. CASE UninstallReset
  BY <1>10 DEF UninstallReset, AskReset, Answers, Installer
<1>11. CASE NothingToUninstall \/ Remove \/ InstallHelper
  BY <1>11 DEF NothingToUninstall, Remove, InstallHelper, Installer
<1>12. CASE \/ Environment(FinishLate) \/ Environment(Return)
            \/ Environment(RetryTime) \/ Environment(HoldEnds)
  <2>1. installer' = installer
    BY <1>12 DEF Environment
  <2>2. Free => Free'
    BY <1>12, FreeStays
  <2> QED BY <2>1, <2>2
<1>13. CASE UNCHANGED vars
  BY <1>13 DEF vars
<1> QED
  BY <1>1, <1>2, <1>3, <1>4, <1>5, <1>6, <1>7, <1>8, <1>9, <1>10, <1>11, <1>12, <1>13, Zenon
  DEF Next, Command, Loop, Act

LEMMA Invariant == Safety => []IInv
<1>1. IInv /\ [Next]_vars => IInv'
  BY FlagsStep, SetsStep, UnownedStep, BatchStep, DebtStep, CustomStep, RemoveStep DEF IInv
<1> QED BY IInvInit, <1>1, PTL DEF Safety

-----------------------------------------------------------------------------
(* The theorems.                                                           *)

(* Every variable keeps its type, a batch that is not running is empty,    *)
(* its actions are pending, and `installing` holds exactly while a thread  *)
(* of the installer runs or its message is awaited.                        *)
THEOREM TypeCorrect == Safety => []TypeOK
<1>1. IInv => TypeOK
  BY TypeParts DEF IInv
<1> QED BY Invariant, <1>1, PTL

(* While the app drives no fan, sleeps or has quit, and owes no hand-back, *)
(* no fan is forced for it and no request of its own can still force one.  *)
THEOREM UnownedIsAlwaysFree == Safety => []UnownedIsFree
<1>1. IInv => UnownedIsFree
  BY DEF IInv
<1> QED BY Invariant, <1>1, PTL

(* An action abandoned by the loop keeps the hand-back owed that makes the *)
(* controller forget it.                                                   *)
THEOREM NothingIsForgotten == Safety => []NoActionIsForgotten
<1>1. IInv => NoActionIsForgotten
  <2> SUFFICES ASSUME IInv, at \notin {"batch", "stopped", "gone"}, ~active PROVE pending = {}
    BY DEF NoActionIsForgotten
  <2>1. pending \subseteq { f \in Fans : batch[f] # "none" }
    BY DEF IInv, BatchInv
  <2>2. batch = NoBatch
    BY DEF IInv, SetsOK
  <2> QED BY <2>1, <2>2 DEF NoBatch
<1> QED BY Invariant, <1>1, PTL

(* No fan is driven while an earlier write, of whatever fan, was neither   *)
(* confirmed nor followed by a confirmed reset.                            *)
THEOREM BarrierAlwaysHolds == Safety => BarrierHolds
<1>1. IInv /\ [Next]_vars => [\A f \in Fans : Drives(f) => debt = {}]_vars
  BY DEF IInv, DebtInv, Drives, Write, Turn
<1> QED BY Invariant, <1>1, PTL DEF Safety, BarrierHolds

(* No fan is driven after the user's reset until a custom mode is applied. *)
THEOREM ResetIsFinal == Safety => UserResetIsFinal
<1>1. IInv /\ [Next]_vars => [\A f \in Fans : Drives(f) => ~released]_vars
  BY DEF IInv, CustomInv, Drives
<1> QED BY Invariant, <1>1, PTL DEF Safety, UserResetIsFinal

(* The helper is removed only while no fan is forced for the app and none  *)
(* of its requests can still force one.                                    *)
THEOREM UninstallIsSafe == Safety => UninstallIsHandedBack
<1>1. IInv /\ [Next]_vars => [Remove /\ helper' = "absent" => Free]_vars
  BY DEF IInv, RemoveInv, Remove
<1> QED BY Invariant, <1>1, PTL DEF Safety, UninstallIsHandedBack
=============================================================================
