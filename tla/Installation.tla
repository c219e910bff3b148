---------------------------- MODULE Installation ----------------------------
(***************************************************************************)
(* How the helper comes to a machine, is replaced and leaves it            *)
(* (crates/fan-platform/src/install.rs), and how the app makes sure that   *)
(* the helper it commands is its own (HelperClient in helper.rs).          *)
(*                                                                         *)
(* Both scripts run as root, command by command, and end at the first one  *)
(* that fails; the machine may also restart between any two commands.      *)
(* What they leave behind is what launchd and the app find next.           *)
(*                                                                         *)
(* One installation runs at a time, of this app (the bundle is Current) or *)
(* of another copy of the app, older or newer, that another user of the    *)
(* machine runs beside it.  This app does not command the helper during    *)
(* its own (see Worker), but may during the other's.  What the helper does *)
(* with commands is in HelperEngine; here a fan is in forced mode or not.  *)
(***************************************************************************)
EXTENDS Naturals

CONSTANTS
  Versions,  \* versions of the helper, by the protocol they speak
  Current,   \* the version this app needs: PROTOCOL_VERSION
  Legacy,    \* versions that serve at the legacy socket
  Attempts   \* how often a script looks whether the service has stopped (350),
             \* and the installer whether the new one answers (for 10 s)

None    == "none"
Damaged == "damaged"   \* a copy that does not carry its signature

ASSUME VersionsAssumption ==
  /\ Legacy \subseteq Versions /\ Current \in Versions \ Legacy
  /\ {None, Damaged} \cap Versions = {}
ASSUME AttemptsAssumption == Attempts \in Nat

VARIABLES
  \* the disk
  tool,     \* the version at TOOL_PATH, or None
  staged,   \* what lies at TOOL_PATH.installing: a version, Damaged, or None
  plist,    \* DAEMON_PATH exists
  runtime,  \* RUNTIME_DIRECTORY exists
  sockets,  \* the sockets that exist: "secure" and "legacy"
  \* the system
  service,  \* what launchd knows of LABEL: "absent", "loaded" or "stopping"
  daemon,   \* the version of the running helper, or None
  forced,   \* a fan is in forced mode
  \* install_bundled_helper or uninstall_helper
  job,      \* "install", "uninstall", or None
  bundle,   \* the version in the bundle of the app that runs it
  step,     \* what it does next, or None
  left,     \* the looks that are left
  verdict,  \* what the last one reported: "installed", "removed" or "failed"
  \* HelperClient
  call,     \* "connected", "accepted" by a compatible helper, "late" when the
            \* app gave up and the helper still executes the command, or None
  reached,  \* the helper at the other end, or None when it is gone
  obeyed    \* history: the helpers that executed a command

disk   == <<tool, staged, plist, runtime, sockets>>
system == <<service, daemon, forced>>
run    == <<job, bundle, step, left, verdict>>
client == <<call, reached, obeyed>>
vars   == <<disk, system, run, client>>

Steps == {"authorize", "directories", "stage", "verify", "stop", "wait", "clear",
          "tool", "plist", "bootstrap", "poll",
          "look", "reset", "inspect", "unlist", "delete", "unlink", "rmdir", "confirm"}

TypeOK ==
  /\ tool \in Versions \cup {None} /\ staged \in Versions \cup {None, Damaged}
  /\ plist \in BOOLEAN /\ runtime \in BOOLEAN
  /\ sockets \subseteq {"secure", "legacy"}
  /\ service \in {"absent", "loaded", "stopping"}
  /\ daemon \in Versions \cup {None} /\ forced \in BOOLEAN
  /\ job \in {"install", "uninstall", None} /\ bundle \in Versions
  /\ step \in Steps \cup {None} /\ left \in 0 .. Attempts
  /\ verdict \in {"installed", "removed", "failed", None}
  /\ call \in {"connected", "accepted", "late", None}
  /\ reached \in Versions \cup {None} /\ obeyed \subseteq Versions

Endpoint(v) == IF v \in Legacy THEN "legacy" ELSE "secure"

(* A machine with an earlier helper, or none.                              *)
Init ==
  /\ tool \in Versions \cup {None} /\ staged = None
  /\ plist = (tool # None)
  /\ runtime = (tool \notin Legacy \cup {None})
  /\ sockets = {}
  /\ service = IF plist THEN "loaded" ELSE "absent"
  /\ daemon = None /\ forced = FALSE
  /\ job = None /\ bundle = Current /\ step = None /\ left = 0 /\ verdict = None
  /\ call = None /\ reached = None /\ obeyed = {}

-----------------------------------------------------------------------------
(* The daemon and launchd.                                                 *)

(* RunAtLoad and KeepAlive: launchd starts what it finds at TOOL_PATH.     *)
(* run_helper binds its socket, then hands back, and exits if either       *)
(* fails; the socket then stays.                                           *)
StartDaemon ==
  /\ service = "loaded" /\ daemon = None /\ tool # None
  /\ \/ /\ tool \in Legacy \/ runtime
        /\ daemon' = tool /\ forced' = FALSE
        /\ sockets' = sockets \cup {Endpoint(tool)}
     \/ /\ forced' \in {forced, FALSE} /\ UNCHANGED daemon
        /\ sockets' \in {sockets, sockets \cup {Endpoint(tool)}}
        /\ tool \in Legacy \/ runtime \/ sockets' = sockets
  /\ UNCHANGED <<tool, staged, plist, runtime, service, run, client>>

(* The daemon is gone, and so is the other end of its connections.         *)
Gone == daemon' = None /\ reached' = None /\ UNCHANGED <<call, obeyed>>

(* The end of run_helper: the socket is removed and every fan handed back, *)
(* confirmed or not.                                                       *)
ExitDaemon ==
  /\ daemon # None
  /\ sockets' = sockets \ {Endpoint(daemon)}
  /\ forced' \in {forced, FALSE}
  /\ Gone
  /\ UNCHANGED <<tool, staged, plist, runtime, service, run>>

(* It crashes, or outlasts ExitTimeOut.                                    *)
KillDaemon ==
  /\ daemon # None
  /\ Gone
  /\ UNCHANGED <<disk, service, forced, run>>

(* launchd forgets a service that was booted out when its process is gone. *)
ForgetService ==
  /\ service = "stopping" /\ daemon = None
  /\ service' = "absent"
  /\ UNCHANGED <<disk, daemon, forced, run, client>>

(* The watchdog hands back when the lease has ended.                       *)
Expire ==
  /\ daemon # None /\ forced
  /\ forced' = FALSE
  /\ UNCHANGED <<disk, service, daemon, run, client>>

(* The machine restarts: /var/run is emptied, and launchd loads what is in *)
(* LaunchDaemons.                                                          *)
Restart ==
  /\ service' = (IF plist THEN "loaded" ELSE "absent")
  /\ daemon' = None /\ forced' \in {forced, FALSE}
  /\ sockets' = sockets \ {"legacy"}
  /\ job' = None /\ step' = None /\ left' = 0 /\ verdict' = None
  /\ bundle' = Current
  /\ call' = None /\ reached' = None
  /\ UNCHANGED <<tool, staged, plist, runtime, obeyed>>

-----------------------------------------------------------------------------
(* HelperClient.                                                           *)

(* A helper that answers at SOCKET_PATH: not one that is shutting down.    *)
Answers(v) == daemon = v /\ "secure" \in sockets /\ service = "loaded" /\ v \notin Legacy

(* HelperResponse::compatible, of what status() returns.  A legacy helper  *)
(* is asked only for its status, which never counts as ok.                 *)
Compatible(v) == Answers(v)

HangUp == call' = None /\ reached' = None

(* send: the socket belongs to root, and so does the peer.                 *)
Connect ==
  /\ call = None /\ (job = None \/ bundle # Current)
  /\ \E v \in Versions : Answers(v) /\ reached' = v
  /\ call' = "connected"
  /\ UNCHANGED <<disk, system, run, obeyed>>

(* exchange_on_stream asks for the status on the same connection first.    *)
Negotiate ==
  /\ call = "connected" /\ reached # None /\ service = "loaded"
  /\ IF reached = Current THEN call' = "accepted" /\ UNCHANGED reached ELSE HangUp
  /\ UNCHANGED <<disk, system, run, obeyed>>

(* Mutated form: the command goes to whoever answers now.                  *)
CommandAnyone ==
  /\ call \in {"accepted", "late"} /\ daemon # None
  /\ forced' \in BOOLEAN
  /\ obeyed' = obeyed \cup {daemon}
  /\ HangUp
  /\ UNCHANGED <<disk, service, daemon, run>>

(* Then it sends the command, a write or a hand-back, which the helper may *)
(* execute when the app has given up.                                      *)
Command ==
  /\ call \in {"accepted", "late"} /\ reached # None /\ service = "loaded"
  /\ forced' \in BOOLEAN
  /\ obeyed' = obeyed \cup {reached}
  /\ HangUp
  /\ UNCHANGED <<disk, service, daemon, run>>

(* A frame that is late, too long or garbled, or a connection that broke;  *)
(* a helper that is shutting down drops what it has still to execute.      *)
GiveUp ==
  /\ call # None
  /\ \/ /\ call = "late" => reached = None \/ service # "loaded"
        /\ HangUp
     \/ call = "accepted" /\ call' = "late" /\ UNCHANGED reached
  /\ UNCHANGED <<disk, system, run, obeyed>>

-----------------------------------------------------------------------------
(* Both scripts.                                                           *)

AtStep(j, s) == job = j /\ step = s
Goto(s)      == step' = s /\ UNCHANGED <<job, bundle, left, verdict>>

End(result) ==
  /\ job' = None /\ step' = None /\ left' = 0
  /\ verdict' = result
  /\ UNCHANGED bundle

(* The next step, if this one can succeed.                                 *)
Proceed(ok, s) == IF ok THEN Goto(s) ELSE End("failed")

(* `set -eu`, a cancelled authorization, a failed call of the workflow:    *)
(* whatever it is at, everything stays as it is.                           *)
Fail ==
  /\ job # None
  /\ End("failed")
  /\ UNCHANGED <<disk, system, client>>

(* The password dialog of osascript.                                       *)
Authorize ==
  /\ job # None /\ step = "authorize"
  /\ Goto(IF job = "install" THEN "directories" ELSE "inspect")
  /\ UNCHANGED <<disk, system, client>>

(* `launchctl bootout`, if launchd knows the service.                      *)
StopService ==
  /\ step = "stop"
  /\ service' = (IF service = "absent" THEN "absent" ELSE "stopping")
  /\ step' = "wait" /\ left' = Attempts
  /\ UNCHANGED <<disk, daemon, forced, job, bundle, verdict, client>>

(* Mutated forms: no wait, and no limit to it.                             *)
WaitNot ==
  /\ step = "wait" /\ Goto("clear")
  /\ UNCHANGED <<disk, system, client>>

WaitForever ==
  /\ step = "wait"
  /\ IF service = "absent" THEN Goto("clear") ELSE UNCHANGED run
  /\ UNCHANGED <<disk, system, client>>

(* It is asked again and again whether the service is still there.         *)
Wait ==
  /\ step = "wait"
  /\ IF service = "absent" THEN Goto("clear")
     ELSE IF left > 0 THEN left' = left - 1 /\ UNCHANGED <<job, bundle, step, verdict>>
     ELSE End("failed")
  /\ UNCHANGED <<disk, system, client>>

-----------------------------------------------------------------------------
(* Installation.                                                           *)

Install(v) ==
  /\ job = None /\ (v = Current => call \in {"late", None})
  /\ job' = "install" /\ bundle' = v /\ step' = "authorize" /\ left' = 0 /\ verdict' = None
  /\ UNCHANGED <<disk, system, client>>

(* Every directory root will write through is checked, and made.           *)
Directories ==
  /\ AtStep("install", "directories")
  /\ runtime' = TRUE
  /\ Goto("stage")
  /\ UNCHANGED <<tool, staged, plist, sockets, system, client>>

(* An earlier stage is removed, and the bundled helper copied there.       *)
Stage ==
  /\ AtStep("install", "stage")
  /\ staged' \in {bundle, Damaged}
  /\ Goto("verify")
  /\ UNCHANGED <<tool, plist, runtime, sockets, system, client>>

(* The copy carries its signature, the plist is well-formed, the log safe. *)
Verify ==
  /\ AtStep("install", "verify")
  /\ Proceed(staged # Damaged, "stop")
  /\ UNCHANGED <<disk, system, client>>

(* checked_socket_removal, of both sockets.                                *)
ClearSockets ==
  /\ AtStep("install", "clear")
  /\ sockets' = {}
  /\ Goto("tool")
  /\ UNCHANGED <<tool, staged, plist, runtime, system, client>>

ReplaceTool ==
  /\ AtStep("install", "tool")
  /\ tool' = staged /\ staged' = None
  /\ Goto("plist")
  /\ UNCHANGED <<plist, runtime, sockets, system, client>>

ReplacePlist ==
  /\ AtStep("install", "plist")
  /\ plist' = TRUE
  /\ Goto("bootstrap")
  /\ UNCHANGED <<tool, staged, runtime, sockets, system, client>>

Bootstrap ==
  /\ AtStep("install", "bootstrap")
  /\ service' = "loaded"
  /\ step' = "poll" /\ left' = Attempts
  /\ UNCHANGED <<disk, daemon, forced, job, bundle, verdict, client>>

(* The installation is confirmed by the helper that answers, and by        *)
(* nothing else; a single status may still fail.                           *)
Poll ==
  /\ AtStep("install", "poll")
  /\ \/ Compatible(bundle) /\ End("installed")
     \/ left > 0 /\ left' = left - 1 /\ UNCHANGED <<job, bundle, step, verdict>>
     \/ left = 0 /\ End("failed")
  /\ UNCHANGED <<disk, system, client>>

-----------------------------------------------------------------------------
(* Removal.                                                                *)

Uninstall ==
  /\ job = None /\ call \in {"late", None}
  /\ job' = "uninstall" /\ bundle' = Current /\ step' = "look" /\ left' = 0 /\ verdict' = None
  /\ UNCHANGED <<disk, system, client>>

(* verified_absent: the known paths, and the service.                      *)
Absent == tool = None /\ ~plist /\ sockets = {} /\ ~runtime /\ service = "absent"

(* uninstall_workflow first asks whether there is anything to remove.      *)
Look ==
  /\ AtStep("uninstall", "look")
  /\ IF Absent THEN End("removed") ELSE Goto("reset")
  /\ UNCHANGED <<disk, system, client>>

(* Mutated form: the answer to the reset is not looked at.                 *)
ResetUnconfirmed ==
  /\ AtStep("uninstall", "reset")
  /\ forced' \in {forced, FALSE}
  /\ Goto("authorize")
  /\ UNCHANGED <<disk, service, daemon, client>>

(* Without a confirmed hand-back nothing is removed.  The helper serves    *)
(* one connection after the other: what it still executes comes before the *)
(* answer, or lasts until the reset has timed out.                         *)
ResetFirst ==
  /\ AtStep("uninstall", "reset")
  /\ LET confirmed == Compatible(Current) /\ (call = "late" => reached = None)
     IN Proceed(confirmed, "authorize") /\ forced' = (forced /\ ~confirmed)
  /\ UNCHANGED <<disk, service, daemon, client>>

(* Directories, files and sockets are what they should be.                 *)
Inspect ==
  /\ AtStep("uninstall", "inspect")
  /\ Goto("stop")
  /\ UNCHANGED <<disk, system, client>>

ClearLegacy ==
  /\ AtStep("uninstall", "clear")
  /\ sockets' = sockets \ {"legacy"}
  /\ Goto("unlist")
  /\ UNCHANGED <<tool, staged, plist, runtime, system, client>>

RemovePlist ==
  /\ AtStep("uninstall", "unlist")
  /\ plist' = FALSE
  /\ Goto("delete")
  /\ UNCHANGED <<tool, staged, runtime, sockets, system, client>>

RemoveTool ==
  /\ AtStep("uninstall", "delete")
  /\ tool' = None
  /\ Goto("unlink")
  /\ UNCHANGED <<staged, plist, runtime, sockets, system, client>>

RemoveSocket ==
  /\ AtStep("uninstall", "unlink")
  /\ sockets' = sockets \ {"secure"}
  /\ Goto("rmdir")
  /\ UNCHANGED <<tool, staged, plist, runtime, system, client>>

(* rmdir, which fails unless the directory is empty.                       *)
RemoveRuntime ==
  /\ AtStep("uninstall", "rmdir")
  /\ runtime' = (runtime /\ "secure" \in sockets)
  /\ Proceed(~runtime', "confirm")
  /\ UNCHANGED <<tool, staged, plist, sockets, system, client>>

(* The script, and once more the workflow, look whether it is all gone.    *)
Confirm ==
  /\ AtStep("uninstall", "confirm")
  /\ End(IF Absent THEN "removed" ELSE "failed")
  /\ UNCHANGED <<disk, system, client>>

-----------------------------------------------------------------------------

System == StartDaemon \/ ExitDaemon \/ KillDaemon \/ ForgetService \/ Expire \/ Restart

Client == Connect \/ Negotiate \/ Command \/ GiveUp

(* What a job does once it is authorized.                                  *)
Script ==
  \/ StopService \/ Wait
  \/ Directories \/ Stage \/ Verify \/ ClearSockets \/ ReplaceTool \/ ReplacePlist
  \/ Bootstrap \/ Poll
  \/ Look \/ ResetFirst \/ Inspect \/ ClearLegacy \/ RemovePlist \/ RemoveTool
  \/ RemoveSocket \/ RemoveRuntime \/ Confirm

Next ==
  \/ System \/ Client \/ Script
  \/ Authorize \/ Fail
  \/ \E v \in Versions \ Legacy : Install(v)
  \/ Uninstall

Safety == Init /\ [][Next]_vars

(* The commands of a script are executed.  The user may leave the password *)
(* dialog open for ever, the helper may never answer, and launchd may      *)
(* never get rid of its process.                                           *)
Spec == Safety /\ WF_vars(Script)

-----------------------------------------------------------------------------
(* Properties.                                                             *)

(* A running helper is the one that is installed: the file is replaced, or *)
(* removed, only when the old process is gone, so that no process outlives *)
(* its file and takes the socket of its successor away (install.rs:106).   *)
RunsWhatIsInstalled == daemon # None => daemon = tool /\ service # "absent"

(* Wherever a script or the machine stops, launchd never finds a service   *)
(* whose executable is missing or damaged (install.rs:83, 109, 304).       *)
ServiceIsRunnable == plist => tool \in Versions

(* The installed helper is whole, whatever is interrupted.                 *)
HelperIsWhole == RunsWhatIsInstalled /\ ServiceIsRunnable

(* Only a helper of this app's version is commanded, even if another one   *)
(* takes its place between the negotiation and the command                 *)
(* (helper.rs:252).                                                        *)
OnlyCompatibleIsCommanded == obeyed \subseteq {Current}

(* When the helper is removed, no fan is left in forced mode that nobody   *)
(* would hand back, however often the removal was tried, and wherever it   *)
(* was interrupted (install.rs:216).                                       *)
RemovedIsHandedBack == tool = None => ~forced

(* An authorized installation or removal ends, and the app leaves its      *)
(* read-only state: nothing is waited for without a limit.                 *)
JobEnds == (job # None /\ step # "authorize") ~> (job = None \/ step = "authorize")
=============================================================================
