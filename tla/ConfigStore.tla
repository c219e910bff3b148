---------------------------- MODULE ConfigStore ----------------------------
(***************************************************************************)
(* How the app keeps its configuration (Persistence, save_config_at in     *)
(* crates/fan-app/src/worker.rs; atomic_write in storage.rs).  A custom    *)
(* configuration makes the app drive fans at the next start, so one whose  *)
(* save was never confirmed must not come back; and what somebody else     *)
(* wrote in the file must not be lost.                                     *)
(*                                                                         *)
(* A file is replaced by a rename, visible at once and durable after an    *)
(* fsync of the directory.  `disk` holds what is visible; `mayKeep`,       *)
(* `mayMark` and `kept` what a power failure may leave of it.  A failed fsync  *)
(* leaves all of it open.  One instance runs at a time (InstanceLock), and *)
(* a save runs to its end before the worker looks at anything else.        *)
(***************************************************************************)
EXTENDS FiniteSets

CONSTANTS
  Fans,
  Settings,  \* the custom settings of a fan
  System,    \* the setting that leaves it to the system
  Foreign,   \* contents the app did not write: of the Swift app, or edited
  Absent     \* no config.json, or no configuration

Configs   == [Fans -> Settings \cup {System}]
Automatic == [fan \in Fans |-> System]
Customs   == Configs \ {Automatic}
Contents  == Configs \cup Foreign \cup {Absent}

ASSUME DistinctAssumption ==
  /\ System \notin Settings
  /\ Absent \notin Configs \cup Foreign
  /\ Foreign \cap Configs = {}

VARIABLES
  \* the directory
  disk,      \* config.json
  readable,  \* it is a regular file that can be read
  marker,    \* config.save-incomplete is there
  backups,   \* contents of others that the config.pre-rust files hold
  mayKeep, mayMark, kept,   \* what a power failure may leave of the first
             \* two, and will leave of the backups
  \* Persistence
  running,
  accepted,  \* the configuration of the controller
  original, backedUp, blocked, pending,
  \* the save in progress
  step, candidate,
  purpose,   \* "custom", "automatic", "retry", or "none"
  raced,     \* the file was edited since the save compared it
  \* history
  saved,     \* the configuration last made durable
  chosen     \* the user has configured something since the start

directory   == <<disk, readable, marker, backups>>
durable     == <<mayKeep, mayMark, kept>>
persistence == <<running, accepted, original, backedUp, blocked, pending>>
saving      == <<step, candidate, purpose, raced>>
history     == <<saved, chosen>>
vars == <<directory, durable, persistence, saving, history>>

Steps == {"idle", "check", "backup", "mark", "replace", "unmark"}

TypeOK ==
  /\ disk \in Contents /\ mayKeep \subseteq Contents /\ disk \in mayKeep
  /\ marker \in BOOLEAN /\ mayMark \subseteq BOOLEAN /\ marker \in mayMark
  /\ readable \in BOOLEAN
  /\ backups \subseteq Foreign /\ kept \subseteq backups
  /\ running \in BOOLEAN /\ accepted \in Configs
  /\ original \in Contents /\ backedUp \in BOOLEAN
  /\ blocked \in BOOLEAN /\ pending \in BOOLEAN
  /\ step \in Steps /\ purpose \in {"custom", "automatic", "retry", "none"}
  /\ candidate \in Configs \cup {Absent} /\ (step = "idle" <=> candidate = Absent)
  /\ step # "idle" => running
  /\ raced \in BOOLEAN
  /\ saved \in Configs \cup {Absent} /\ chosen \in BOOLEAN

(* A directory as the Swift app, or nobody, left it.                       *)
Init ==
  /\ disk \in Foreign \cup {Absent} /\ mayKeep = {disk}
  /\ readable = TRUE
  /\ marker = FALSE /\ mayMark = {FALSE}
  /\ backups = {} /\ kept = {}
  /\ running = FALSE /\ accepted = Automatic
  /\ original = Absent /\ backedUp = FALSE /\ blocked = FALSE /\ pending = FALSE
  /\ step = "idle" /\ candidate = Absent /\ purpose = "none" /\ raced = FALSE
  /\ saved = Absent /\ chosen = FALSE

-----------------------------------------------------------------------------
(* Starting.                                                               *)

(* decode_config; foreign contents may hold any configuration, or none.    *)
Decoded(contents) ==
  IF contents \in Foreign THEN Configs
  ELSE IF contents = Absent THEN {Automatic} ELSE {contents}

(* What a start resumes: after an unfinished save, nothing that drives     *)
(* fans.                                                                   *)
Resumes(contents, marked) == IF marked THEN {Automatic} ELSE Decoded(contents)

(* InstanceLock::acquire: a copy of the app starts only while no copy      *)
(* holds the lock, which the kernel takes back from one that ends in any   *)
(* way; `running` is that of whichever copy holds it.                      *)
LockIsFree == ~running

Load ==
  /\ LockIsFree /\ running' = TRUE
  /\ IF readable
       THEN /\ accepted' \in Resumes(disk, marker)
            /\ original' = disk /\ blocked' = FALSE /\ pending' = marker
       ELSE /\ accepted' = Automatic
            /\ original' = Absent /\ blocked' = TRUE /\ pending' = FALSE
  /\ backedUp' = FALSE /\ chosen' = FALSE
  /\ UNCHANGED <<directory, durable, saving, saved>>

-----------------------------------------------------------------------------
(* Saving.                                                                 *)

Idle == running /\ step = "idle"

Begin(config, why) ==
  step' = "check" /\ candidate' = config /\ purpose' = why /\ UNCHANGED raced

(* `configure` to a custom setting, and `configure_smart`, which leaves    *)
(* the settings of the fans: saved before it is accepted.                  *)
ConfigureCustom(fan, setting) ==
  /\ Idle /\ setting \in {accepted[fan]} \cup Settings
  /\ Begin([accepted EXCEPT ![fan] = setting], "custom")
  /\ UNCHANGED <<directory, durable, persistence, history>>

(* `configure` of some fan to automatic, and `reset_configuration` of      *)
(* every fan: accepted before it is saved.                                 *)
ConfigureAutomatic(fans) ==
  /\ Idle
  /\ accepted' = [fan \in Fans |-> IF fan \in fans THEN System ELSE accepted[fan]]
  /\ Begin(accepted', "automatic") /\ chosen' = TRUE
  /\ UNCHANGED <<directory, durable, running, original, backedUp, blocked, pending, saved>>

(* retry: a file that could not be read is tried again; then the accepted  *)
(* configuration is saved, never a rejected one.                           *)
Retry ==
  /\ Idle /\ (pending \/ blocked)
  /\ IF blocked
       THEN /\ readable
            /\ original' = disk /\ backedUp' = FALSE /\ blocked' = FALSE
            /\ pending' = (pending \/ marker)
       ELSE UNCHANGED <<original, backedUp, blocked, pending>>
  /\ IF pending' THEN Begin(accepted, "retry") ELSE UNCHANGED saving
  /\ UNCHANGED <<directory, durable, running, accepted, history>>

Continue(next) == step' = next /\ UNCHANGED <<candidate, purpose, raced>>

Ended == step' = "idle" /\ candidate' = Absent /\ purpose' = "none" /\ raced' = FALSE

(* Mutated form: nothing remembers that the save has failed.               *)
FailForgotten == Ended /\ UNCHANGED pending

(* The save returns an error.                                              *)
Fail == Ended /\ pending' = TRUE

(* Mutated form: the file is compared once, at the start.                  *)
CheckOnce ==
  /\ step = "check"
  /\ \/ blocked /\ Fail /\ UNCHANGED <<blocked, original, backedUp>>
     \/ ~blocked /\ ~readable /\ blocked' = TRUE /\ Fail /\ UNCHANGED <<original, backedUp>>
     \/ /\ ~blocked /\ readable
        /\ IF backedUp \/ original = Absent
             THEN backedUp' = TRUE /\ Continue("mark")
             ELSE UNCHANGED backedUp /\ Continue("backup")
        /\ UNCHANGED <<original, blocked, pending>>
  /\ UNCHANGED <<directory, durable, running, accepted, history>>

(* The file is read again before every replacement.                        *)
Check ==
  /\ step = "check"
  /\ \/ blocked /\ Fail /\ UNCHANGED <<blocked, original, backedUp>>
     \/ ~blocked /\ ~readable /\ blocked' = TRUE /\ Fail /\ UNCHANGED <<original, backedUp>>
     \/ /\ ~blocked /\ readable
        /\ original' = disk
        /\ IF (backedUp /\ disk = original) \/ disk = Absent
             THEN backedUp' = TRUE /\ Continue("mark")
             ELSE backedUp' = FALSE /\ Continue("backup")
        /\ UNCHANGED <<blocked, pending>>
  /\ UNCHANGED <<directory, durable, running, accepted, history>>

(* The directory is synchronised: what is visible is durable.              *)
Synced == mayKeep' = {disk'} /\ mayMark' = {marker'} /\ kept' = backups'

(* It is not, or its fsync failed: what was just renamed may be there.     *)
Unsynced ==
  /\ mayKeep' = mayKeep \cup {disk'} /\ mayMark' = mayMark \cup {marker'}
  /\ UNCHANGED kept

(* atomic_write: the rename is not reached, it is not known to be durable, *)
(* or all is well.                                                         *)
AtomicWrite(effect, unchanged, next) ==
  \/ unchanged /\ UNCHANGED durable /\ Fail
  \/ effect /\ Unsynced /\ Fail
  \/ effect /\ Synced /\ next /\ UNCHANGED pending

(* backup_original: an equal backup is kept, another gets a new name.      *)
BackUp ==
  /\ step = "backup"
  /\ \/ /\ original \in backups /\ backedUp' = TRUE
        /\ Continue("mark") /\ UNCHANGED <<backups, durable, pending>>
     \/ AtomicWrite(backups' = backups \cup ({original} \cap Foreign) /\ UNCHANGED <<disk, marker>>,
                    UNCHANGED <<disk, marker, backups>>, Continue("mark"))
        /\ backedUp' = (step' = "mark")
  /\ UNCHANGED <<disk, readable, marker, running, accepted, original, blocked, history>>

Mark ==
  /\ step = "mark"
  /\ AtomicWrite(marker' = TRUE /\ UNCHANGED <<disk, backups>>,
                 UNCHANGED <<disk, marker, backups>>, Continue("replace"))
  /\ UNCHANGED <<readable, running, accepted, original, backedUp, blocked, history>>

(* The configuration.                                                      *)
Replace ==
  /\ step = "replace"
  /\ AtomicWrite(disk' = candidate /\ readable' = TRUE
                   /\ UNCHANGED <<marker, backups>>,
                 UNCHANGED directory, Continue("unmark"))
  /\ saved' = IF step' = "unmark" THEN candidate ELSE saved
  /\ UNCHANGED <<running, accepted, original, backedUp, blocked, chosen>>

(* The marker is removed.  The save has succeeded whether it is or not; an *)
(* unconfirmed removal is repeated with the next save.                     *)
Unmark ==
  /\ step = "unmark" /\ Ended
  /\ \/ marker' = FALSE /\ UNCHANGED <<disk, backups>> /\ Synced /\ pending' = FALSE
     \/ marker' = FALSE /\ UNCHANGED <<disk, backups>> /\ Unsynced /\ pending' = TRUE
     \/ UNCHANGED <<disk, marker, backups, durable>> /\ pending' = TRUE
  /\ accepted' = (IF purpose = "custom" THEN candidate ELSE accepted)
  /\ chosen' = (chosen \/ purpose = "custom")
  /\ UNCHANGED <<readable, running, original, backedUp, blocked, saved>>

Save == Check \/ BackUp \/ Mark \/ Replace \/ Unmark

-----------------------------------------------------------------------------
(* The environment.                                                        *)

Stopped ==
  /\ running' = FALSE /\ accepted' = Automatic /\ chosen' = FALSE
  /\ original' = Absent /\ backedUp' = FALSE /\ blocked' = FALSE /\ pending' = FALSE
  /\ Ended

(* The app ends or is killed, at any point of a save.                      *)
Stop ==
  /\ running /\ Stopped
  /\ UNCHANGED <<directory, durable, saved>>

PowerFails ==
  /\ Stopped
  /\ disk' \in mayKeep /\ marker' \in mayMark /\ backups' \in { b \in SUBSET backups : kept \subseteq b }
  /\ Synced
  /\ UNCHANGED <<readable, saved>>

(* Somebody edits the file, or makes it unreadable, or readable again.     *)
Edit(contents) ==
  /\ contents \in Foreign /\ disk' = contents
  /\ mayKeep' = mayKeep \cup {contents}
  /\ raced' = (raced \/ step \notin {"idle", "check"})
  /\ UNCHANGED <<readable, marker, backups, mayMark, kept, persistence, step, candidate,
                 purpose, history>>

Protect ==
  /\ readable' = ~readable
  /\ UNCHANGED <<disk, marker, backups, durable, persistence, saving, history>>

Next ==
  \/ Load
  \/ \E fan \in Fans, setting \in Settings \cup {System} : ConfigureCustom(fan, setting)
  \/ \E fans \in {Fans} \cup { {fan} : fan \in Fans } : ConfigureAutomatic(fans)
  \/ Retry
  \/ Save
  \/ Stop \/ PowerFails
  \/ \E contents \in Foreign : Edit(contents)
  \/ Protect

Spec == Init /\ [][Next]_vars

-----------------------------------------------------------------------------
(* Properties.                                                             *)

(* A start resumes a configuration of the app only if its save was made    *)
(* durable, and was the last one: whenever the app or the machine stopped, *)
(* an unconfirmed one means automatic (worker.rs:253).                     *)
ResumesTheSaved == Load /\ accepted' \in Customs => accepted' = saved \/ disk \in Foreign

(* What the user has chosen is what the next start resumes, or automatic,  *)
(* or a save is pending; be the machine stopped by a power failure or not  *)
(* (worker.rs:452, 469).                                                   *)
StaleDiskIsPending ==
  Idle /\ chosen /\ disk \notin Foreign /\ ~pending
    => \A contents \in mayKeep, marked \in mayMark :
         Resumes(contents, marked) \subseteq {accepted, Automatic}

(* Both together are what a start may rely on: the configuration it takes  *)
(* over is confirmed and is the user's last choice, whichever step of a    *)
(* save has failed and wherever the app or the machine has stopped         *)
(* (worker.rs:255, 1299).                                                  *)
RestartIsFaithful == [][ResumesTheSaved /\ StaleDiskIsPending']_vars

(* What others wrote is in a backup, which a power failure does not undo,  *)
(* before a save replaces it, unless it was written after the save has     *)
(* looked at the file (worker.rs:429).                                     *)
Replaces == step = "replace" /\ disk' # disk /\ step' \in {"unmark", "idle"} /\ running'
OriginalIsBackedUp ==
  [][Replaces /\ disk \in Foreign /\ ~raced => disk \in kept]_vars
=============================================================================
