------------------------- MODULE ConfigStore_proofs -------------------------
(***************************************************************************)
(* What the decoding of a configuration promises, for documents of any     *)
(* number of fans and curves of any name; and that what is on the disk is  *)
(* resumed only if it was confirmed, and never lost, for any number of     *)
(* fans and settings and any contents that others write.                   *)
(***************************************************************************)
EXTENDS ConfigStore, ConfigDecoding, TLAPS

WrittenFans == [id : 0 .. 300, mode : Modes, curve : Curves]

(* What a fan is once it is read, before it is repaired.                   *)
ReadModes == {m \in Modes : /\ m.is \notin {"absent", "broken"}
                            /\ m.is = "manual" => m.arg # "tooLarge"}
ReadCurves == {c \in Curves : c.points # "broken"}
ReadFans   == [id : 0 .. 300, mode : ReadModes, curve : ReadCurves]

LEMMA SystemModeIsRead == SystemMode \in ReadModes /\ SystemMode.is = "automatic"
  BY DEF SystemMode, ReadModes, Modes

LEMMA WrittenFan ==
  ASSUME NEW doc \in Documents, NEW i \in DOMAIN doc.fans
  PROVE  doc.fans[i] \in WrittenFans
<1>1. doc.fans \in Seq(WrittenFans)
  BY DEF Documents, WrittenFans
<1> QED BY <1>1

LEMMA ReadLegacy ==
  ASSUME NEW fan \in WrittenFans, ~LegacyFails(fan)
  PROVE  /\ LegacyFan(fan) \in ReadFans
         /\ LegacyFan(fan).id = fan.id /\ LegacyFan(fan).curve = fan.curve
         /\ LegacyFan(fan).mode \in {fan.mode, SystemMode}
<1>1. LegacyMode(fan.mode) \in ReadModes /\ LegacyMode(fan.mode) \in {fan.mode, SystemMode}
  BY SystemModeIsRead DEF LegacyMode, WrittenFans, ReadModes
<1> HIDE DEF LegacyMode
<1> QED BY <1>1 DEF LegacyFan, LegacyFails, WrittenFans, ReadFans, ReadCurves

LEMMA ReadCurrent ==
  ASSUME NEW fan \in WrittenFans, ~CurrentFails(fan)
  PROVE  /\ CurrentFan(fan) \in ReadFans
         /\ CurrentFan(fan).id = fan.id /\ CurrentFan(fan).curve = fan.curve
         /\ CurrentFan(fan).mode \in {fan.mode, SystemMode}
<1> DEFINE mode == IF fan.mode.is = "absent" THEN SystemMode ELSE fan.mode
<1>1. mode \in ReadModes /\ mode \in {fan.mode, SystemMode}
  BY SystemModeIsRead DEF WrittenFans, ReadModes, CurrentFails
<1>2. CurrentFan(fan) = [fan EXCEPT !.mode = mode]
  BY DEF CurrentFan
<1> HIDE DEF mode
<1> QED BY <1>1, <1>2 DEF CurrentFails, WrittenFans, ReadFans, ReadCurves

(* Reading leaves ids and curves, and a mode or else the automatic one.    *)
LEMMA ReadFan ==
  ASSUME NEW doc \in Documents, Decodes(doc), NEW i \in DOMAIN doc.fans
  PROVE  /\ FansRead(doc)[i] \in ReadFans
         /\ FansRead(doc)[i].id = doc.fans[i].id /\ FansRead(doc)[i].curve = doc.fans[i].curve
         /\ FansRead(doc)[i].mode \in {doc.fans[i].mode, SystemMode}
<1>1. CASE doc.shape = "array"
  <2>1. FansRead(doc)[i] = LegacyFan(doc.fans[i]) /\ ~LegacyFails(doc.fans[i])
    BY <1>1 DEF FansRead, Decodes
  <2> QED BY <2>1, WrittenFan, ReadLegacy
<1>2. CASE doc.shape # "array"
  <2>1. FansRead(doc)[i] = CurrentFan(doc.fans[i]) /\ ~CurrentFails(doc.fans[i])
    BY <1>2 DEF FansRead, Decodes
  <2> QED BY <2>1, WrittenFan, ReadCurrent
<1> QED BY <1>1, <1>2

LEMMA CurveIsMoved ==
  ASSUME NEW curve \in Curves, curve.points # "broken"
  PROVE  /\ Migrated(curve) \in Curves
         /\ Migrated(curve).points \notin {"broken", "legacy"}
         /\ curve.points # "legacy" => Migrated(curve) = curve
<1>1. CASE curve.points = "legacy"
  <2>1. curve # NoCurve
    BY <1>1 DEF NoCurve
  <2> QED BY <1>1, <2>1 DEF Curves, Migrated
<1>2. CASE curve.points # "legacy"
  BY <1>2 DEF Migrated
<1> QED BY <1>1, <1>2

(* A fan that was read is repaired into one that is valid, but for its id. *)
LEMMA RepairedFan ==
  ASSUME NEW fan \in ReadFans
  PROVE  LET result == Repaired(fan)
         IN /\ result \in ReadFans /\ result.id = fan.id
            /\ result.curve \in {NoCurve, Migrated(fan.curve)}
            /\ result.curve.points # "legacy"
            /\ result.mode = SystemMode
                 \/ (result.mode = fan.mode /\ result.curve = Migrated(fan.curve))
            /\ fan.id <= 9 => ValidFan(result)
            /\ ValidFan(fan) /\ fan.curve.points # "legacy" => result = fan
<1> DEFINE moved == [fan EXCEPT !.curve = Migrated(fan.curve)]
<1>1. /\ moved \in ReadFans /\ moved.id = fan.id /\ moved.mode = fan.mode
      /\ moved.curve = Migrated(fan.curve) /\ moved.curve.points # "legacy"
      /\ fan.curve.points # "legacy" => moved = fan
  <2> DEFINE curve == Migrated(fan.curve)
  <2>1. /\ curve \in ReadCurves /\ curve.points # "legacy"
        /\ fan.curve.points # "legacy" => curve = fan.curve
    BY CurveIsMoved DEF ReadFans, ReadCurves
  <2>2. moved = [fan EXCEPT !.curve = curve]
    OBVIOUS
  <2> HIDE DEF curve, moved
  <2>3. /\ moved \in ReadFans /\ moved.id = fan.id /\ moved.mode = fan.mode
        /\ moved.curve = curve
    BY <2>1, <2>2 DEF ReadFans, ReadCurves
  <2>4. ASSUME fan.curve.points # "legacy" PROVE moved = fan
    BY <2>1, <2>2, <2>4 DEF ReadFans, ReadCurves
  <2> QED BY <2>1, <2>3, <2>4 DEF curve
<1>2. Repaired(fan) = Restored(moved)
  BY DEF Repaired
<1> HIDE DEF moved
<1>3. CASE ValidFan(moved)
  <2>1. Repaired(fan) = moved
    BY <1>2, <1>3 DEF Restored
  <2> QED BY <1>1, <1>3, <2>1
<1>4. CASE ~ValidFan(moved)
  <2> DEFINE curve == IF ValidCurve(moved.curve) THEN moved.curve ELSE NoCurve
  <2>1. Repaired(fan) = [moved EXCEPT !.mode = SystemMode, !.curve = curve]
    BY <1>2, <1>4 DEF Restored
  <2>2. /\ curve \in {NoCurve, moved.curve} /\ (curve = NoCurve \/ ValidCurve(curve))
        /\ NoCurve \in ReadCurves /\ NoCurve.points # "legacy"
    BY DEF NoCurve, Curves, ReadCurves
  <2> HIDE DEF curve
  <2>3. /\ Repaired(fan).id = fan.id /\ Repaired(fan).mode = SystemMode
        /\ Repaired(fan).curve = curve /\ Repaired(fan) \in ReadFans
    <3>1. /\ SystemMode \in ReadModes /\ moved \in ReadFans /\ moved.id = fan.id
          /\ moved.curve \in ReadCurves
      BY <1>1, SystemModeIsRead DEF ReadFans
    <3>2. curve \in ReadCurves
      BY <2>2, <3>1, Zenon
    <3>3. PICK made : made = [moved EXCEPT !.mode = SystemMode, !.curve = curve]
      OBVIOUS
    <3>4. /\ made \in ReadFans /\ made.id = moved.id /\ made.mode = SystemMode
          /\ made.curve = curve
      BY <3>1, <3>2, <3>3 DEF ReadFans
    <3> QED BY <2>1, <3>1, <3>3, <3>4, Zenon
  <2>4. fan.id <= 9 => ValidFan(Repaired(fan))
    BY <2>2, <2>3, SystemModeIsRead DEF ValidFan
  <2>5. ~(ValidFan(fan) /\ fan.curve.points # "legacy")
    BY <1>1, <1>4
  <2> QED BY <1>1, <2>2, <2>3, <2>4, <2>5
<1> QED BY <1>3, <1>4
LEMMA RepairedInConfig ==
  ASSUME NEW doc \in Documents, Decodes(doc)
  PROVE  /\ DOMAIN Config(doc).fans = DOMAIN doc.fans
         /\ Len(Config(doc).fans) = Len(doc.fans)
         /\ \A i \in DOMAIN doc.fans :
              /\ Config(doc).fans[i] = Repaired(FansRead(doc)[i])
              /\ Config(doc).fans[i] \in ReadFans
              /\ Config(doc).fans[i].id = doc.fans[i].id
<1>1. doc.fans \in Seq(WrittenFans)
  BY DEF Documents, WrittenFans
<1>2. Config(doc).fans = [i \in DOMAIN doc.fans |-> Repaired(FansRead(doc)[i])]
  BY DEF Config
<1>3. ASSUME NEW i \in DOMAIN doc.fans
      PROVE  /\ Config(doc).fans[i] = Repaired(FansRead(doc)[i])
             /\ Config(doc).fans[i] \in ReadFans
             /\ Config(doc).fans[i].id = doc.fans[i].id
  BY <1>2, ReadFan, RepairedFan
<1>4. Config(doc).fans \in Seq(ReadFans) /\ Len(Config(doc).fans) = Len(doc.fans)
  <2>1. DOMAIN Config(doc).fans = 1 .. Len(doc.fans) /\ Len(doc.fans) \in Nat
    BY <1>1, <1>2
  <2>2. \A i \in 1 .. Len(doc.fans) : Config(doc).fans[i] \in ReadFans
    BY <1>1, <1>3
  <2>3. Config(doc).fans = [i \in 1 .. Len(doc.fans) |-> Config(doc).fans[i]]
    BY <1>1, <1>2
  <2> QED BY <2>1, <2>2, <2>3
<1> QED BY <1>2, <1>3, <1>4

(* The repairs are enough: whatever curves, modes, preferences and         *)
(* calibrations a document holds, it is refused only for what cannot be    *)
(* read at all or for the ids of its fans (config.rs:422, 445, 450).       *)
THEOREM RepairsSuffice ==
  ASSUME NEW doc \in Documents, Decodes(doc),
         Numbered(doc.fans), \A i \in DOMAIN doc.fans : doc.fans[i].id <= 9
  PROVE  Accepted(doc)
<1>1. Numbered(Config(doc).fans)
  BY RepairedInConfig DEF Numbered
<1>2. ASSUME NEW i \in DOMAIN doc.fans PROVE ValidFan(Config(doc).fans[i])
  BY RepairedInConfig, ReadFan, RepairedFan
<1>3. Config(doc).tuning # "invalid" /\ Config(doc).policy # "invalid"
  BY DEF Config, OrDefault
<1> QED BY <1>1, <1>2, <1>3, RepairedInConfig DEF Accepted, Valid

(* No repair drives a fan: one that does not stay automatic is driven as   *)
(* its entry says, by its own curve or the one that replaces the default   *)
(* of the Swift app (config.rs:455).                                       *)
THEOREM RepairsNeverDrive ==
  ASSUME NEW doc \in Documents, Decodes(doc), NEW i \in DOMAIN doc.fans,
         Config(doc).fans[i].mode # SystemMode
  PROVE  /\ Config(doc).fans[i].mode = doc.fans[i].mode
         /\ Config(doc).fans[i].curve = Migrated(doc.fans[i].curve)
<1> DEFINE fan == FansRead(doc)[i]
<1>1. /\ fan \in ReadFans /\ fan.curve = doc.fans[i].curve
      /\ fan.mode \in {doc.fans[i].mode, SystemMode}
  BY ReadFan
<1>2. Config(doc).fans[i] = Repaired(fan)
  BY RepairedInConfig
<1> HIDE DEF fan
<1> QED BY <1>1, <1>2, RepairedFan

(* Repairs are made once: what was decoded, saved and decoded again is the *)
(* same and is not rewritten (config.rs:430, 452).                         *)
THEOREM DecodingIsStable ==
  ASSUME NEW doc \in Documents, Accepted(doc)
  PROVE  LET again == Encoded(Config(doc))
         IN Accepted(again) /\ Config(again) = Config(doc) /\ ~IsMigrated(again)
<1> DEFINE config == Config(doc) again == Encoded(config)
<1>1. Decodes(doc) /\ Valid(config)
  BY DEF Accepted
<1>2. /\ config.tuning \in {"default", "own"} /\ config.policy \in {"default", "own"}
      /\ config = [fans |-> config.fans, tuning |-> config.tuning, policy |-> config.policy]
  BY DEF Config, OrDefault, Documents
<1>3. config.fans = [i \in DOMAIN config.fans |-> config.fans[i]]
  BY DEF Config
<1>4. ASSUME NEW i \in DOMAIN config.fans
      PROVE  /\ config.fans[i] \in ReadFans /\ ValidFan(config.fans[i])
             /\ config.fans[i].curve.points # "legacy"
  <2>1. i \in DOMAIN doc.fans /\ config.fans[i] = Repaired(FansRead(doc)[i])
    BY <1>1, RepairedInConfig
  <2>2. FansRead(doc)[i] \in ReadFans
    BY <1>1, <2>1, ReadFan
  <2>3. ValidFan(config.fans[i])
    BY <1>1 DEF Valid
  <2> QED BY <2>1, <2>2, <2>3, RepairedFan
<1> HIDE DEF config
<1>5. /\ again.shape = "object" /\ again.length = "fits" /\ again.version = 2
      /\ again.tuning = config.tuning /\ again.policy = config.policy
      /\ again.fans = config.fans
  BY DEF Encoded
<1> HIDE DEF again
<1>6. ASSUME NEW i \in DOMAIN config.fans
      PROVE  /\ FansRead(again)[i] = config.fans[i] /\ Repaired(FansRead(again)[i]) = config.fans[i]
             /\ ~CurrentFails(again.fans[i])
  <2>1. CurrentFan(config.fans[i]) = config.fans[i] /\ ~CurrentFails(config.fans[i])
    BY <1>4 DEF CurrentFan, CurrentFails, ReadFans, ReadModes, ReadCurves, ValidFan
  <2>2. FansRead(again)[i] = config.fans[i]
    BY <1>5, <2>1 DEF FansRead
  <2> QED BY <1>4, <1>5, <2>1, <2>2, RepairedFan
<1>7. Decodes(again)
  BY <1>2, <1>5, <1>6 DEF Decodes
<1>8. Config(again) = config
  <2>1. Config(again).fans = config.fans
    BY <1>3, <1>5, <1>6 DEF Config
  <2>2. Config(again).tuning = config.tuning /\ Config(again).policy = config.policy
    BY <1>2, <1>5 DEF Config, OrDefault
  <2>3. Config(again) = [fans |-> Config(again).fans, tuning |-> Config(again).tuning,
                         policy |-> Config(again).policy]
    BY DEF Config
  <2> QED BY <1>2, <2>1, <2>2, <2>3
<1>9. ~IsMigrated(again)
  BY <1>2, <1>5, <1>6 DEF IsMigrated
<1>10. Accepted(again)
  BY <1>1, <1>7, <1>8 DEF Accepted
<1> QED BY <1>8, <1>9, <1>10 DEF again, config

-----------------------------------------------------------------------------
(* Saving.                                                                 *)

(* Without the marker, whatever a power failure may leave was confirmed,   *)
(* or written by others; the marker is durable before the configuration is *)
(* replaced, and only a durable configuration takes it away.               *)
MarkCovers ==
  /\ FALSE \in mayMark => mayKeep \subseteq Foreign \cup {Absent, saved}
  /\ step = "replace" => mayMark = {TRUE}
  /\ step = "unmark" => saved = candidate /\ mayKeep \subseteq {candidate} \cup Foreign

(* `backed_up` speaks of the contents the save has seen, which are those   *)
(* of the file unless it was edited since; the synchronisation of the      *)
(* marker makes the backup durable too.                                    *)
BackupHolds ==
  /\ backedUp /\ original \in Foreign => original \in backups
  /\ step \in {"mark", "replace"} => backedUp
  /\ step \in {"backup", "mark", "replace"} /\ ~raced => disk = original
  /\ step = "replace" => kept = backups

(* Only a custom configuration is saved before it is accepted.             *)
SavesAccepted == step # "idle" /\ purpose # "custom" => candidate = accepted

CInv == TypeOK /\ MarkCovers /\ BackupHolds /\ SavesAccepted /\ StaleDiskIsPending

LEMMA ConfigsDiffer == Automatic \in Configs /\ Absent \notin Configs /\ Absent \notin Foreign
BY DistinctAssumption DEF Automatic, Configs

LEMMA CInvInit == Init => CInv
BY ConfigsDiffer
   DEF Init, CInv, TypeOK, MarkCovers, BackupHolds, SavesAccepted, StaleDiskIsPending, Idle,
       Contents, Steps

(* The parts of the type.                                                  *)
FlagsOK ==
  /\ readable \in BOOLEAN /\ marker \in BOOLEAN /\ running \in BOOLEAN /\ backedUp \in BOOLEAN
  /\ blocked \in BOOLEAN /\ pending \in BOOLEAN /\ raced \in BOOLEAN /\ chosen \in BOOLEAN

DataOK ==
  /\ disk \in Contents /\ mayKeep \subseteq Contents /\ disk \in mayKeep
  /\ mayMark \subseteq BOOLEAN /\ marker \in mayMark
  /\ backups \subseteq Foreign /\ kept \subseteq backups
  /\ accepted \in Configs /\ original \in Contents
  /\ step \in Steps /\ purpose \in {"custom", "automatic", "retry", "none"}
  /\ candidate \in Configs \cup {Absent} /\ (step = "idle" <=> candidate = Absent)
  /\ step # "idle" => running
  /\ saved \in Configs \cup {Absent}

LEMMA StoreTypes == (TypeOK <=> FlagsOK /\ DataOK) /\ (TypeOK' <=> FlagsOK' /\ DataOK')
BY Zenon DEF TypeOK, FlagsOK, DataOK

(* What begins a save: nothing of the directory has changed, and the save  *)
(* is of what is accepted, but for a custom configuration.                 *)
LEMMA CInvBegins ==
  ASSUME CInv, Idle, UNCHANGED <<directory, durable, running, saved, raced>>,
         step' = "check", candidate' \in Configs, accepted' \in Configs,
         purpose' \in {"custom", "automatic", "retry"},
         purpose' # "custom" => candidate' = accepted',
         original' \in Contents, backedUp' \in BOOLEAN, blocked' \in BOOLEAN,
         pending' \in BOOLEAN, chosen' \in BOOLEAN,
         backedUp' /\ original' \in Foreign => original' \in backups
  PROVE  CInv'
<1>1. /\ running /\ UNCHANGED <<disk, readable, marker, backups, mayKeep, mayMark, kept>>
      /\ FlagsOK /\ DataOK
  BY StoreTypes DEF CInv, Idle, directory, durable
<1>2. FlagsOK'
  BY <1>1, Zenon DEF FlagsOK
<1>3. DataOK'
  <2>1. candidate' # Absent /\ step' # "idle"
    BY ConfigsDiffer
  <2> QED BY <1>1, <2>1 DEF DataOK, Steps
<1>4. MarkCovers'
  BY <1>1 DEF CInv, MarkCovers
<1>5. BackupHolds' /\ SavesAccepted'
  BY <1>1 DEF BackupHolds, SavesAccepted
<1>6. StaleDiskIsPending'
  BY DEF StaleDiskIsPending, Idle
<1> QED BY <1>2, <1>3, <1>4, <1>5, <1>6, StoreTypes, Zenon DEF CInv

(* What a start finds.                                                     *)
LEMMA CInvLoad == CInv /\ Load => CInv'
<1> SUFFICES ASSUME CInv, Load PROVE CInv'
  OBVIOUS
<1>1. /\ FlagsOK /\ DataOK /\ ~running /\ running' = TRUE
      /\ backedUp' = FALSE /\ chosen' = FALSE
      /\ UNCHANGED <<disk, readable, marker, backups, mayKeep, mayMark, kept, step, candidate,
                     purpose, raced, saved>>
  BY StoreTypes DEF CInv, Load, LockIsFree, directory, durable, saving
<1>2. step = "idle"
  BY <1>1, Zenon DEF DataOK
<1>3. /\ accepted' \in Configs /\ original' \in Contents
      /\ blocked' \in BOOLEAN /\ pending' \in BOOLEAN
  <2>1. Resumes(disk, marker) \subseteq Configs
    BY <1>1, ConfigsDiffer DEF Resumes, Decoded, Contents, DataOK
  <2> QED BY <1>1, <2>1, ConfigsDiffer DEF Load, Contents, DataOK, FlagsOK
<1>4. FlagsOK'
  BY <1>1, <1>3, Zenon DEF FlagsOK
<1>5. DataOK'
  BY <1>1, <1>3 DEF DataOK
<1>6. MarkCovers'
  BY <1>1 DEF CInv, MarkCovers
<1>7. BackupHolds' /\ SavesAccepted'
  BY <1>1, <1>2 DEF BackupHolds, SavesAccepted
<1>8. StaleDiskIsPending'
  BY <1>1, Zenon DEF StaleDiskIsPending
<1> QED BY <1>4, <1>5, <1>6, <1>7, <1>8, StoreTypes, Zenon DEF CInv

LEMMA CInvRetry == CInv /\ Retry => CInv'
<1> SUFFICES ASSUME CInv, Retry PROVE CInv'
  OBVIOUS
<1>1. /\ FlagsOK /\ DataOK /\ Idle
      /\ UNCHANGED <<disk, readable, marker, backups, mayKeep, mayMark, kept, running, accepted,
                     saved, chosen>>
  BY StoreTypes, Zenon DEF CInv, Retry, directory, durable, history
<1>2. /\ original' \in {original, disk} /\ backedUp' \in {backedUp, FALSE}
      /\ backedUp' # FALSE => original' = original
      /\ blocked' \in BOOLEAN /\ pending' \in {pending, TRUE}
  BY <1>1 DEF Retry, FlagsOK
<1>3. /\ original' \in Contents /\ backedUp' \in BOOLEAN
      /\ blocked' \in BOOLEAN /\ pending' \in BOOLEAN
      /\ backedUp' /\ original' \in Foreign => original' \in backups
  <2>1. backedUp /\ original \in Foreign => original \in backups
    BY DEF CInv, BackupHolds
  <2>2. original \in Contents /\ disk \in Contents /\ backedUp \in BOOLEAN /\ pending \in BOOLEAN
    BY <1>1, Zenon DEF DataOK, FlagsOK
  <2>3. original' \in Contents /\ backedUp' \in BOOLEAN /\ pending' \in BOOLEAN
    BY <1>2, <2>2
  <2>4. ASSUME backedUp', original' \in Foreign PROVE original' \in backups
    <3>1. backedUp' # FALSE
      BY <2>4
    <3>2. original' = original /\ backedUp
      BY <1>2, <2>2, <2>4, <3>1
    <3> QED BY <2>1, <2>4, <3>2, Zenon
  <2> QED BY <1>1, <1>2, <2>3, <2>4, Zenon
<1>4. CASE pending' = TRUE
  <2>1. step' = "check" /\ candidate' = accepted /\ purpose' = "retry" /\ UNCHANGED raced
    BY <1>4, Zenon DEF Retry, Begin
  <2>2. candidate' \in Configs /\ accepted' \in Configs /\ candidate' = accepted'
    BY <1>1, <2>1 DEF DataOK
  <2>3. UNCHANGED <<directory, durable>> /\ chosen' \in BOOLEAN
    BY <1>1, Zenon DEF FlagsOK, directory, durable
  <2> QED BY <1>1, <1>3, <2>1, <2>2, <2>3, CInvBegins
<1>5. CASE pending' # TRUE
  <2>1. UNCHANGED <<step, candidate, purpose, raced, pending>>
    BY <1>2, <1>5, <1>3, Zenon DEF Retry, saving
  <2>2. step = "idle"
    BY <1>1, Zenon DEF Idle
  <2>3. FlagsOK'
    BY <1>1, <1>3, <2>1, Zenon DEF FlagsOK
  <2>4. DataOK'
    BY <1>1, <1>3, <2>1 DEF DataOK
  <2>5. MarkCovers' /\ SavesAccepted'
    BY <1>1, <2>1 DEF CInv, MarkCovers, SavesAccepted
  <2>6. BackupHolds'
    BY <1>1, <1>3, <2>1, <2>2 DEF BackupHolds
  <2>7. StaleDiskIsPending'
    BY <1>1, <2>1, Zenon DEF CInv, StaleDiskIsPending, Idle
  <2> QED BY <2>3, <2>4, <2>5, <2>6, <2>7, StoreTypes, Zenon DEF CInv
<1> QED BY <1>4, <1>5, Zenon

LEMMA CInvBegin ==
  ASSUME CInv,
         \/ Load \/ Retry
         \/ \E fan \in Fans, setting \in Settings \cup {System} : ConfigureCustom(fan, setting)
         \/ \E fans \in {Fans} \cup { {fan} : fan \in Fans } : ConfigureAutomatic(fans)
  PROVE  CInv'
<1>0. /\ FlagsOK /\ DataOK /\ accepted \in Configs
      /\ backedUp /\ original \in Foreign => original \in backups
  BY StoreTypes, Zenon DEF CInv, DataOK, BackupHolds
<1>1. ASSUME NEW fan \in Fans, NEW setting \in Settings \cup {System}, ConfigureCustom(fan, setting)
      PROVE  CInv'
  <2>1. /\ Idle /\ step' = "check" /\ candidate' = [accepted EXCEPT ![fan] = setting]
        /\ purpose' = "custom" /\ UNCHANGED raced
        /\ UNCHANGED <<directory, durable, running, accepted, original, backedUp, blocked, pending,
                       saved, chosen>>
    BY <1>1, Zenon DEF ConfigureCustom, Begin, persistence, history
  <2>2. candidate' \in Configs
    BY <1>0, <2>1 DEF Configs
  <2>3. /\ original' \in Contents /\ backedUp' \in BOOLEAN /\ blocked' \in BOOLEAN
        /\ pending' \in BOOLEAN /\ chosen' \in BOOLEAN /\ accepted' \in Configs
        /\ backedUp' /\ original' \in Foreign => original' \in backups
    BY <1>0, <2>1, Zenon DEF FlagsOK, DataOK
  <2> QED BY <2>1, <2>2, <2>3, CInvBegins
<1>2. ASSUME NEW fans \in {Fans} \cup { {fan} : fan \in Fans }, ConfigureAutomatic(fans)
      PROVE  CInv'
  <2>1. /\ Idle /\ step' = "check" /\ candidate' = accepted'
        /\ accepted' = [fan \in Fans |-> IF fan \in fans THEN System ELSE accepted[fan]]
        /\ purpose' = "automatic" /\ chosen' = TRUE /\ UNCHANGED raced
        /\ UNCHANGED <<directory, durable, running, original, backedUp, blocked, pending, saved>>
    BY <1>2, Zenon DEF ConfigureAutomatic, Begin
  <2>2. accepted' \in Configs
    BY <1>0, <2>1 DEF Configs
  <2>3. /\ original' \in Contents /\ backedUp' \in BOOLEAN /\ blocked' \in BOOLEAN
        /\ pending' \in BOOLEAN /\ chosen' \in BOOLEAN
        /\ backedUp' /\ original' \in Foreign => original' \in backups
    BY <1>0, <2>1, Zenon DEF FlagsOK, DataOK
  <2> QED BY <2>1, <2>2, <2>3, CInvBegins
<1> QED BY <1>1, <1>2, CInvLoad, CInvRetry, Zenon

(* A save that fails, having replaced something that may be there or not.  *)
LEMMA CInvFail ==
  ASSUME CInv, step # "idle", Fail, UNCHANGED <<readable, running, accepted, original, blocked,
                                                saved, chosen>>,
         disk' \in {disk, candidate}, marker' \in {marker, TRUE}, kept' = kept,
         backups \subseteq backups', backups' \subseteq Foreign,
         backedUp' \in {backedUp, FALSE},
         mayKeep' \in {mayKeep, mayKeep \cup {disk'}}, disk' \in mayKeep',
         mayMark' \in {mayMark, mayMark \cup {marker'}}, marker' \in mayMark',
         mayKeep' = mayKeep \/ mayMark = {TRUE} \/ disk' = disk
  PROVE  CInv'
<1>1. /\ step' = "idle" /\ candidate' = Absent /\ purpose' = "none" /\ raced' = FALSE
      /\ pending' = TRUE
  BY Zenon DEF Fail, Ended
<1>2. FlagsOK'
  BY <1>1, StoreTypes, Zenon DEF CInv, FlagsOK
<1>3. DataOK'
  BY <1>1, <1>2, StoreTypes, ConfigsDiffer DEF CInv, DataOK, FlagsOK, Contents, Steps
<1>4. MarkCovers'
  BY <1>1, StoreTypes DEF CInv, MarkCovers, DataOK, FlagsOK
<1>5. BackupHolds'
  BY <1>1, StoreTypes DEF CInv, BackupHolds, FlagsOK
<1>6. SavesAccepted' /\ StaleDiskIsPending'
  BY <1>1, Zenon DEF SavesAccepted, StaleDiskIsPending
<1> QED BY <1>2, <1>3, <1>4, <1>5, <1>6, StoreTypes DEF CInv

(* The steps of a save.                                                    *)
LEMMA CInvSave == CInv /\ Save => CInv'
<1> SUFFICES ASSUME CInv, Save PROVE CInv'
  OBVIOUS
<1>0. /\ FlagsOK /\ DataOK /\ MarkCovers /\ BackupHolds /\ SavesAccepted
      /\ disk \in mayKeep /\ marker \in mayMark /\ mayMark \subseteq BOOLEAN
  BY StoreTypes DEF CInv, DataOK
<1>1. CASE Check
  <2>0. /\ step = "check" /\ UNCHANGED <<disk, readable, marker, backups, mayKeep, mayMark, kept,
                                        running, accepted, saved, chosen>>
    BY <1>1, Zenon DEF Check, directory, durable, history
  <2>1. CASE Fail
    <3>1. /\ step' = "idle" /\ candidate' = Absent /\ purpose' = "none" /\ raced' = FALSE
          /\ pending' = TRUE
      BY <2>1, Zenon DEF Fail, Ended
    <3>2. UNCHANGED <<original, backedUp>> /\ blocked' \in {blocked, TRUE}
      BY <1>1, <3>1, Zenon DEF Check, Continue
    <3>3. FlagsOK'
      BY <1>0, <2>0, <3>1, <3>2, Zenon DEF FlagsOK
    <3>4. DataOK' /\ MarkCovers' /\ BackupHolds' /\ SavesAccepted'
      BY <1>0, <2>0, <3>1, <3>2, <3>3
         DEF DataOK, FlagsOK, Steps, MarkCovers, BackupHolds, SavesAccepted
    <3>5. StaleDiskIsPending'
      BY <3>1, Zenon DEF StaleDiskIsPending
    <3> QED BY <3>3, <3>4, <3>5, StoreTypes DEF CInv
  <2>2. ASSUME ~Fail PROVE CInv'
    <3>1. /\ original' = disk /\ UNCHANGED <<blocked, pending>>
          /\ IF (backedUp /\ disk = original) \/ disk = Absent
               THEN backedUp' = TRUE /\ Continue("mark")
               ELSE backedUp' = FALSE /\ Continue("backup")
      BY <1>1, <2>2, Zenon DEF Check
    <3>2. /\ step' \in {"mark", "backup"} /\ UNCHANGED <<candidate, purpose, raced>>
          /\ backedUp' \in BOOLEAN
          /\ step' = "mark" => backedUp'
          /\ backedUp' => (backedUp /\ disk = original) \/ disk = Absent
      BY <3>1, Zenon DEF Continue
    <3>3. FlagsOK'
      BY <1>0, <2>0, <3>1, <3>2, Zenon DEF FlagsOK
    <3>4. DataOK' /\ MarkCovers' /\ BackupHolds' /\ SavesAccepted'
      BY <1>0, <2>0, <3>1, <3>2, <3>3, ConfigsDiffer
         DEF DataOK, FlagsOK, Steps, MarkCovers, BackupHolds, SavesAccepted
    <3>5. StaleDiskIsPending'
      BY <3>2 DEF StaleDiskIsPending, Idle
    <3> QED BY <3>3, <3>4, <3>5, StoreTypes DEF CInv
  <2> QED BY <2>1, <2>2
<1>2. CASE BackUp
  <2>0. /\ step = "backup"
        /\ UNCHANGED <<disk, marker, readable, running, accepted, original, blocked, saved, chosen>>
        /\ backups' \in {backups, backups \cup ({original} \cap Foreign)}
    BY <1>2, Zenon DEF BackUp, AtomicWrite, history
  <2>1. CASE Fail /\ backedUp' = (step' = "mark")
    <3>1. \/ UNCHANGED <<mayKeep, mayMark, kept>>
          \/ mayKeep' = mayKeep \cup {disk'} /\ mayMark' = mayMark \cup {marker'} /\ kept' = kept
      <4>1. step' # "mark"
        BY <2>1, Zenon DEF Fail, Ended
      <4>2. ~Continue("mark")
        BY <4>1, Zenon DEF Continue
      <4> QED BY <1>2, <4>2, Zenon DEF BackUp, AtomicWrite, durable, Unsynced
    <3>2. backedUp' = FALSE
      BY <2>1, Zenon DEF Fail, Ended
    <3> QED BY <1>0, <2>0, <2>1, <3>1, <3>2, CInvFail DEF DataOK
  <2>2. CASE Continue("mark") /\ UNCHANGED pending
    <3>1. /\ step' = "mark" /\ backedUp' = TRUE /\ UNCHANGED <<candidate, purpose, raced, pending>>
      BY <1>2, <2>2, Zenon DEF BackUp, Continue
    <3>2. /\ UNCHANGED <<mayKeep, mayMark, kept, backups>> /\ original \in backups
          \/ /\ mayKeep' = {disk'} /\ mayMark' = {marker'} /\ kept' = backups'
             /\ backups' = backups \cup ({original} \cap Foreign)
      <4>1. ~Fail
        BY <2>2, Zenon DEF Continue, Fail, Ended
      <4> QED BY <1>2, <4>1, Zenon DEF BackUp, AtomicWrite, durable, Synced
    <3>3. FlagsOK'
      BY <1>0, <2>0, <3>1, Zenon DEF FlagsOK
    <3>4. DataOK' /\ MarkCovers' /\ BackupHolds' /\ SavesAccepted'
      BY <1>0, <2>0, <3>1, <3>2, <3>3
         DEF DataOK, FlagsOK, Steps, MarkCovers, BackupHolds, SavesAccepted
    <3>5. StaleDiskIsPending'
      BY <3>1 DEF StaleDiskIsPending, Idle
    <3> QED BY <3>3, <3>4, <3>5, StoreTypes DEF CInv
  <2> QED BY <1>2, <2>1, <2>2, Zenon DEF BackUp, AtomicWrite
<1>3. CASE Mark
  <2>0. /\ step = "mark" /\ marker' \in {marker, TRUE}
        /\ UNCHANGED <<disk, backups, readable, running, accepted, original, backedUp, blocked,
                       saved, chosen>>
    BY <1>3, Zenon DEF Mark, AtomicWrite, history
  <2>1. CASE Fail
    <3>1. \/ UNCHANGED <<mayKeep, mayMark, kept, marker>>
          \/ mayKeep' = mayKeep \cup {disk'} /\ mayMark' = mayMark \cup {marker'} /\ kept' = kept
      <4>1. ~Continue("replace")
        BY <2>1, Zenon DEF Fail, Ended, Continue
      <4> QED BY <1>3, <4>1, Zenon DEF Mark, AtomicWrite, durable, Unsynced
    <3> QED BY <1>0, <2>0, <2>1, <3>1, CInvFail DEF DataOK
  <2>2. CASE Continue("replace") /\ UNCHANGED pending
    <3>1. step' = "replace" /\ UNCHANGED <<candidate, purpose, raced, pending>>
      BY <2>2, Zenon DEF Continue
    <3>2. /\ mayKeep' = {disk'} /\ mayMark' = {marker'} /\ kept' = backups' /\ marker' = TRUE
      <4>1. ~Fail
        BY <2>2, Zenon DEF Continue, Fail, Ended
      <4> QED BY <1>3, <4>1, Zenon DEF Mark, AtomicWrite, Synced
    <3>3. FlagsOK'
      BY <1>0, <2>0, <3>1, <3>2, Zenon DEF FlagsOK
    <3>4. mayMark' = {TRUE}
      BY <3>2, Zenon
    <3>5. DataOK' /\ MarkCovers' /\ BackupHolds' /\ SavesAccepted'
      BY <1>0, <2>0, <3>1, <3>2, <3>3, <3>4
         DEF DataOK, FlagsOK, Steps, MarkCovers, BackupHolds, SavesAccepted
    <3>6. StaleDiskIsPending'
      BY <3>1 DEF StaleDiskIsPending, Idle
    <3> QED BY <3>3, <3>5, <3>6, StoreTypes DEF CInv
  <2> QED BY <1>3, <2>1, <2>2, Zenon DEF Mark, AtomicWrite
<1>4. CASE Replace
  <2>0. /\ step = "replace" /\ UNCHANGED <<running, accepted, original, backedUp, blocked, chosen>>
        /\ saved' = IF step' = "unmark" THEN candidate ELSE saved
        /\ UNCHANGED <<marker, backups>> /\ mayMark = {TRUE}
    BY <1>0, <1>4, Zenon DEF Replace, AtomicWrite, directory, MarkCovers
  <2>1. CASE Fail
    <3>1. step' = "idle" /\ ~Continue("unmark") /\ pending' = TRUE /\ raced' = FALSE
          /\ candidate' = Absent /\ purpose' = "none" /\ saved' = saved
      BY <2>0, <2>1, Zenon DEF Fail, Ended, Continue
    <3>2. \/ UNCHANGED <<mayKeep, mayMark, kept, disk, readable>>
          \/ /\ mayKeep' = mayKeep \cup {disk'} /\ mayMark' = mayMark \cup {marker'}
             /\ kept' = kept /\ disk' = candidate /\ readable' = TRUE
      BY <1>4, <3>1, Zenon DEF Replace, AtomicWrite, durable, directory, Unsynced
    <3>3. FlagsOK'
      BY <1>0, <2>0, <3>1, <3>2, Zenon DEF FlagsOK
    <3>4. marker = TRUE /\ mayMark' = {TRUE}
      BY <1>0, <2>0, <3>2
    <3>5. DataOK' /\ MarkCovers' /\ BackupHolds' /\ SavesAccepted'
      BY <1>0, <2>0, <3>1, <3>2, <3>3, <3>4, ConfigsDiffer
         DEF DataOK, FlagsOK, Steps, Contents, MarkCovers, BackupHolds, SavesAccepted
    <3>6. StaleDiskIsPending'
      BY <3>1, Zenon DEF StaleDiskIsPending
    <3> QED BY <3>3, <3>5, <3>6, StoreTypes DEF CInv
  <2>2. CASE Continue("unmark") /\ UNCHANGED pending
    <3>1. step' = "unmark" /\ UNCHANGED <<candidate, purpose, raced, pending>> /\ saved' = candidate
      BY <2>0, <2>2, Zenon DEF Continue
    <3>2. /\ mayKeep' = {disk'} /\ mayMark' = {marker'} /\ kept' = backups'
          /\ disk' = candidate /\ readable' = TRUE
      <4>1. ~Fail
        BY <2>2, Zenon DEF Continue, Fail, Ended
      <4> QED BY <1>4, <4>1, Zenon DEF Replace, AtomicWrite, Synced
    <3>3. FlagsOK'
      BY <1>0, <2>0, <3>1, <3>2, Zenon DEF FlagsOK
    <3>4. DataOK' /\ MarkCovers' /\ BackupHolds' /\ SavesAccepted'
      BY <1>0, <2>0, <3>1, <3>2, <3>3
         DEF DataOK, FlagsOK, Steps, Contents, MarkCovers, BackupHolds, SavesAccepted
    <3>5. StaleDiskIsPending'
      BY <3>1 DEF StaleDiskIsPending, Idle
    <3> QED BY <3>3, <3>4, <3>5, StoreTypes DEF CInv
  <2> QED BY <1>4, <2>1, <2>2, Zenon DEF Replace, AtomicWrite
<1>5. CASE Unmark
  <2>0. /\ step = "unmark" /\ step' = "idle" /\ candidate' = Absent /\ purpose' = "none"
        /\ raced' = FALSE
        /\ accepted' = (IF purpose = "custom" THEN candidate ELSE accepted)
        /\ chosen' = (chosen \/ purpose = "custom")
        /\ UNCHANGED <<disk, backups, readable, running, original, backedUp, blocked, saved>>
    BY <1>5, Zenon DEF Unmark, Ended
  <2>1. \/ /\ marker' = FALSE /\ pending' = FALSE
           /\ mayKeep' = {disk} /\ mayMark' = {marker'} /\ kept' = backups
        \/ /\ marker' = FALSE /\ pending' = TRUE
           /\ mayKeep' = mayKeep \cup {disk} /\ mayMark' = mayMark \cup {marker'} /\ kept' = kept
        \/ UNCHANGED <<marker, mayKeep, mayMark, kept>> /\ pending' = TRUE
    BY <1>5, <2>0, Zenon DEF Unmark, Synced, Unsynced, durable
  <2>2. /\ candidate \in Configs /\ accepted' = candidate /\ saved = candidate
        /\ mayKeep \subseteq {candidate} \cup Foreign
    <3>1. candidate # Absent
      BY <1>0, <2>0 DEF DataOK
    <3>2. candidate \in Configs
      BY <1>0, <3>1, Zenon DEF DataOK
    <3>3. accepted' = candidate
      BY <1>0, <2>0 DEF SavesAccepted
    <3> QED BY <1>0, <2>0, <3>2, <3>3, Zenon DEF MarkCovers
  <2>3. FlagsOK'
    BY <1>0, <2>0, <2>1, Zenon DEF FlagsOK
  <2>4. /\ mayKeep' \subseteq mayKeep /\ disk' \in mayKeep' /\ marker' \in mayMark'
        /\ mayMark' \subseteq BOOLEAN /\ kept' \subseteq backups'
    BY <1>0, <2>0, <2>1 DEF DataOK
  <2>5. DataOK'
    BY <1>0, <2>0, <2>1, <2>2, <2>3, <2>4 DEF DataOK, FlagsOK, Steps
  <2>6. MarkCovers'
    BY <2>0, <2>2, <2>4 DEF MarkCovers
  <2>7. BackupHolds' /\ SavesAccepted'
    BY <1>0, <2>0 DEF BackupHolds, SavesAccepted
  <2>8. StaleDiskIsPending'
    <3> SUFFICES ASSUME Idle', chosen', disk' \notin Foreign, ~pending'
                 PROVE  \A contents \in mayKeep', marked \in mayMark' :
                          Resumes(contents, marked) \subseteq {accepted', Automatic}
      BY Zenon DEF StaleDiskIsPending
    <3>1. mayKeep' = {disk} /\ disk = candidate
      BY <1>0, <2>0, <2>1, <2>2
    <3>2. candidate \notin Foreign /\ candidate # Absent
      BY <2>2, DistinctAssumption
    <3>3. \A marked \in BOOLEAN : Resumes(candidate, marked) \subseteq {candidate, Automatic}
      BY <3>2 DEF Resumes, Decoded
    <3> QED BY <2>2, <2>4, <3>1, <3>3
  <2> QED BY <2>3, <2>5, <2>6, <2>7, <2>8, StoreTypes, Zenon DEF CInv
<1> QED BY <1>1, <1>2, <1>3, <1>4, <1>5, Zenon DEF Save

(* The app has ended: nothing is pending, and what a power failure may     *)
(* leave has become fewer.                                                 *)
LEMMA CInvStopped ==
  ASSUME CInv, Stopped, UNCHANGED <<readable, saved>>,
         disk' \in mayKeep', mayKeep' \subseteq mayKeep, marker' \in mayMark', mayMark' \subseteq mayMark,
         backups' \subseteq backups, kept' \subseteq backups'
  PROVE  CInv'
<1>1. /\ running' = FALSE /\ accepted' = Automatic /\ chosen' = FALSE
      /\ original' = Absent /\ backedUp' = FALSE /\ blocked' = FALSE /\ pending' = FALSE
      /\ step' = "idle" /\ candidate' = Absent /\ purpose' = "none" /\ raced' = FALSE
  BY Zenon DEF Stopped, Ended
<1>2. FlagsOK'
  <2>1. mayMark \subseteq BOOLEAN
    BY StoreTypes DEF CInv, DataOK
  <2>2. marker' \in BOOLEAN
    BY <2>1, Zenon
  <2> QED BY <1>1, <2>2, StoreTypes, Zenon DEF CInv, FlagsOK
<1>3. DataOK'
  BY <1>1, <1>2, StoreTypes, ConfigsDiffer DEF CInv, DataOK, Contents, Steps
<1>4. MarkCovers'
  BY <1>1 DEF CInv, MarkCovers
<1>5. BackupHolds' /\ SavesAccepted'
  BY <1>1, ConfigsDiffer DEF BackupHolds, SavesAccepted
<1>6. StaleDiskIsPending'
  BY <1>1, Zenon DEF StaleDiskIsPending, Idle
<1> QED BY <1>2, <1>3, <1>4, <1>5, <1>6, StoreTypes DEF CInv

(* The end of the app, of the power, and what others do to the file.       *)
LEMMA CInvEnvironment ==
  CInv /\ (Stop \/ PowerFails \/ (\E contents \in Foreign : Edit(contents)) \/ Protect
             \/ UNCHANGED vars) => CInv'
<1> SUFFICES ASSUME CInv, \/ Stop \/ PowerFails \/ (\E contents \in Foreign : Edit(contents))
                          \/ Protect \/ UNCHANGED vars
             PROVE  CInv'
  OBVIOUS
<1>0. FlagsOK /\ DataOK
  BY StoreTypes DEF CInv
<1> USE ConfigsDiffer
    DEF CInv, TypeOK, MarkCovers, BackupHolds, SavesAccepted, Idle, directory, durable,
        persistence, saving, history, Contents, Steps
<1>1. CASE Stop
  <2>1. Stopped /\ UNCHANGED <<disk, readable, marker, backups, mayKeep, mayMark, kept, saved>>
    BY <1>1, Zenon DEF Stop
  <2> QED BY <1>0, <2>1, CInvStopped DEF DataOK
<1>2. CASE PowerFails
  <2>1. /\ Stopped /\ UNCHANGED <<readable, saved>>
        /\ disk' \in mayKeep /\ marker' \in mayMark /\ backups' \in SUBSET backups
        /\ mayKeep' = {disk'} /\ mayMark' = {marker'} /\ kept' = backups'
    BY <1>2 DEF PowerFails, Synced
  <2> QED BY <2>1, CInvStopped
<1>3. ASSUME NEW contents \in Foreign, Edit(contents) PROVE CInv'
  <2>1. /\ UNCHANGED <<readable, marker, backups, mayMark, kept, running, accepted, original, backedUp,
                       blocked, pending, step, candidate, purpose, saved, chosen>>
        /\ disk' = contents /\ mayKeep' = mayKeep \cup {contents}
        /\ raced' = (raced \/ step \notin {"idle", "check"})
    BY <1>3, Zenon DEF Edit
  <2>2. FlagsOK'
    BY <1>0, <2>1, Zenon DEF FlagsOK
  <2>3. DataOK'
    BY <1>0, <2>1, <2>2 DEF DataOK
  <2>4. MarkCovers' /\ SavesAccepted' /\ BackupHolds'
    BY <1>0, <2>1
  <2>5. StaleDiskIsPending'
    BY <2>1 DEF StaleDiskIsPending
  <2> QED BY <2>2, <2>3, <2>4, <2>5, StoreTypes
<1>4. CASE Protect \/ UNCHANGED vars
  <2>1. UNCHANGED <<disk, marker, backups, mayKeep, mayMark, kept, running, accepted, original,
                    backedUp, blocked, pending, step, candidate, purpose, raced, saved, chosen>>
        /\ readable' \in {readable, ~readable}
    BY <1>4, Zenon DEF Protect, vars
  <2>2. FlagsOK'
    BY <1>0, <2>1, Zenon DEF FlagsOK
  <2>3. DataOK'
    BY <1>0, <2>1, Zenon DEF DataOK
  <2>4. MarkCovers' /\ SavesAccepted' /\ BackupHolds' /\ StaleDiskIsPending'
    BY <2>1, Zenon DEF StaleDiskIsPending
  <2> QED BY <2>2, <2>3, <2>4, StoreTypes
<1> QED BY <1>1, <1>2, <1>3, <1>4

LEMMA CInvAlways == Spec => []CInv
<1>1. CInv /\ [Next]_vars => CInv'
  BY CInvBegin, CInvSave, CInvEnvironment, Zenon DEF Next
<1> QED BY <1>1, CInvInit, PTL DEF Spec

(* The store keeps its type.                                               *)
THEOREM StoreTypeCorrect == Spec => []TypeOK
<1>1. CInv => TypeOK
  BY DEF CInv
<1> QED BY <1>1, CInvAlways, PTL

(* With no marker, a start finds what was last made durable, or what       *)
(* others wrote.                                                           *)
LEMMA LoadResumes == CInv => ResumesTheSaved
BY ConfigsDiffer
   DEF CInv, TypeOK, MarkCovers, Load, Resumes, Decoded, Customs, ResumesTheSaved

(* Whatever step of a save fails, and wherever the app or the machine      *)
(* stops, a start resumes a custom configuration of the app only if it is  *)
(* the last one that was made durable.                                     *)
THEOREM UnconfirmedIsNeverResumed == Spec => [][ResumesTheSaved]_vars
<1>1. CInv /\ [Next]_vars => [ResumesTheSaved]_vars
  BY LoadResumes
<1> QED BY <1>1, CInvAlways, PTL DEF Spec

(* What others wrote is in a durable backup before a save replaces it.     *)
THEOREM OriginalIsAlwaysBackedUp == Spec => OriginalIsBackedUp
<1>1. CInv /\ [Next]_vars =>
        [Replaces /\ disk \in Foreign /\ ~raced => disk \in kept]_vars
  BY DEF CInv, BackupHolds, Replaces
<1> QED BY <1>1, CInvAlways, PTL DEF Spec, OriginalIsBackedUp

(* What the user has chosen is what the next start resumes, or a save is   *)
(* still pending: an automatic configuration that could not be saved does  *)
(* not end as the custom one before it.                                    *)
THEOREM ChoiceIsResumed == Spec => []StaleDiskIsPending
<1>1. CInv => StaleDiskIsPending
  BY DEF CInv
<1> QED BY <1>1, CInvAlways, PTL

(* What a start takes over is confirmed, and what the user has chosen.     *)
THEOREM RestartIsAlwaysFaithful == Spec => RestartIsFaithful
<1>1. CInv /\ CInv' /\ [Next]_vars => [ResumesTheSaved /\ StaleDiskIsPending']_vars
  BY LoadResumes DEF CInv
<1> QED BY <1>1, CInvAlways, PTL DEF Spec, RestartIsFaithful
=============================================================================
