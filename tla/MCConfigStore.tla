--------------------------- MODULE MCConfigStore ---------------------------
(* Two fans with one custom setting: a configuration of one fan may be in  *)
(* force while one of two is saved, or rejected.  Two contents of others,  *)
(* so that one may be backed up while the other is in the file.  Fans and  *)
(* contents are interchangeable.                                           *)
EXTENDS ConfigStore, ConfigDecoding, TLC

CONSTANTS left, right, x1, x2

Symmetry == Permutations(Fans) \cup Permutations(Foreign)

(* The decoding, on all documents of one fan with two names of curves, and *)
(* on those of two fans of which the first is well: its theorems hold      *)
(* there, and not because nothing is accepted.                             *)
WellFan == [id |-> 0, mode |-> [is |-> "curve", arg |-> "a"],
            curve |-> [id |-> "a", points |-> "own"]]
Fan(id) == [id : {id}, mode : Modes, curve : Curves]

Written(versions, tunings, policies, fans) ==
  [shape : {"array", "object"}, length : {"fits"}, version : versions,
   tuning : tunings, policy : policies, fans : fans]

SampleDocuments ==
  Written(1 .. 3, {"absent", "own", "broken"}, {"absent", "own", "invalid", "broken"},
          {<<fan>> : fan \in Fan(1) \cup Fan(10)})
    \cup Written({2}, {"own"}, {"own"}, {<<WellFan, fan>> : fan \in Fan(0) \cup Fan(1) \cup Fan(300)})

ASSUME DecodingAssumption ==
  \A doc \in SampleDocuments :
    /\ Accepted(doc) =>
         LET again == Encoded(Config(doc))
         IN Accepted(again) /\ Config(again) = Config(doc) /\ ~IsMigrated(again)
    /\ Decodes(doc) => \A i \in DOMAIN doc.fans :
         Config(doc).fans[i].mode \in {doc.fans[i].mode, SystemMode}
    /\ Decodes(doc) /\ Numbered(doc.fans) /\ (\A i \in DOMAIN doc.fans : doc.fans[i].id <= 9)
         => Accepted(doc)

ASSUME DecodingIsExercised ==
  /\ \E doc \in SampleDocuments : Accepted(doc) /\ Len(doc.fans) = 2 /\ IsMigrated(doc)
       /\ Config(doc).fans[1] = WellFan /\ Config(doc).fans[2].mode # doc.fans[2].mode
  /\ \E doc \in SampleDocuments : Decodes(doc) /\ ~Accepted(doc)
=============================================================================
