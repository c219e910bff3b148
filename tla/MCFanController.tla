-------------------------- MODULE MCFanController --------------------------
(* Small instances of FanController, with a fan that never stops; one that *)
(* may be stopped, by the curve, is in MCFanResidence.  An id is only ever *)
(* compared with others, so that ids are interchangeable.                  *)
EXTENDS FanController, TLC

CONSTANTS i1, i2

Symmetry == Permutations(Ids)

WithAdaptive == {"automatic", "adaptive"}
=============================================================================
