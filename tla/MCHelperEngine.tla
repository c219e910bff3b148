-------------------------- MODULE MCHelperEngine ---------------------------
(* Two peers contend for two fans; and, in behaviours of their own, two     *)
(* callers for the accept loop, with one connection more than they hold.    *)
EXTENDS HelperEngine, HelperCalls

CONSTANTS p1, p2, f1, f2, c1, c2, k1, k2, k3

VARIABLE part   \* what a behaviour is about; the rest stands still

EitherInit ==
  /\ Init /\ CallsInit
  /\ \/ part = "engine"
     \/ part = "calls" /\ forced = {} /\ authorized = {}

EngineStep == part = "engine" /\ Next /\ UNCHANGED <<callVars, part>>
CallsStep  == part = "calls" /\ CallsNext /\ UNCHANGED <<vars, part>>
EitherNext == EngineStep \/ CallsStep

EitherSpec ==
  /\ EitherInit /\ [][EitherNext]_<<vars, callVars, part>>
  /\ part = "engine" => Fairness
=============================================================================
