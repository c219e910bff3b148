------------------------------ MODULE MCWorker ------------------------------
(* A machine with two fans: the least on which a batch can be abandoned.   *)
EXTENDS Worker

CONSTANTS f1, f2
=============================================================================
