---------------------------- MODULE CallContract ----------------------------
(***************************************************************************)
(* What the processes that call the helper may rely on, whatever becomes   *)
(* of their connections: a call that is answered was executed, once and    *)
(* while its caller was waiting; a call that is given up may still be      *)
(* executed later, but at most one such stray exists at a time, and no     *)
(* other call is executed before it.  Worker takes its requests to the     *)
(* helper for such calls (its `Answers` is `strays = {}`).                 *)
(***************************************************************************)
CONSTANTS
  Callers,
  Requests     \* names for requests whose caller no longer waits

VARIABLES
  call,        \* for every caller: no call, one not executed yet, or a done one
  strays       \* requests given up and still to be executed

vars == <<call, strays>>

Init == call = [c \in Callers |-> "none"] /\ strays = {}

Move(c, from, to) == call[c] = from /\ call' = [call EXCEPT ![c] = to]

Begin(c)   == Move(c, "none", "open") /\ UNCHANGED strays

Execute(c) == strays = {} /\ Move(c, "open", "done") /\ UNCHANGED strays

Answer(c)  == Move(c, "done", "none") /\ UNCHANGED strays

(* A refusal, a lost answer, or a deadline: they look the same.            *)
Fail(c) ==
  \/ Move(c, "open", "none") /\ UNCHANGED strays
  \/ strays = {} /\ Move(c, "open", "none") /\ \E r \in Requests : strays' = {r}
  \/ Move(c, "done", "none") /\ UNCHANGED strays

(* A stray is executed, or dissolves with its connection.                  *)
Settle == strays' = {} /\ UNCHANGED call

Next ==
  \/ \E c \in Callers : Begin(c) \/ Execute(c) \/ Answer(c) \/ Fail(c)
  \/ Settle

Spec == Init /\ [][Next]_vars

=============================================================================
