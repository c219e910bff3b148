---------------------------- MODULE HelperCalls -----------------------------
(***************************************************************************)
(* How a call of HelperClient travels: its connection, the Status it       *)
(* negotiates with, the command written into the same connection only      *)
(* after a compatible answer, and the deadline at which the client leaves; *)
(* on the other side the accept loop of run_helper with serve_session,     *)
(* which serves one connection after the other and at most two frames of   *)
(* each.  A client that leaves does not take its connection with it: it    *)
(* stays in the backlog of the listener, or in service, with whatever was  *)
(* written into it.                                                        *)
(*                                                                         *)
(* The order of the backlog, the contents of frames and what a command     *)
(* does (see HelperEngine) are left out.  A negative answer, an unreadable *)
(* one and none at all are the same here: the client leaves.               *)
(***************************************************************************)
CONSTANTS
  Callers,       \* threads that call the helper, of whatever process
  Connections,   \* bounds the connections that exist at a time
  NoConnection

ASSUME NoConnectionAssumption == NoConnection \notin Connections

VARIABLES
  \* HelperClient::send, for every caller
  phase,       \* "idle"; waiting for Status as its own request or as a "hello"; "asked"
  socket,      \* stream
  \* run_helper
  up,          \* the listener exists
  backlog,     \* connections not accepted yet
  serving,     \* the connection in serve_session
  hailed,      \* negotiated
  \* frames written into a connection and not read yet
  orders,      \* commands
  greetings,   \* answers to Status that are compatible()
  answers,     \* positive answers to commands
  \* history
  executed     \* connections whose command was handled

clients == <<phase, socket>>
server  == <<up, backlog, serving, hailed>>
frames  == <<orders, greetings, answers, executed>>
callVars == <<clients, server, frames>>

CallsTypeOK ==
  /\ phase \in [Callers -> {"idle", "status", "hello", "asked"}]
  /\ socket \in [Callers -> Connections \cup {NoConnection}]
  /\ up \in BOOLEAN /\ hailed \in BOOLEAN
  /\ backlog \subseteq Connections
  /\ serving \in Connections \cup {NoConnection}
  /\ orders \subseteq Connections /\ greetings \subseteq Connections
  /\ answers \subseteq Connections /\ executed \subseteq Connections

CallsInit ==
  /\ phase = [c \in Callers |-> "idle"]
  /\ socket = [c \in Callers |-> NoConnection]
  /\ up = TRUE /\ hailed = FALSE
  /\ backlog = {} /\ serving = NoConnection
  /\ orders = {} /\ greetings = {} /\ answers = {} /\ executed = {}

-----------------------------------------------------------------------------
(* The client.                                                             *)

Held == { socket[c] : c \in Callers }

(* connect_with_timeout and the first frame, which is a Status whatever    *)
(* the request; a connection that cannot be made changes nothing.          *)
Connect(c, first, k) ==
  /\ phase[c] = "idle" /\ up
  /\ k \notin backlog \cup Held \cup {serving}
  /\ phase' = [phase EXCEPT ![c] = first]
  /\ socket' = [socket EXCEPT ![c] = k]
  /\ backlog' = backlog \cup {k}
  /\ greetings' = greetings \ {k} /\ answers' = answers \ {k} /\ executed' = executed \ {k}
  /\ UNCHANGED <<up, serving, hailed, orders>>

(* Mutated form: both frames are written at once.                          *)
AskAtOnce(c) ==
  /\ phase[c] = "hello"
  /\ phase' = [phase EXCEPT ![c] = "asked"]
  /\ greetings' = greetings \ {socket[c]}
  /\ orders' = orders \cup ({socket[c]} \cap (backlog \cup {serving}))
  /\ UNCHANGED <<socket, server, answers, executed>>

(* The command follows a compatible answer on the same connection, and is  *)
(* lost where the helper has closed its end meanwhile.                     *)
Ask(c) ==
  /\ phase[c] = "hello" /\ socket[c] \in greetings
  /\ phase' = [phase EXCEPT ![c] = "asked"]
  /\ greetings' = greetings \ {socket[c]}
  /\ orders' = orders \cup ({socket[c]} \cap (backlog \cup {serving}))
  /\ UNCHANGED <<socket, server, answers, executed>>

Leave(c) ==
  /\ phase' = [phase EXCEPT ![c] = "idle"]
  /\ socket' = [socket EXCEPT ![c] = NoConnection]
  /\ UNCHANGED <<server, frames>>

Return(c) ==
  /\ \/ phase[c] = "status" /\ socket[c] \in greetings
     \/ phase[c] = "asked" /\ socket[c] \in answers
  /\ Leave(c)

(* A deadline, an error, or an answer that refuses.                        *)
GiveUp(c) == phase[c] # "idle" /\ Leave(c)

-----------------------------------------------------------------------------
(* The helper.                                                             *)

AcceptNext(k) ==
  /\ up /\ serving = NoConnection /\ k \in backlog
  /\ serving' = k /\ hailed' = FALSE
  /\ backlog' = backlog \ {k}
  /\ UNCHANGED <<up, clients, frames>>

(* The first frame: Status succeeds, and a second frame may follow.        *)
Greet ==
  /\ serving # NoConnection /\ ~hailed
  /\ hailed' = TRUE
  /\ greetings' = greetings \cup {serving}
  /\ UNCHANGED <<clients, up, backlog, serving, orders, answers, executed>>

(* The second: engine.handle, whether its caller still waits or not.       *)
Perform ==
  /\ hailed /\ serving \in orders
  /\ orders' = orders \ {serving}
  /\ executed' = executed \cup {serving}
  /\ UNCHANGED <<clients, server, greetings, answers>>

(* The answer to a command that succeeded ends the session.                *)
Confirm ==
  /\ serving \in executed
  /\ answers' = answers \cup {serving}
  /\ serving' = NoConnection
  /\ UNCHANGED <<clients, up, backlog, hailed, orders, greetings, executed>>

(* So do a frame that is refused or does not arrive in time, a command     *)
(* that fails, and a peer that is not authorized.                          *)
HangUp ==
  /\ serving # NoConnection
  /\ serving' = NoConnection
  /\ orders' = orders \ {serving}
  /\ UNCHANGED <<clients, up, backlog, hailed, greetings, answers, executed>>

(* The end of the process, of whatever cause, closes every connection; what *)
(* it has written can still be read.                                       *)
Terminate ==
  /\ up
  /\ up' = FALSE /\ backlog' = {} /\ serving' = NoConnection
  /\ orders' = {}
  /\ UNCHANGED <<clients, hailed, greetings, answers, executed>>

Relaunch ==
  /\ ~up
  /\ up' = TRUE
  /\ UNCHANGED <<clients, backlog, serving, hailed, frames>>

CallsNext ==
  \/ \E c \in Callers :
       \/ \E first \in {"status", "hello"}, k \in Connections : Connect(c, first, k)
       \/ Ask(c) \/ Return(c) \/ GiveUp(c)
  \/ \E k \in Connections : AcceptNext(k)
  \/ Greet \/ Perform \/ Confirm \/ HangUp
  \/ Terminate \/ Relaunch

CallsSpec == CallsInit /\ [][CallsNext]_callVars

-----------------------------------------------------------------------------
(* A command waits nowhere but in the connection being served, however     *)
(* many callers have connected and left: `helper.rs:271` writes it only    *)
(* once this helper has answered on this connection, and helper.rs:798     *)
(* answers on one at a time.                                               *)
OnlyServedIsCommanded == orders \subseteq {serving}

(* How far the call of each caller is: done once its own Status or command *)
(* has been executed.                                                      *)
Done(c) ==
  \/ phase[c] = "status" /\ socket[c] \in greetings
  \/ phase[c] = "asked" /\ socket[c] \in executed

CallOf(c) == IF phase[c] = "idle" THEN "none" ELSE IF Done(c) THEN "done" ELSE "open"

(* Each caller sees its calls answered as CallContract promises: by an     *)
(* execution of its own call, and never past a stray one (helper.rs:271,   *)
(* 798).                                                                   *)
Promise == INSTANCE CallContract WITH
  Requests <- Connections, call <- [c \in Callers |-> CallOf(c)], strays <- orders \ Held

CallsAreOrdered == Promise!Spec

=============================================================================
