---------------------------- MODULE SmcTransport ----------------------------
(***************************************************************************)
(* The connection to AppleSMC (native::Connection in                       *)
(* crates/fan-platform/src/smc.rs): what a call of the kernel driver comes *)
(* to.  The driver (Smc) decides on the difference between a register that *)
(* does not exist and one that could not be read: a test register that is  *)
(* taken for absent is never released.                                     *)
(***************************************************************************)

(* IOConnectCallStructMethod: it fails in the kernel, brings another       *)
(* number of bytes than a packet has, or a packet with a result: 0, 0x84   *)
(* ("not found") or another.                                               *)
Replies == {"kernel", "short", "ok", "notFound", "other"}

(* The firmware says "not found" of a register that exists to any request  *)
(* but getKeyInfo.                                                         *)
Possible(request, exists) ==
  Replies \ (IF ~exists THEN {"ok"} ELSE IF request = "info" THEN {"notFound"} ELSE {})

(* checked_smc_response. *)
CheckedResponse(request, reply) ==
  CASE reply = "ok"                           -> "some"
    [] reply = "notFound" /\ request = "info" -> "none"
    [] OTHER                                  -> "error"

CallPacket(request, exists) == { CheckedResponse(request, r) : r \in Possible(request, exists) }

(* call, of a read or a write: an absent register is an error.             *)
Transact(request, exists) ==
  { IF got = "none" THEN "error" ELSE got : got \in CallPacket(request, exists) }

(* read_optional_key: getKeyInfo, the size it tells, and the read.  A key  *)
(* info of an earlier read saves the first request; it is dropped when the *)
(* read fails, so that it can do no more than that.                        *)
ReadOptional(exists) ==
  UNION { IF info = "some" THEN Transact("read", exists) \cup {"error"} ELSE {info} :
            info \in CallPacket("info", exists) }

(* read: a register that has to exist.                                     *)
Read(exists) == { IF got = "none" THEN "error" ELSE got : got \in ReadOptional(exists) }
=============================================================================
