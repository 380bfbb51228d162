---------------------------------- MODULE Wire ----------------------------------
(***************************************************************************)
(* Messages and bytes.  Marshal wraps a message, so that bytes and the     *)
(* message they encode are never confused.  Decoding bytes as a message of *)
(* another type fails: Carries tells whether it does not.  Hashes are      *)
(* injective.                                                              *)
(***************************************************************************)

Marshal(m) == [bytes |-> m]
Unmarshal(b) == b.bytes

(* b is the encoding of a message with these fields. *)
Carries(b, fields) == DOMAIN b = {"bytes"} /\ DOMAIN b.bytes = fields

Sha256(s) == [digest |-> s]

(* A nil pointer to a message, and the outcome of a conversion that fails. *)
Absent == [absent |-> TRUE]
Error  == [error |-> TRUE]
================================================================================
