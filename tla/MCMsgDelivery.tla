---------------------------- MODULE MCMsgDelivery ----------------------------
(* Small instances of MsgDelivery for TLC. *)
EXTENDS MsgDelivery, TLC

CONSTANTS a, b, c, d

\* Social payloads and a chat message, of which some have the same timestamp.
MCTs == [p \in Payloads |-> IF p \in {a, b} THEN 2 ELSE 1]
MCAtomic == {d}
==============================================================================
