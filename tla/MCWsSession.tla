----------------------------- MODULE MCWsSession -----------------------------
(* Small instances of WsSession for TLC. *)
EXTENDS WsSession

CONSTANTS w1, w2, s1, h1

\* Both connections belong to one session, so that they replace each other.
MCSessionOf == [w \in Conns |-> s1]

\* The two WSIDs are in the same shard, so that one blocks the other.
MCSameShard == [w \in Conns |-> h1]
==============================================================================
