------------------------------ MODULE MCTokens ------------------------------
(* Small instances of Tokens for TLC. *)
EXTENDS Tokens, TLC

CONSTANTS s1, s2, r1, r2, r3

Interchangeable == Permutations(Sessions) \cup Permutations(Reqs)
==============================================================================
