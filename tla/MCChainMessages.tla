--------------------------- MODULE MCChainMessages ---------------------------
(* Small instances of ChainMessages for TLC. *)
EXTENDS ChainMessages

CONSTANTS u1, u2, m1, m2, m3, r1, r2

Interchangeable == Permutations(Ids) \cup Permutations(Users) \cup Permutations(Reqs)
==============================================================================
