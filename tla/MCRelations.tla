----------------------------- MODULE MCRelations -----------------------------
(* Small instances of Relations for TLC. *)
EXTENDS Relations, TLC

CONSTANTS u1, u2, c1, c2, c3, r1, r2

\* The two users call each other.
MCMutual == {<<u1, u2>>, <<u2, u1>>}

Interchangeable == Permutations(Chains) \cup Permutations(Reqs)
==============================================================================
