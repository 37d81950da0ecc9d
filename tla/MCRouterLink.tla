----------------------------- MODULE MCRouterLink -----------------------------
(* Small instances of RouterLink for TLC. *)
EXTENDS RouterLink, TLC

CONSTANTS l1, l2, w1

Interchangeable == Permutations(Links)
===============================================================================
