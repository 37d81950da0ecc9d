------------------------------ MODULE MCAccounts ------------------------------
(* Small instances of Accounts for TLC. *)
EXTENDS Accounts, TLC

CONSTANTS e1, e2, n1, n2, c1, c2, c3, i1, i2, i3, r1, r2

Interchangeable ==
  Permutations(Emails) \cup Permutations(Names) \cup Permutations(Codes)
    \cup Permutations(Ids) \cup Permutations(Reqs)
==============================================================================
