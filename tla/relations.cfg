CONSTANTS
  u1 = u1
  u2 = u2
  c1 = c1
  c2 = c2
  c3 = c3
  r1 = r1
  r2 = r2
  Users = {u1, u2}
  Chains = {c1, c2, c3}
  Reqs = {r1, r2}
  Calls <- MCMutual
  None = None
SPECIFICATION Spec
SYMMETRY Interchangeable
INVARIANTS
  TypeOK
  FriendsShareAChain
  RequestedOnce
  RelationsAgree
PROPERTIES
  ChainKept
