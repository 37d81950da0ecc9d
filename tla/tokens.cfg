CONSTANTS
  s1 = s1
  s2 = s2
  r1 = r1
  r2 = r2
  r3 = r3
  Sessions = {s1, s2}
  Reqs = {r1, r2, r3}
  AccessTTL = 1
  RefreshTTL = 3
  Second = 2
  MaxTime = 7
  None = None
  Never = Never
SPECIFICATION Spec
SYMMETRY Interchangeable
INVARIANTS
  TypeOK
  HeldTokensWork
CHECK_DEADLOCK FALSE
