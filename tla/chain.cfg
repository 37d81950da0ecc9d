CONSTANTS
  u1 = u1
  u2 = u2
  m1 = m1
  m2 = m2
  m3 = m3
  r1 = r1
  r2 = r2
  Users = {u1, u2}
  Ids = {m1, m2, m3}
  Reqs = {r1, r2}
  MaxTime = 3
  MaxEvents = 1
  PageCap = 2
  Limits = {0, 1, 3}
  None = None
SPECIFICATION Spec
SYMMETRY Interchangeable
INVARIANTS
  TypeOK
  PagesHaveNoGaps
  MarksPointToMessages
  MarksCoverMessages
  SeenWasHeard
CHECK_DEADLOCK FALSE
