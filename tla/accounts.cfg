CONSTANTS
  e1 = e1
  e2 = e2
  n1 = n1
  n2 = n2
  c1 = c1
  c2 = c2
  c3 = c3
  i1 = i1
  i2 = i2
  i3 = i3
  r1 = r1
  r2 = r2
  Emails = {e1, e2}
  Spellings = {"lower", "mixed"}
  Names = {n1, n2}
  Codes = {c1, c2, c3}
  Ids = {i1, i2, i3}
  Reqs = {r1, r2}
  None = None
SPECIFICATION Spec
SYMMETRY Interchangeable
INVARIANTS
  TypeOK
  NamesAreUnique
  TakenNamesAreUsable
