CONSTANTS
  l1 = l1
  l2 = l2
  w1 = w1
  Links = {l1, l2}
  Writers = {w1}
  None = None
  MaxWaits = 1
SPECIFICATION Spec
SYMMETRY Interchangeable
INVARIANTS
  TypeOK
  FlaggedIsReplaced
  WriterIsRead
CHECK_DEADLOCK FALSE
